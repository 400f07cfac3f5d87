---------------------------- MODULE StoredProofs ----------------------------
(***************************************************************************)
(* Theorems about what PM keeps of the outside and of itself: the calendar *)
(* mirror (CalendarMirror) and a chat's index (ChatIndex).                 *)
(*                                                                         *)
(* Of the mirror: what a save's entry protects, and that a change of an    *)
(* old event stays to be listed, for any lag, any number of changes,       *)
(* failures and restarts, and any length of time.                          *)
(*                                                                         *)
(* Of a chat: the index is what its rows say, for a chat of any length,    *)
(* any number of restarts and deletions, and the recording of turns, the   *)
(* sweep and the rebuild in any order.                                     *)
(***************************************************************************)
EXTENDS CalendarMirror, ChatIndex, TLAPS

-----------------------------------------------------------------------------
(* The calendar mirror. *)

NeverLive == \A v \in 1..Latest : Where(v) \in {"past", "gone"}

\* the row is what Google has now, or lacks only a change no older than h
Covered(h) == mirror = Current \/ log[Latest].at >= h

(* Times: no version is later than now, and one no list shows yet is young. *)
Times ==
  /\ Latest >= 1 /\ listed <= Latest
  /\ \A v \in 1..Latest : log[v].at <= now
  /\ \A v \in listed + 1..Latest : log[v].at >= Back(now)
  /\ history.from <= Back(now)

(* The row and the entry: what a save put there is not gone back behind.    *)
Rows ==
  /\ mirror # 0 => mirror <= Latest /\ log[mirror].where \in Bands
  /\ entry.kind \in Saved => /\ 1 <= entry.v /\ entry.v <= Latest /\ log[entry.v].where \in Bands
                             /\ mirror = 0 \/ entry.v <= mirror
  /\ entry.kind = "delete" => entry.v < Latest /\ (mirror = 0 \/ entry.v < mirror)
  /\ entry.kind = "create" => log[1].where = "live"

(* What Google answered was made in this tick.                              *)
Answer ==
  /\ landing.kind \in Saved => 1 <= landing.v /\ landing.v <= Latest /\ log[landing.v].where \in Bands
  /\ landing.kind = "delete" => landing.v < Latest
  /\ landing.kind = "create" => log[1].where = "live"
  /\ landing.kind # "none" => log[Latest].at = now

(* The next history check still counts from before what the row lacks.      *)
History == NeverLive /\ history.from # Never => history.stale \/ Covered(history.from)

(* A pass: it is over within a tick; a save recorded while it fetches is in *)
(* the row; what its listing of the past lacks is young.                    *)
PassHeld ==
  /\ pass.saw <= Latest
  /\ pass.older => /\ pass.step \in {"read", "write"} /\ log[Latest].at = now
                   /\ entry.kind \in Saved => mirror = entry.v
  /\ pass.step \in {"write", "note"} => pass.at = now
  /\ pass.step = "judge" /\ pass.who = "job" => pass.at = now
  /\ pass.band = "past" => pass.whole
  /\ pass.step = "write" /\ pass.band = "past" => \A v \in pass.saw + 1..Latest : log[v].at >= Back(now)
  /\ pass.step = "write" /\ ~pass.whole /\ ~Drops /\ entry.kind = "delete" => mirror = 0

(* What a pass is about to note: a mark, or the row lacks only what is      *)
(* young; or the newest version is among what it judges.                    *)
PassNotes ==
  /\ pass.who = "job" /\ pass.step \in {"ask", "judge"} =>
       history.from # Never /\ (history.stale => pass.marked)
  /\ NeverLive /\ pass.who = "job" /\ pass.step = "judge" =>
       pass.marked \/ Covered(Back(now)) \/ pass.items = {Latest}
  /\ NeverLive /\ pass.step = "note" /\ pass.band = "past" => pass.marked \/ Covered(Back(now))

World == Times /\ Rows /\ Answer
Fetched == ~Drops => History /\ PassNotes
MirrorInv == MirrorTypeOK /\ World /\ PassHeld /\ Fetched

-----------------------------------------------------------------------------
(* What the variables are made of.                                          *)
LogStates == [at : Time, where : Bands \cup {"gone"}]
EntryStates == [kind : {"none", "upsert", "create", "delete"}, v : Version]
LandingStates == [kind : {"none", "upsert", "create", "delete", "mark"}, v : Version]
HistoryStates == [from : Time \cup {Never}, stale : BOOLEAN]
PassStates == [who : {"none", "full", "check", "job"}, band : Bands,
               step : {"idle", "ask", "judge", "read", "write", "note"},
               older : BOOLEAN, marked : BOOLEAN, stale : BOOLEAN, whole : BOOLEAN,
               saw : Version, at : Time, items : SUBSET Version]

LEMMA Typed ==
  MirrorTypeOK <=>
    /\ log \in Seq(LogStates) /\ Latest \in Version
    /\ listed \in Version /\ now \in Time /\ mirror \in Version
    /\ entry \in EntryStates /\ landing \in LandingStates
    /\ since \in Time \cup {Never} /\ absorbed \subseteq Version
    /\ history \in HistoryStates /\ due \in BOOLEAN /\ fails \in 0..MaxEvents
    /\ pass \in PassStates
BY DEF MirrorTypeOK, LogStates, EntryStates, LandingStates, HistoryStates, PassStates

LEMMA TypedNext ==
  MirrorTypeOK' <=>
    /\ log' \in Seq(LogStates) /\ Latest' \in Version
    /\ listed' \in Version /\ now' \in Time /\ mirror' \in Version
    /\ entry' \in EntryStates /\ landing' \in LandingStates
    /\ since' \in Time \cup {Never} /\ absorbed' \subseteq Version
    /\ history' \in HistoryStates /\ due' \in BOOLEAN /\ fails' \in 0..MaxEvents
    /\ pass' \in PassStates
BY DEF MirrorTypeOK, LogStates, EntryStates, LandingStates, HistoryStates, PassStates

LEMMA Numbers ==
  /\ Lag \in Nat /\ MaxTime \in Nat /\ MaxEvents \in Nat /\ MaxEvents >= 1
  /\ Version = 0..MaxEvents + 1 /\ Time = 0..MaxTime /\ Never = -1
  /\ \A t \in Time : Back(t) \in Time /\ Back(t) <= t /\ Back(t) = (IF t < Lag THEN 0 ELSE t - Lag)
BY MirrorAssumption DEF Version, Time, Never, Back

\* the same for the provers' arithmetic
LEMMA TimesAreInts ==
  /\ \A t \in Time : t \in Int /\ 0 <= t
  /\ \A t \in Time : Back(t) \in Int /\ 0 <= Back(t) /\ Back(t) <= t
  /\ \A t \in Time \cup {Never} : t \in Int
  /\ \A v \in Version : v \in Int /\ 0 <= v
<1>1. /\ MaxTime \in Nat /\ MaxEvents \in Nat /\ Version = 0..MaxEvents + 1 /\ Time = 0..MaxTime /\ Never = -1
  BY Numbers
<1>2. \A t \in Time : t \in Int /\ 0 <= t
  BY <1>1
<1>3. \A t \in Time : Back(t) \in Int /\ 0 <= Back(t) /\ Back(t) <= t
  BY <1>2, Numbers
<1> QED
  BY <1>1, <1>2, <1>3

LEMMA LogIs ==
  ASSUME MirrorTypeOK
  PROVE  /\ Latest \in Nat /\ Latest \in Version /\ log \in Seq(LogStates)
         /\ \A v \in 1..Latest : /\ log[v] \in LogStates /\ log[v].at \in Time
                                 /\ log[v].where \in Bands \cup {"gone"}
                                 /\ Where(v) = log[v].where
<1>1. Latest \in Nat /\ Latest \in Version /\ log \in Seq(LogStates)
  BY Typed DEF Latest
<1>2. ASSUME NEW v \in 1..Latest
      PROVE  log[v] \in LogStates /\ log[v].at \in Time /\ log[v].where \in Bands \cup {"gone"}
             /\ Where(v) = log[v].where
  <2>1. log[v] \in LogStates
    BY <1>1, <1>2 DEF Latest
  <2>2. v # 0
    BY <1>1, <1>2
  <2> QED
    BY <2>1, <2>2 DEF LogStates, Where
<1> QED
  BY <1>1, <1>2

LEMMA PassIs ==
  ASSUME MirrorTypeOK
  PROVE  /\ pass \in PassStates
         /\ pass.who \in {"none", "full", "check", "job"} /\ pass.band \in Bands
         /\ pass.step \in {"idle", "ask", "judge", "read", "write", "note"}
         /\ pass.older \in BOOLEAN /\ pass.marked \in BOOLEAN /\ pass.stale \in BOOLEAN
         /\ pass.whole \in BOOLEAN /\ pass.saw \in Version /\ pass.at \in Time
         /\ pass.items \subseteq Version
<1>1. pass \in PassStates
  BY Typed
<1> QED
  BY <1>1 DEF PassStates

LEMMA RowIs ==
  ASSUME MirrorTypeOK
  PROVE  /\ mirror \in Version /\ listed \in Version /\ now \in Time
         /\ entry \in EntryStates /\ entry.kind \in {"none", "upsert", "create", "delete"}
         /\ entry.v \in Version
         /\ landing \in LandingStates
         /\ landing.kind \in {"none", "upsert", "create", "delete", "mark"} /\ landing.v \in Version
         /\ history \in HistoryStates /\ history.from \in Time \cup {Never} /\ history.stale \in BOOLEAN
         /\ fails \in 0..MaxEvents
<1>1. /\ mirror \in Version /\ listed \in Version /\ now \in Time
      /\ entry \in EntryStates /\ landing \in LandingStates /\ history \in HistoryStates
      /\ fails \in 0..MaxEvents
  BY Typed
<1> QED
  BY <1>1 DEF EntryStates, LandingStates, HistoryStates

LEMMA IdleIs == Idle \in PassStates /\ NoEntry \in EntryStates /\ NoEntry \in LandingStates
<1>1. 0 \in Version /\ 0 \in Time
  BY Numbers
<1> QED
  BY <1>1 DEF Idle, PassStates, Bands, NoEntry, EntryStates, LandingStates

(* A pass that has nothing in hand, or is about to ask or to read, or a     *)
(* change check that judges.                                                *)
Whos == {"none", "full", "check", "job"}
Light == {p \in PassStates : /\ p.step \in {"idle", "ask", "read", "judge"} /\ p.saw = 0
                             /\ ~p.older /\ p.whole /\ (p.step = "judge" => p.who = "check")}

LEMMA IdleIsLight == Idle \in Light /\ Idle.step = "idle"
BY IdleIs DEF Idle, Light

LEMMA AsksIsLight ==
  ASSUME NEW who \in Whos
  PROVE  [Idle EXCEPT !.who = who, !.step = "ask"] \in Light
<1>1. Idle \in PassStates /\ Idle.saw = 0 /\ Idle.older = FALSE /\ Idle.whole = TRUE
  BY IdleIs DEF Idle
<1> QED
  BY <1>1 DEF Light, Whos, PassStates

LEMMA FetchesIsLight ==
  ASSUME MirrorTypeOK, NEW who \in Whos, NEW band \in Bands, NEW items \in SUBSET Version
  PROVE  Fetches(who, band, items) \in Light /\ Fetches(who, band, items).step = "read"
<1>1. Idle \in PassStates /\ pass.stale \in BOOLEAN /\ pass.marked \in BOOLEAN
  BY IdleIs, PassIs
<1>2. /\ Fetches(who, band, items) \in PassStates
      /\ Fetches(who, band, items).step = "read" /\ Fetches(who, band, items).older = FALSE
      /\ Fetches(who, band, items).saw = 0 /\ Fetches(who, band, items).whole = TRUE
  BY <1>1 DEF Fetches, Idle, PassStates, Whos
<1> QED
  BY <1>2 DEF Light

LEMMA StaysLight ==
  ASSUME NEW p \in Light, NEW b \in BOOLEAN
  PROVE  [p EXCEPT !.stale = b] \in Light /\ [p EXCEPT !.marked = b] \in Light
<1>1. p \in PassStates
  BY DEF Light
<1> QED
  BY <1>1 DEF Light, PassStates

(* One more version at Google.                                              *)
LEMMA Grows ==
  ASSUME MirrorTypeOK, NEW where \in Bands \cup {"gone"}, Changes(where)
  PROVE  /\ log' \in Seq(LogStates) /\ Latest' = Latest + 1 /\ Latest' \in Version
         /\ \A v \in 1..Latest : log'[v] = log[v]
         /\ log'[Latest + 1] = [at |-> now, where |-> where]
         /\ log'[Latest'].at = now /\ log'[Latest'].where = where
         /\ UNCHANGED <<listed, now>>
<1>1. log \in Seq(LogStates) /\ Latest \in Nat /\ Latest = Len(log)
  BY LogIs DEF Latest
<1>2. [at |-> now, where |-> where] \in LogStates
  BY RowIs DEF LogStates
<1>3. log' = Append(log, [at |-> now, where |-> where]) /\ UNCHANGED <<listed, now>>
  BY DEF Changes
<1>4. log' \in Seq(LogStates) /\ Len(log') = Len(log) + 1
  BY <1>1, <1>2, <1>3
<1>5. Latest' \in Version
  <2>1. Latest - 1 + fails < MaxEvents /\ fails \in 0..MaxEvents /\ MaxEvents \in Nat
    BY RowIs, Numbers DEF Changes, Happens
  <2>2. Latest' = Latest + 1
    BY <1>1, <1>4 DEF Latest
  <2> QED
    BY <1>1, <2>1, <2>2, Numbers
<1>6. \A v \in 1..Len(log) : log'[v] = log[v]
  BY <1>1, <1>2, <1>3
<1>7. log'[Len(log) + 1] = [at |-> now, where |-> where]
  BY <1>1, <1>2, <1>3
<1> QED
  BY <1>1, <1>3, <1>4, <1>5, <1>6, <1>7 DEF Latest

-----------------------------------------------------------------------------
(* The passes' steps that touch neither Google nor the row.                 *)
LEMMA WorldStays ==
  ASSUME World, UNCHANGED <<log, listed, now, mirror, entry, landing, history>>
  PROVE  World' /\ (History => History') /\ (NeverLive' <=> NeverLive) /\ Latest' = Latest
         /\ \A h : Covered(h)' <=> Covered(h)
<1>1. Latest' = Latest /\ \A v : Where(v)' = Where(v)
  BY DEF Latest, Where
<1>2. Current' = Current
  BY <1>1 DEF Current, Where, Latest
<1>3. (NeverLive' <=> NeverLive) /\ \A h : Covered(h)' <=> Covered(h)
  BY <1>1, <1>2 DEF NeverLive, Covered
<1>4. History => History'
  BY <1>3 DEF History
<1> QED
  BY <1>1, <1>3, <1>4 DEF World, Times, Rows, Answer, Latest, Back

LEMMA LightIsHeld ==
  ASSUME pass' \in Light, Latest' \in Nat,
         pass'.who = "job" /\ pass'.step = "ask" => history'.from # Never /\ ~history'.stale
  PROVE  PassHeld' /\ PassNotes'
BY DEF PassHeld, PassNotes, Light

(* What a pass's step keeps that touches no more than its books.            *)
LEMMA LightStep ==
  ASSUME MirrorInv, UNCHANGED <<log, listed, now, mirror, entry, landing, history>>,
         pass' \in Light, since' \in Time \cup {Never}, absorbed' \subseteq Version, due' \in BOOLEAN,
         fails' \in 0..MaxEvents,
         pass'.who = "job" /\ pass'.step = "ask" => history.from # Never /\ ~history.stale
  PROVE  MirrorInv'
<1>1. MirrorTypeOK /\ World /\ (~Drops => History)
  BY DEF MirrorInv, Fetched
<1>2. MirrorTypeOK'
  <2>1. pass' \in PassStates
    BY DEF Light
  <2> QED
    BY <1>1, <2>1, Typed, TypedNext DEF Latest
<1>3. World' /\ (~Drops => History') /\ Latest' = Latest
  BY <1>1, WorldStays
<1>4. Latest' \in Nat
  BY <1>1, <1>3, LogIs
<1>5. PassHeld' /\ PassNotes'
  BY <1>4, LightIsHeld
<1> QED
  BY <1>2, <1>3, <1>5 DEF MirrorInv, Fetched

LEMMA Absorbs ==
  ASSUME MirrorTypeOK, NEW t \in Time, NEW items \in SUBSET Version
  PROVE  /\ FetchedAt(t, items) => since' \in Time \cup {Never} /\ absorbed' \subseteq Version
         /\ UnchangedAt(t) => since' \in Time \cup {Never} /\ absorbed' \subseteq Version
<1>1. absorbed \subseteq Version /\ since \in Time \cup {Never} /\ Back(t) \in Time
  BY Typed, Numbers
<1> QED
  BY <1>1 DEF FetchedAt, UnchangedAt, Later, Pruned

LEMMA Items ==
  ASSUME MirrorTypeOK, World, NEW h
  PROVE  ListedSince(h) \in SUBSET Version
<1> listed \in Version
  BY Typed
<1> QED
  BY DEF ListedSince

\* strings and sets the steps name
LEMMA Names == {"live", "past"} \subseteq Bands /\ {"full", "check", "job"} \subseteq Whos /\ {} \in SUBSET Version
BY DEF Bands, Whos

LEMMA FullBeginsKeeps == ASSUME MirrorInv, FullBegins PROVE MirrorInv'
<1>1. MirrorTypeOK
  BY DEF MirrorInv
<1>2. /\ pass' = Fetches("full", "live", {})
      /\ UNCHANGED <<log, listed, now, mirror, entry, landing, since, absorbed, history, due, fails>>
  BY DEF FullBegins, Goes, google, books
<1>3. pass' \in Light /\ pass'.step = "read"
  BY <1>1, <1>2, FetchesIsLight, Names
<1>4. since \in Time \cup {Never} /\ absorbed \subseteq Version /\ due \in BOOLEAN /\ fails \in 0..MaxEvents
  BY <1>1, Typed
<1> QED
  BY <1>2, <1>3, <1>4, LightStep

LEMMA JobBeginsKeeps == ASSUME MirrorInv, JobBegins PROVE MirrorInv'
<1>1. MirrorTypeOK
  BY DEF MirrorInv
<1>2. /\ pass' = IF history.from = Never \/ history.stale
                   THEN Fetches("job", "past", {}) ELSE [Idle EXCEPT !.who = "job", !.step = "ask"]
      /\ UNCHANGED <<log, listed, now, mirror, entry, landing, since, absorbed, history, fails>>
      /\ due' = FALSE
  BY DEF JobBegins, Goes, google
<1>3. since \in Time \cup {Never} /\ absorbed \subseteq Version /\ due \in BOOLEAN /\ fails \in 0..MaxEvents
  BY <1>1, Typed
<1>4. Fetches("job", "past", {}) \in Light /\ Fetches("job", "past", {}).step = "read"
  BY <1>1, FetchesIsLight, Names
<1>5. [Idle EXCEPT !.who = "job", !.step = "ask"] \in Light
  BY AsksIsLight, Names
<1>6. pass' \in Light /\ (pass'.step = "ask" => history.from # Never /\ ~history.stale)
  BY <1>2, <1>4, <1>5
<1> QED
  BY <1>2, <1>3, <1>6, LightStep

LEMMA CheckBeginsKeeps == ASSUME MirrorInv, CheckBegins PROVE MirrorInv'
<1>1. MirrorTypeOK
  BY DEF MirrorInv
<1> DEFINE p == IF since = Never THEN Fetches("check", "live", {})
                                 ELSE [Idle EXCEPT !.who = "check", !.step = "ask"]
<1>2. /\ pass' = [p EXCEPT !.stale = history.stale]
      /\ UNCHANGED <<log, listed, now, mirror, entry, landing, since, absorbed, history, due, fails>>
  BY DEF CheckBegins, Goes, google, books
<1>3. /\ since \in Time \cup {Never} /\ absorbed \subseteq Version /\ due \in BOOLEAN /\ fails \in 0..MaxEvents
      /\ history.stale \in BOOLEAN
  BY <1>1, Typed, RowIs
<1>4. Fetches("check", "live", {}) \in Light /\ Fetches("check", "live", {}).who = "check"
  <2>1. Fetches("check", "live", {}) \in Light
    BY <1>1, FetchesIsLight, Names
  <2> QED
    BY <2>1 DEF Fetches, Idle
<1>5. [Idle EXCEPT !.who = "check", !.step = "ask"] \in Light
  BY AsksIsLight, Names
<1>6. [Idle EXCEPT !.who = "check", !.step = "ask"].who = "check"
  BY DEF Idle
<1>7. p \in Light /\ p.who = "check"
  BY <1>4, <1>5, <1>6
<1> HIDE DEF p
<1>8. pass' \in Light /\ pass'.who = "check"
  <2>1. p \in PassStates
    BY <1>7 DEF Light
  <2> QED
    BY <1>2, <1>3, <1>7, <2>1, StaysLight DEF PassStates
<1> QED
  BY <1>2, <1>3, <1>8, LightStep

LEMMA CheckAsksKeeps == ASSUME MirrorInv, CheckAsks PROVE MirrorInv'
<1>1. MirrorTypeOK /\ World
  BY DEF MirrorInv
<1> DEFINE items == ListedSince(since)
<1>2. /\ IF items \subseteq absorbed
           THEN /\ UnchangedAt(now)
                /\ pass' = IF pass.stale THEN [Fetches("check", "past", {}) EXCEPT !.marked = FALSE] ELSE Idle
           ELSE pass' = Fetches("check", "live", items) /\ UNCHANGED <<since, absorbed>>
      /\ UNCHANGED <<log, listed, now, mirror, entry, landing, history, due, fails>>
  BY DEF CheckAsks, Goes, google
<1>3. /\ since \in Time \cup {Never} /\ absorbed \subseteq Version /\ due \in BOOLEAN /\ fails \in 0..MaxEvents
      /\ now \in Time /\ items \in SUBSET Version
  BY <1>1, Typed, Items
<1> HIDE DEF items
<1>4. since' \in Time \cup {Never} /\ absorbed' \subseteq Version
  BY <1>1, <1>2, <1>3, Absorbs
<1>5. Fetches("check", "live", items) \in Light /\ Fetches("check", "live", items).step = "read"
  BY <1>1, <1>3, FetchesIsLight, Names
<1>6. [Fetches("check", "past", {}) EXCEPT !.marked = FALSE] \in Light
  <2>1. Fetches("check", "past", {}) \in Light
    BY <1>1, FetchesIsLight, Names
  <2> QED
    BY <2>1, StaysLight
<1>7. [Fetches("check", "past", {}) EXCEPT !.marked = FALSE].step = "read"
  BY DEF Fetches, Idle
<1>8. pass' \in Light /\ pass'.step # "ask"
  BY <1>2, <1>5, <1>6, <1>7, IdleIsLight
<1> QED
  BY <1>2, <1>3, <1>4, <1>8, LightStep

LEMMA NoteFullKeeps == ASSUME MirrorInv, NoteFull PROVE MirrorInv'
<1>1. MirrorTypeOK
  BY DEF MirrorInv
<1>2. /\ pass' = Idle /\ UNCHANGED <<log, listed, now, mirror, entry, landing, history, fails>>
      /\ IF pass.whole THEN FetchedAt(pass.at, {}) /\ due' = TRUE ELSE UNCHANGED <<since, absorbed, due>>
  BY DEF NoteFull, Goes, google
<1>3. /\ since \in Time \cup {Never} /\ absorbed \subseteq Version /\ due \in BOOLEAN /\ fails \in 0..MaxEvents
      /\ pass.at \in Time
  BY <1>1, Typed, PassIs
<1>4. since' \in Time \cup {Never} /\ absorbed' \subseteq Version /\ due' \in BOOLEAN
  BY <1>1, <1>2, <1>3, Absorbs
<1> QED
  BY <1>2, <1>3, <1>4, IdleIsLight, LightStep

LEMMA PassFailsKeeps == ASSUME MirrorInv, PassFails PROVE MirrorInv'
<1>1. MirrorTypeOK
  BY DEF MirrorInv
<1>2. /\ pass' = Idle /\ fails' = fails + 1 /\ Happens
      /\ UNCHANGED <<log, listed, now, mirror, entry, landing, since, absorbed, history, due>>
  BY DEF PassFails, Goes, google, books
<1>3. since \in Time \cup {Never} /\ absorbed \subseteq Version /\ due \in BOOLEAN
  BY <1>1, Typed
<1>4. fails' \in 0..MaxEvents
  <2>1. Latest \in Nat /\ Latest >= 1 /\ fails \in 0..MaxEvents
    BY <1>1, LogIs, RowIs DEF MirrorInv, World, Times
  <2> QED
    BY <1>2, <2>1, Numbers DEF Happens
<1> QED
  BY <1>2, <1>3, <1>4, IdleIsLight, LightStep

LEMMA NoteCheckKeeps == ASSUME MirrorInv, NoteCheck PROVE MirrorInv'
<1>1. MirrorTypeOK
  BY DEF MirrorInv
<1> DEFINE judge == [Idle EXCEPT !.who = "check", !.step = "judge", !.items = pass.items]
<1>2. /\ pass' = Idle \/ pass' = judge
      /\ UNCHANGED <<log, listed, now, mirror, entry, landing, history, due, fails>>
      /\ FetchedAt(pass.at, pass.items) \/ UNCHANGED <<since, absorbed>>
  BY DEF NoteCheck, Goes, google
<1>3. /\ since \in Time \cup {Never} /\ absorbed \subseteq Version /\ due \in BOOLEAN /\ fails \in 0..MaxEvents
      /\ pass.at \in Time /\ pass.items \in SUBSET Version
  BY <1>1, Typed, PassIs
<1>4. since' \in Time \cup {Never} /\ absorbed' \subseteq Version
  BY <1>1, <1>2, <1>3, Absorbs
<1>5. judge \in Light /\ judge.step = "judge"
  <2>1. Idle \in PassStates /\ Idle.saw = 0 /\ Idle.older = FALSE /\ Idle.whole = TRUE
    BY IdleIs DEF Idle
  <2> QED
    BY <1>3, <2>1 DEF Light, PassStates
<1> HIDE DEF judge
<1>6. pass' \in Light /\ pass'.step # "ask"
  BY <1>2, <1>5, IdleIsLight
<1> QED
  BY <1>2, <1>3, <1>4, <1>6, LightStep

(* A listing, of what it may: all of the past, or less of the live band.    *)
LEMMA ReadKeeps == ASSUME MirrorInv, Read PROVE MirrorInv'
<1>1. MirrorTypeOK /\ World /\ PassHeld /\ (~Drops => History)
  BY DEF MirrorInv, Fetched
<1>0. PICK whole \in IF Incomplete THEN BOOLEAN ELSE {TRUE} :
        /\ fails' = IF whole THEN fails ELSE fails + 1
        /\ \E shows \in {listed} \cup (IF whole THEN {} ELSE {0}) :
             Goes([pass EXCEPT !.step = "write", !.whole = whole, !.at = now, !.saw = shows])
  BY DEF Read
<1>a. PICK shows \in {listed} \cup (IF whole THEN {} ELSE {0}) :
        Goes([pass EXCEPT !.step = "write", !.whole = whole, !.at = now, !.saw = shows])
  BY <1>0
<1>2. /\ fails' = IF whole THEN fails ELSE fails + 1
      /\ pass' = [pass EXCEPT !.step = "write", !.whole = whole, !.at = now, !.saw = shows]
  BY <1>0, <1>a DEF Goes
<1>3. /\ UNCHANGED <<log, listed, now, mirror, entry, landing, since, absorbed, history, due>>
      /\ pass.step = "read" /\ whole \in BOOLEAN /\ (whole => shows = listed) /\ shows \in {0, listed}
      /\ ~whole => Incomplete
  BY <1>2 DEF Read, google, books
<1>4. /\ pass \in PassStates /\ now \in Time /\ listed \in Version /\ 0 \in Version /\ listed <= Latest
      /\ Latest \in Nat
  BY <1>1, PassIs, RowIs, Numbers, LogIs DEF World, Times
<1>5. /\ pass' \in PassStates /\ pass'.step = "write" /\ pass'.whole = whole /\ pass'.at = now
      /\ pass'.saw = shows /\ pass'.older = pass.older /\ pass'.band = pass.band
  BY <1>2, <1>3, <1>4 DEF PassStates
<1>6. fails' \in 0..MaxEvents
  <2>1. Latest >= 1 /\ fails \in 0..MaxEvents
    BY <1>1, RowIs DEF World, Times
  <2>2. CASE whole
    BY <1>2, <2>1, <2>2
  <2>3. CASE ~whole
    BY <1>2, <1>3, <1>4, <2>1, <2>3, Numbers DEF Incomplete, Happens
  <2> QED
    BY <1>3, <2>2, <2>3
<1>7. MirrorTypeOK'
  BY <1>1, <1>3, <1>5, <1>6, Typed, TypedNext DEF Latest
<1>8. World' /\ (~Drops => History') /\ Latest' = Latest
  BY <1>1, <1>3, WorldStays
<1>9. PassHeld'
  <2>1. pass'.saw <= Latest'
    BY <1>3, <1>4, <1>5, <1>8, Numbers
  <2>2. pass'.older => /\ pass'.step \in {"read", "write"} /\ log'[Latest'].at = now'
                       /\ entry'.kind \in Saved => mirror' = entry'.v
    BY <1>1, <1>3, <1>5, <1>8 DEF PassHeld
  <2>3. pass'.band = "past" => pass'.whole
    BY <1>3, <1>5 DEF Incomplete
  <2>4. pass'.band = "past" => \A v \in pass'.saw + 1..Latest' : log'[v].at >= Back(now)'
    BY <1>1, <1>3, <1>5, <1>8, <2>3 DEF World, Times, Back
  <2>5. ~pass'.whole /\ ~Drops /\ entry'.kind = "delete" => mirror' = 0
    BY <1>3, <1>5 DEF Incomplete
  <2> QED
    BY <1>3, <1>5, <2>1, <2>2, <2>3, <2>4, <2>5 DEF PassHeld
<1>10. PassNotes'
  BY <1>5 DEF PassNotes
<1> QED
  BY <1>7, <1>8, <1>9, <1>10 DEF MirrorInv, Fetched

(* The check of the past asks what changed since the time it kept.          *)
LEMMA JobAsksKeeps == ASSUME MirrorInv, JobAsks PROVE MirrorInv'
<1>1. MirrorTypeOK /\ World /\ PassHeld /\ (~Drops => History /\ PassNotes)
  BY DEF MirrorInv, Fetched
<1>2. /\ pass' = [pass EXCEPT !.step = "judge", !.at = now, !.items = ListedSince(history.from)]
      /\ UNCHANGED <<log, listed, now, mirror, entry, landing, since, absorbed, history, due, fails>>
      /\ pass.step = "ask" /\ pass.who = "job"
  BY DEF JobAsks, Goes, google, books
<1>3. /\ pass \in PassStates /\ now \in Time /\ ListedSince(history.from) \in SUBSET Version
      /\ listed \in Version /\ Latest \in Nat /\ listed <= Latest /\ Latest >= 1
  BY <1>1, PassIs, RowIs, Items, LogIs DEF World, Times
<1>4. /\ pass' \in PassStates /\ pass'.step = "judge" /\ pass'.at = now /\ pass'.saw = pass.saw
      /\ pass'.items = ListedSince(history.from) /\ pass'.marked = pass.marked /\ pass'.who = "job"
      /\ pass'.older = pass.older /\ pass'.band = pass.band /\ pass'.whole = pass.whole
  BY <1>2, <1>3 DEF PassStates
<1>5. MirrorTypeOK'
  BY <1>1, <1>2, <1>4, Typed, TypedNext DEF Latest
<1>6. /\ World' /\ (~Drops => History') /\ Latest' = Latest /\ (NeverLive' <=> NeverLive)
      /\ \A h : Covered(h)' <=> Covered(h)
  BY <1>1, <1>2, WorldStays
<1>7. PassHeld'
  BY <1>1, <1>2, <1>4, <1>6 DEF PassHeld
<1>8. ASSUME ~Drops PROVE PassNotes'
  <2>1. history.from # Never /\ (history.stale => pass.marked)
    BY <1>1, <1>2, <1>8 DEF PassNotes
  <2>2. ASSUME NeverLive, ~pass.marked, ~Covered(Back(now)) PROVE ListedSince(history.from) = {Latest}
    <3>1. Covered(history.from) /\ mirror # Current
      BY <1>1, <1>8, <2>1, <2>2 DEF History, Covered
    <3>2. log[Latest].at >= history.from /\ ~(log[Latest].at >= Back(now))
      BY <2>2, <3>1 DEF Covered
    <3>3. listed = Latest
      BY <1>1, <1>3, <3>2, Numbers DEF World, Times
    <3> QED
      BY <1>3, <3>2, <3>3 DEF ListedSince
  <2>3. Covered(Back(now))' <=> Covered(Back(now))
    BY <1>2 DEF Covered, Current, Where, Latest, Back
  <2> QED
    BY <1>2, <1>4, <1>6, <2>1, <2>2, <2>3 DEF PassNotes
<1> QED
  BY <1>5, <1>6, <1>7, <1>8 DEF MirrorInv, Fetched

(* The past was checked: the time it counts from moves up to this pass's.   *)
LEMMA HistoryMoves ==
  ASSUME MirrorInv, UNCHANGED <<log, listed, now, mirror, entry, landing, since, absorbed, due, fails>>,
         pass' = Idle, pass.at = now, CheckedHistory(pass.at),
         ~Drops /\ NeverLive => pass.marked \/ Covered(Back(now))
  PROVE  MirrorInv'
<1>1. MirrorTypeOK /\ World
  BY DEF MirrorInv
<1>2. history' = [from |-> Back(now), stale |-> pass.marked]
  BY DEF CheckedHistory
<1>3. /\ Back(now) \in Time /\ pass.marked \in BOOLEAN /\ Latest \in Nat
  BY <1>1, Numbers, RowIs, PassIs, LogIs
<1>4. history' \in HistoryStates /\ history'.from = Back(now) /\ history'.stale = pass.marked
  BY <1>2, <1>3 DEF HistoryStates
<1>5. MirrorTypeOK'
  BY <1>1, <1>4, IdleIs, Typed, TypedNext DEF Latest
<1>6. Latest' = Latest /\ (NeverLive' => NeverLive) /\ \A h : Covered(h)' <=> Covered(h)
  BY DEF Latest, NeverLive, Where, Covered, Current
<1>7. World'
  <2>1. Times'
    BY <1>1, <1>3, <1>4, <1>6, Numbers DEF World, Times, Back
  <2>2. Rows' /\ Answer'
    BY <1>1, <1>6 DEF World, Rows, Answer
  <2> QED
    BY <2>1, <2>2 DEF World
<1>8. PassHeld' /\ PassNotes'
  BY <1>3, <1>6, IdleIsLight, LightIsHeld
<1>9. ~Drops => History'
  <2>1. ASSUME ~Drops, NeverLive PROVE history'.stale \/ Covered(history'.from)
    BY <1>4, <2>1
  <2>2. Covered(history'.from) <=> Covered(history.from)'
    BY <1>4, <1>6 DEF Covered, Current, Where, Latest
  <2> QED
    BY <1>6, <2>1, <2>2 DEF History
<1> QED
  BY <1>5, <1>7, <1>8, <1>9 DEF MirrorInv, Fetched

LEMMA NotePastKeeps == ASSUME MirrorInv, NotePast PROVE MirrorInv'
<1>1. /\ pass' = Idle /\ CheckedHistory(pass.at) /\ pass.step = "note" /\ pass.band = "past"
      /\ UNCHANGED <<log, listed, now, mirror, entry, landing, since, absorbed, due, fails>>
  BY DEF NotePast, Goes, google
<1>2. pass.at = now /\ (~Drops /\ NeverLive => pass.marked \/ Covered(Back(now)))
  BY <1>1 DEF MirrorInv, Fetched, PassHeld, PassNotes
<1> QED
  BY <1>1, <1>2, HistoryMoves

LEMMA JudgeKeeps == ASSUME MirrorInv, Judge PROVE MirrorInv'
<1>1. MirrorTypeOK /\ World /\ PassHeld /\ (~Drops => PassNotes)
  BY DEF MirrorInv, Fetched
<1>2. UNCHANGED <<log, listed, now, mirror, entry, landing, since, absorbed, due, fails>> /\ pass.step = "judge"
  BY DEF Judge, google
<1>3. since \in Time \cup {Never} /\ absorbed \subseteq Version /\ due \in BOOLEAN /\ fails \in 0..MaxEvents
  BY <1>1, Typed
<1> DEFINE again == (pass.who = "check" /\ history.stale) \/ \E v \in pass.items : Reaches(v)
<1>4. CASE again
  <2>1. pass' = Fetches(pass.who, "past", {}) /\ UNCHANGED history
    BY <1>4 DEF Judge, Goes
  <2>2. pass.who \in Whos
    BY <1>1, PassIs DEF Whos
  <2>3. pass' \in Light /\ pass'.step = "read"
    BY <1>1, <2>1, <2>2, FetchesIsLight, Names
  <2> QED
    BY <1>2, <1>3, <2>1, <2>3, LightStep
<1>5. CASE ~again /\ pass.who # "job"
  <2>1. pass' = Idle /\ UNCHANGED history
    BY <1>5 DEF Judge, Goes
  <2> QED
    BY <1>2, <1>3, <2>1, IdleIsLight, LightStep
<1>6. CASE ~again /\ pass.who = "job"
  <2>1. pass' = Idle /\ CheckedHistory(pass.at) /\ pass.at = now
    BY <1>1, <1>2, <1>6 DEF Judge, Goes, PassHeld
  <2>2. ASSUME ~Drops, NeverLive, pass.items = {Latest} PROVE mirror = Current
    <3>1. ~Reaches(Latest)
      BY <1>6, <2>2
    <3>2. mirror # 0 => mirror \in 1..Latest
      BY <1>1, RowIs, LogIs, Numbers DEF World, Rows
    <3>3. Latest \in 1..Latest /\ Latest # 0
      BY <1>1, LogIs DEF World, Times
    <3>4. mirror # 0 => Where(mirror) = "past"
      BY <1>1, <2>2, <3>2, LogIs DEF NeverLive, World, Rows, Bands
    <3> QED
      BY <3>1, <3>2, <3>3, <3>4, <2>2 DEF Reaches, Current, NeverLive
  <2>3. ~Drops /\ NeverLive => pass.marked \/ Covered(Back(now))
    BY <1>1, <1>2, <1>6, <2>2 DEF PassNotes, Covered
  <2> QED
    BY <1>2, <2>1, <2>3, HistoryMoves
<1> QED
  BY <1>4, <1>5, <1>6

LEMMA RestartsKeeps == ASSUME MirrorInv, Restarts PROVE MirrorInv'
<1>1. MirrorTypeOK /\ World /\ (~Drops => History)
  BY DEF MirrorInv, Fetched
<1>2. /\ pass' = Idle /\ fails' = fails + 1 /\ Happens /\ entry' = NoEntry /\ landing' = NoEntry
      /\ due' = FALSE /\ since' = Never /\ absorbed' = {}
      /\ UNCHANGED <<log, listed, now, mirror, history>>
  BY DEF Restarts, Goes, google
<1>3. Latest \in Nat /\ Latest >= 1 /\ fails \in 0..MaxEvents
  BY <1>1, LogIs, RowIs DEF World, Times
<1>4. fails' \in 0..MaxEvents
  BY <1>2, <1>3, Numbers DEF Happens
<1>5. MirrorTypeOK'
  BY <1>1, <1>2, <1>4, IdleIs, Typed, TypedNext DEF Latest
<1>6. Latest' = Latest /\ (NeverLive' => NeverLive) /\ (History => History')
  BY <1>2 DEF Latest, NeverLive, Where, Covered, Current, History
<1>7. World'
  BY <1>1, <1>2, <1>6 DEF World, Times, Rows, Answer, NoEntry, Saved, Back
<1>8. PassHeld' /\ PassNotes'
  BY <1>2, <1>3, <1>6, IdleIsLight, LightIsHeld
<1> QED
  BY <1>1, <1>5, <1>6, <1>7, <1>8 DEF MirrorInv, Fetched

-----------------------------------------------------------------------------
(* Google and its clock.                                                    *)
LEMMA TickKeeps == ASSUME MirrorInv, Tick PROVE MirrorInv'
<1>1. MirrorTypeOK /\ World /\ PassHeld /\ (~Drops => History)
  BY DEF MirrorInv, Fetched
<1>2. /\ now < MaxTime /\ now' = now + 1 /\ landing.kind = "none" /\ pass.step = "idle"
      /\ \A v \in listed + 1..Latest : log[v].at >= now' - Lag
      /\ UNCHANGED <<log, listed, mirror, entry, landing, since, absorbed, history, due, pass, fails>>
  BY DEF Tick, Answered, books
<1>3. /\ now \in Time /\ listed \in Version /\ Latest \in Nat /\ Latest' = Latest
      /\ \A v \in 1..Latest : log[v].at \in Time
  BY <1>1, <1>2, RowIs, LogIs DEF Latest
<1>4. now' \in Time
  BY <1>2, <1>3, Numbers
<1>5. MirrorTypeOK'
  BY <1>1, <1>2, <1>3, <1>4, Typed, TypedNext DEF Latest
<1>6. World'
  <2>0. now \in Int /\ 0 <= now /\ Lag \in Int /\ 0 <= Lag
    BY <1>3, TimesAreInts, Numbers
  <2>a. Back(now') = (IF now' < Lag THEN 0 ELSE now' - Lag) /\ Back(now) = (IF now < Lag THEN 0 ELSE now - Lag)
    BY <1>3, <1>4, Numbers
  <2>1. Back(now') = (IF now' < Lag THEN 0 ELSE now' - Lag) /\ Back(now) <= Back(now')
    BY <1>2, <2>0, <2>a
  <2>2. \A v \in listed + 1..Latest : log[v].at >= Back(now')
    <3> SUFFICES ASSUME NEW v \in listed + 1..Latest PROVE log[v].at >= Back(now')
      OBVIOUS
    <3>1. v \in 1..Latest
      BY <1>3, Numbers
    <3>2. log[v].at \in Int /\ 0 <= log[v].at
      BY <1>3, <3>1, TimesAreInts
    <3>3. log[v].at >= now' - Lag
      BY <1>2
    <3> QED
      BY <1>2, <2>0, <2>1, <3>2, <3>3
  <2>3. \A v \in 1..Latest : log[v].at <= now'
    <3> SUFFICES ASSUME NEW v \in 1..Latest PROVE log[v].at <= now'
      OBVIOUS
    <3>1. log[v].at <= now /\ log[v].at \in Int
      BY <1>1, <1>3, TimesAreInts DEF World, Times
    <3> QED
      BY <1>2, <2>0, <3>1
  <2>4. history.from <= Back(now')
    <3>1. history.from \in Int /\ Back(now) \in Int /\ Back(now') \in Int
      BY <1>1, <1>3, <1>4, RowIs, TimesAreInts
    <3>2. history.from <= Back(now)
      BY <1>1 DEF World, Times
    <3> QED
      BY <2>1, <3>1, <3>2
  <2>5. Times'
    BY <1>1, <1>2, <1>3, <2>2, <2>3, <2>4 DEF World, Times, Back
  <2> QED
    BY <1>1, <1>2, <1>3, <2>5 DEF World, Rows, Answer
<1>7. PassHeld' /\ PassNotes'
  BY <1>1, <1>2, <1>3 DEF PassHeld, PassNotes
<1>8. ~Drops => History'
  BY <1>1, <1>2 DEF History, NeverLive, Covered, Current, Where, Latest
<1> QED
  BY <1>5, <1>6, <1>7, <1>8 DEF MirrorInv, Fetched

LEMMA CatchesUpKeeps == ASSUME MirrorInv, CatchesUp PROVE MirrorInv'
<1>1. MirrorTypeOK /\ World /\ PassHeld /\ (~Drops => History /\ PassNotes)
  BY DEF MirrorInv, Fetched
<1>2. /\ listed' \in listed + 1..Latest
      /\ UNCHANGED <<log, now, mirror, entry, landing, since, absorbed, history, due, pass, fails>>
  BY DEF CatchesUp, books
<1>3. /\ listed \in Version /\ Latest \in Nat /\ Latest \in Version /\ Latest' = Latest
  BY <1>1, <1>2, RowIs, LogIs DEF Latest
<1>4. listed' \in Version /\ listed' <= Latest /\ listed <= listed'
  BY <1>2, <1>3, Numbers
<1>5. MirrorTypeOK'
  BY <1>1, <1>2, <1>3, <1>4, Typed, TypedNext DEF Latest
<1>6. World'
  <2>1. \A v \in listed' + 1..Latest : log[v].at >= Back(now)
    BY <1>1, <1>3, <1>4, Numbers DEF World, Times
  <2> QED
    BY <1>1, <1>2, <1>3, <1>4, <2>1 DEF World, Times, Rows, Answer, Back
<1>7. PassHeld'
  BY <1>1, <1>2, <1>3 DEF PassHeld, Back
<1>8. ~Drops => History' /\ PassNotes'
  BY <1>1, <1>2, <1>3 DEF History, PassNotes, NeverLive, Covered, Current, Where, Latest, Back
<1> QED
  BY <1>5, <1>6, <1>7, <1>8 DEF MirrorInv, Fetched

(* A change at Google is new to the lists, and newer than all PM counts     *)
(* from.                                                                    *)
LEMMA ChangeKeeps ==
  ASSUME MirrorInv, NEW where \in Bands \cup {"gone"}, Changes(where),
         UNCHANGED <<mirror, entry, books, pass, fails>>,
         landing' \in LandingStates, Answer'
  PROVE  MirrorInv'
<1>1. MirrorTypeOK /\ World /\ PassHeld /\ (~Drops => PassNotes)
  BY DEF MirrorInv, Fetched
<1>2. UNCHANGED <<listed, now, mirror, entry, since, absorbed, history, due, pass, fails>>
  BY DEF books, Changes
<1>3. /\ log' \in Seq(LogStates) /\ Latest' = Latest + 1 /\ Latest' \in Version
      /\ \A v \in 1..Latest : log'[v] = log[v]
      /\ log'[Latest'].at = now
  BY <1>1, Grows
<1>4. /\ Latest \in Nat /\ Latest >= 1 /\ listed \in Version /\ now \in Time /\ mirror \in Version
      /\ Back(now) \in Time /\ Back(now) <= now /\ entry.v \in Version
  BY <1>1, LogIs, RowIs, Numbers DEF World, Times
<1>5. MirrorTypeOK'
  BY <1>1, <1>2, <1>3, Typed, TypedNext
<1>6. Times'
  <2>1. \A v \in 1..Latest' : log'[v].at <= now
    <3> SUFFICES ASSUME NEW v \in 1..Latest' PROVE log'[v].at <= now
      OBVIOUS
    <3>1. v = Latest' \/ v \in 1..Latest
      BY <1>3, <1>4
    <3>2. now <= now
      BY <1>4, TimesAreInts
    <3> QED
      BY <1>1, <1>3, <3>1, <3>2 DEF World, Times
  <2>2. \A v \in listed + 1..Latest' : log'[v].at >= Back(now)
    <3> SUFFICES ASSUME NEW v \in listed + 1..Latest' PROVE log'[v].at >= Back(now)
      OBVIOUS
    <3>1. v = Latest' \/ v \in listed + 1..Latest
      BY <1>3, <1>4, Numbers
    <3>2. v \in listed + 1..Latest => v \in 1..Latest
      BY <1>4, Numbers
    <3> QED
      BY <1>1, <1>3, <1>4, <3>1, <3>2, Numbers DEF World, Times
  <2>3. Latest' >= 1 /\ listed <= Latest' /\ history.from <= Back(now)
    BY <1>1, <1>3, <1>4, TimesAreInts DEF World, Times
  <2>4. Back(now)' = Back(now)
    BY <1>2 DEF Back
  <2> QED
    BY <1>2, <2>1, <2>2, <2>3, <2>4 DEF Times
<1>7. Rows'
  <2>1. mirror # 0 => mirror \in 1..Latest
    BY <1>1, <1>4, Numbers DEF World, Rows
  <2>2. entry.kind \in Saved => entry.v \in 1..Latest
    BY <1>1, <1>4, Numbers DEF World, Rows
  <2>3. 1 \in 1..Latest /\ \A v \in 1..Latest : v <= Latest'
    BY <1>3, <1>4
  <2>4. entry.kind = "delete" => entry.v < Latest' /\ (mirror = 0 \/ entry.v < mirror)
    <3>1. entry.v \in Int
      BY <1>4, TimesAreInts
    <3>2. entry.kind = "delete" => entry.v < Latest /\ (mirror = 0 \/ entry.v < mirror)
      BY <1>1 DEF World, Rows
    <3> QED
      BY <1>3, <1>4, <3>1, <3>2
  <2>5. mirror # 0 => mirror <= Latest' /\ log'[mirror].where \in Bands
    BY <1>1, <1>3, <2>1, <2>3 DEF World, Rows
  <2>6. entry.kind \in Saved => /\ 1 <= entry.v /\ entry.v <= Latest' /\ log'[entry.v].where \in Bands
                                /\ mirror = 0 \/ entry.v <= mirror
    BY <1>1, <1>3, <2>2, <2>3 DEF World, Rows
  <2>7. entry.kind = "create" => log'[1].where = "live"
    BY <1>1, <1>3, <2>3 DEF World, Rows
  <2> QED
    BY <1>2, <2>4, <2>5, <2>6, <2>7 DEF Rows
<1>8. PassHeld'
  <2>1. pass.saw \in Version
    BY <1>1, PassIs
  <2>2. pass.step = "write" /\ pass.band = "past" => \A v \in pass.saw + 1..Latest' : log'[v].at >= Back(now)
    <3> SUFFICES ASSUME pass.step = "write", pass.band = "past", NEW v \in pass.saw + 1..Latest'
                 PROVE  log'[v].at >= Back(now)
      OBVIOUS
    <3>1. v = Latest' \/ v \in pass.saw + 1..Latest
      BY <1>3, <1>4, <2>1, Numbers
    <3>2. v \in pass.saw + 1..Latest => v \in 1..Latest
      BY <1>4, <2>1, Numbers
    <3> QED
      BY <1>1, <1>3, <1>4, <3>1, <3>2, Numbers DEF PassHeld
  <2>3. pass.saw <= Latest'
    BY <1>1, <1>3, <1>4, <2>1, Numbers DEF PassHeld
  <2>4. pass.older => pass.step \in {"read", "write"} /\ (entry.kind \in Saved => mirror = entry.v)
    BY <1>1 DEF PassHeld
  <2>5. /\ pass.step \in {"write", "note"} \/ (pass.step = "judge" /\ pass.who = "job") => pass.at = now
        /\ pass.band = "past" => pass.whole
        /\ pass.step = "write" /\ ~pass.whole /\ ~Drops /\ entry.kind = "delete" => mirror = 0
    BY <1>1 DEF PassHeld
  <2>6. Back(now)' = Back(now)
    BY <1>2 DEF Back
  <2> QED
    BY <1>2, <1>3, <2>2, <2>3, <2>4, <2>5, <2>6 DEF PassHeld
<1>9. ~Drops => History' /\ PassNotes'
  <2>1. NeverLive' => NeverLive
    BY <1>3, <1>4 DEF NeverLive, Where
  <2>2. history.from <= now
    <3>1. history.from \in Time \cup {Never} /\ history.from <= Back(now)
      BY <1>1, RowIs DEF World, Times
    <3> QED
      BY <1>4, <3>1, Numbers
  <2>3. Covered(history.from)' /\ Covered(Back(now))'
    BY <1>2, <1>3, <1>4, <2>2, Numbers DEF Covered, Back
  <2> QED
    BY <1>1, <1>2, <2>1, <2>3 DEF History, PassNotes
<1> QED
  BY <1>1, <1>5, <1>6, <1>7, <1>8, <1>9 DEF MirrorInv, Fetched, World

LEMMA OtherChangesKeeps ==
  ASSUME MirrorInv, NEW where \in Bands \cup {"gone"}, OtherChanges(where) PROVE MirrorInv'
<1>1. MirrorTypeOK /\ World
  BY DEF MirrorInv
<1>2. Changes(where) /\ UNCHANGED <<mirror, entry, landing, books, pass, fails>>
  BY DEF OtherChanges
<1>3. /\ Latest' = Latest + 1 /\ \A v \in 1..Latest : log'[v] = log[v]
      /\ log'[Latest'].at = now /\ now' = now
  BY <1>1, <1>2, Grows
<1>4. Latest \in Nat /\ Latest >= 1 /\ landing \in LandingStates /\ landing.v \in Version
  BY <1>1, LogIs, RowIs DEF World, Times
<1>5. Answer'
  BY <1>1, <1>2, <1>3, <1>4, Numbers DEF World, Answer
<1> QED
  BY <1>2, <1>4, <1>5, ChangeKeeps

LEMMA SavesKeep ==
  ASSUME MirrorInv, NEW where \in Bands \cup {"gone"}, Changes(where),
         NEW kind \in {"upsert", "delete", "mark"}, NEW v \in {Latest, Latest + 1}, Saves(kind, v),
         kind = "upsert" => v = Latest + 1 /\ where \in Bands, kind = "delete" => v = Latest
  PROVE  MirrorInv'
<1>1. MirrorTypeOK /\ World
  BY DEF MirrorInv
<1>2. landing' = [kind |-> kind, v |-> v] /\ UNCHANGED <<mirror, entry, books, pass, fails>>
  BY DEF Saves
<1>3. /\ Latest' = Latest + 1 /\ Latest' \in Version /\ log'[Latest'].where = where
      /\ log'[Latest'].at = now /\ now' = now
  BY <1>1, Grows
<1>4. Latest \in Nat /\ Latest >= 1 /\ Latest \in Version
  BY <1>1, LogIs DEF World, Times
<1>5. landing' \in LandingStates
  BY <1>2, <1>3, <1>4 DEF LandingStates
<1>6. Answer'
  BY <1>2, <1>3, <1>4 DEF Answer, Saved
<1> QED
  BY <1>2, <1>5, <1>6, ChangeKeeps

LEMMA PmSavesKeeps == ASSUME MirrorInv, PmSaves PROVE MirrorInv'
<1>1. PICK where \in Bands : Changes(where) /\ Saves("upsert", Latest + 1)
  BY DEF PmSaves
<1> QED
  BY <1>1, SavesKeep

LEMMA PmDeletesKeeps == ASSUME MirrorInv, PmDeletes PROVE MirrorInv'
<1>1. Changes("gone") /\ Saves("delete", Latest)
  BY DEF PmDeletes
<1> QED
  BY <1>1, SavesKeep

LEMMA PmChangesPastKeeps == ASSUME MirrorInv, PmChangesPast PROVE MirrorInv'
<1>1. Changes("past") /\ Saves("mark", Latest + 1) /\ "past" \in Bands
  BY DEF PmChangesPast, Bands
<1> QED
  BY <1>1, SavesKeep

-----------------------------------------------------------------------------
(* What Google answered is recorded, or is not.                             *)
LEMMA UnrecordedKeeps ==
  ASSUME MirrorInv, Unrecorded, landing' = NoEntry, UNCHANGED <<google, since, absorbed, due, fails>>
  PROVE  MirrorInv'
<1>1. MirrorTypeOK /\ World /\ PassHeld /\ (~Drops => History /\ PassNotes)
  BY DEF MirrorInv, Fetched
<1>2. /\ UNCHANGED <<log, listed, now, mirror, entry, since, absorbed, history, due, pass, fails>>
      /\ landing' = NoEntry
  BY DEF Unrecorded, google
<1>3. MirrorTypeOK'
  BY <1>1, <1>2, IdleIs, Typed, TypedNext DEF Latest
<1>4. World'
  BY <1>1, <1>2 DEF World, Times, Rows, Answer, NoEntry, Saved, Latest, Back
<1>5. PassHeld' /\ (~Drops => History' /\ PassNotes')
  BY <1>1, <1>2 DEF PassHeld, History, PassNotes, NeverLive, Covered, Current, Where, Latest, Back
<1> QED
  BY <1>3, <1>4, <1>5 DEF MirrorInv, Fetched

LEMMA ExpiresKeeps == ASSUME MirrorInv, Expires PROVE MirrorInv'
<1>1. MirrorTypeOK /\ World /\ PassHeld /\ (~Drops => History /\ PassNotes)
  BY DEF MirrorInv, Fetched
<1>2. /\ UNCHANGED <<log, listed, now, mirror, landing, since, absorbed, history, due, pass, fails>>
      /\ entry' = NoEntry
  BY DEF Expires, google, books
<1>3. MirrorTypeOK'
  BY <1>1, <1>2, IdleIs, Typed, TypedNext DEF Latest
<1>4. World'
  BY <1>1, <1>2 DEF World, Times, Rows, Answer, NoEntry, Saved, Latest, Back
<1>5. PassHeld' /\ (~Drops => History' /\ PassNotes')
  BY <1>1, <1>2 DEF PassHeld, History, PassNotes, NeverLive, Covered, Current, Where, Latest, Back, NoEntry, Saved
<1> QED
  BY <1>3, <1>4, <1>5 DEF MirrorInv, Fetched

LEMMA MarkedKeeps ==
  ASSUME MirrorInv, Marked, landing' = NoEntry, UNCHANGED <<google, since, absorbed, due, fails>>
  PROVE  MirrorInv'
<1>1. MirrorTypeOK /\ World /\ PassHeld
  BY DEF MirrorInv, Fetched
<1> DEFINE m == pass.who = "job" \/ pass.step = "judge" \/ pass.band = "past"
<1>2. /\ history' = [history EXCEPT !.stale = history.from # Never]
      /\ pass' = [pass EXCEPT !.marked = m]
      /\ UNCHANGED <<log, listed, now, mirror, entry, since, absorbed, due, fails>> /\ landing' = NoEntry
  BY DEF Marked, google
<1>3. history \in HistoryStates /\ pass \in PassStates /\ Latest' = Latest
  BY <1>1, <1>2, RowIs, PassIs DEF Latest
<1>4. history' \in HistoryStates /\ history'.from = history.from /\ history'.stale = (history.from # Never)
  BY <1>2, <1>3 DEF HistoryStates
<1>5. /\ pass' \in PassStates /\ pass'.marked = m /\ pass'.who = pass.who /\ pass'.step = pass.step
      /\ pass'.band = pass.band /\ pass'.older = pass.older /\ pass'.whole = pass.whole /\ pass'.saw = pass.saw
      /\ pass'.at = pass.at
  BY <1>2, <1>3 DEF PassStates
<1>6. MirrorTypeOK'
  BY <1>1, <1>2, <1>4, <1>5, IdleIs, Typed, TypedNext DEF Latest
<1>7. World'
  BY <1>1, <1>2, <1>3, <1>4 DEF World, Times, Rows, Answer, NoEntry, Saved, Back
<1>8. PassHeld'
  BY <1>1, <1>2, <1>3, <1>5 DEF PassHeld, Back
<1>9. History'
  BY <1>4 DEF History
<1>10. ~Drops => PassNotes'
  <2>1. ~Drops /\ pass.who = "job" /\ pass.step \in {"ask", "judge"} => history.from # Never
    BY DEF MirrorInv, Fetched, PassNotes
  <2> QED
    BY <1>4, <1>5, <2>1 DEF PassNotes
<1> QED
  BY <1>6, <1>7, <1>8, <1>9, <1>10 DEF MirrorInv, Fetched

LEMMA RecordedKeeps ==
  ASSUME MirrorInv, Recorded, landing' = NoEntry, UNCHANGED <<google, since, absorbed, due, fails>>
  PROVE  MirrorInv'
<1>1. MirrorTypeOK /\ World /\ PassHeld /\ (~Drops => PassNotes)
  BY DEF MirrorInv, Fetched
<1> DEFINE o == pass.step \in {"read", "write"}
<1>2. /\ landing.kind \in {"upsert", "create", "delete"}
      /\ mirror' = IF landing.kind = "delete" THEN 0 ELSE landing.v
      /\ entry' = [kind |-> Entered, v |-> landing.v]
      /\ pass' = [pass EXCEPT !.older = o]
      /\ UNCHANGED <<log, listed, now, since, absorbed, history, due, fails>> /\ landing' = NoEntry
  BY DEF Recorded, google
<1>3. /\ pass \in PassStates /\ Latest' = Latest /\ landing.v \in Version /\ 0 \in Version
      /\ Latest \in Nat /\ now \in Time /\ log[Latest].at = now
  BY <1>1, <1>2, RowIs, PassIs, Numbers, LogIs DEF Latest, World, Answer
<1>a. o \in BOOLEAN
  OBVIOUS
<1> HIDE DEF o
<1>4. /\ pass' \in PassStates /\ pass'.older = o /\ pass'.who = pass.who /\ pass'.step = pass.step
      /\ pass'.band = pass.band /\ pass'.marked = pass.marked /\ pass'.whole = pass.whole /\ pass'.saw = pass.saw
      /\ pass'.at = pass.at /\ pass'.items = pass.items
  BY <1>2, <1>3, <1>a DEF PassStates
<1>5. /\ Entered \in {"upsert", "create", "delete"} /\ (Entered = "delete" <=> landing.kind = "delete")
      /\ Entered = "create" => log[1].where = "live"
  BY <1>1, <1>2 DEF Entered, World, Rows, Answer
<1>6. entry' \in EntryStates /\ entry'.kind = Entered /\ entry'.v = landing.v /\ mirror' \in Version
  BY <1>2, <1>3, <1>5 DEF EntryStates
<1>7. MirrorTypeOK'
  BY <1>1, <1>2, <1>3, <1>4, <1>6, IdleIs, Typed, TypedNext DEF Latest
<1>8. World'
  <2>1. Times'
    BY <1>1, <1>2, <1>3 DEF World, Times, Back
  <2>2. Answer'
    BY <1>2 DEF Answer, NoEntry, Saved
  <2>3. CASE landing.kind = "delete"
    <3>1. landing.v < Latest /\ mirror' = 0 /\ entry'.kind = "delete"
      BY <1>1, <1>2, <1>5, <1>6, <2>3 DEF World, Answer
    <3> QED
      BY <1>2, <1>3, <1>6, <2>1, <2>2, <3>1 DEF World, Rows, Saved
  <2>4. CASE landing.kind \in Saved
    <3>1. 1 <= landing.v /\ landing.v <= Latest /\ log[landing.v].where \in Bands
      BY <1>1, <2>4 DEF World, Answer
    <3>2. mirror' = landing.v /\ entry'.kind \in Saved
      BY <1>2, <1>5, <1>6, <2>4 DEF Saved
    <3>3. landing.v <= landing.v
      BY <1>3, TimesAreInts
    <3> QED
      BY <1>2, <1>3, <1>5, <1>6, <2>1, <2>2, <3>1, <3>2, <3>3 DEF World, Rows, Saved
  <2> QED
    BY <1>2, <2>3, <2>4 DEF Saved
<1>9. PassHeld'
  <2>1. entry'.kind \in Saved => mirror' = entry'.v
    BY <1>2, <1>5, <1>6 DEF Saved
  <2>2. entry'.kind = "delete" => mirror' = 0
    BY <1>2, <1>5, <1>6
  <2>3. o => pass.step \in {"read", "write"}
    BY DEF o
  <2>4. Back(now)' = Back(now)
    BY <1>2 DEF Back
  <2> QED
    BY <1>1, <1>2, <1>3, <1>4, <2>1, <2>2, <2>3, <2>4 DEF PassHeld
<1>10. ~Drops => History' /\ PassNotes'
  <2>1. history.from \in Int /\ Back(now) \in Int /\ now \in Int /\ Back(now) <= now /\ history.from <= Back(now)
    BY <1>1, <1>3, RowIs, TimesAreInts DEF World, Times
  <2>2. Covered(history.from)' /\ Covered(Back(now))'
    BY <1>2, <1>3, <2>1 DEF Covered, Back
  <2>3. NeverLive' => NeverLive
    BY <1>2 DEF NeverLive, Where, Latest
  <2> QED
    BY <1>1, <1>2, <1>4, <2>2, <2>3 DEF History, PassNotes
<1> QED
  BY <1>7, <1>8, <1>9, <1>10 DEF MirrorInv, Fetched

LEMMA LandsKeeps == ASSUME MirrorInv, Lands PROVE MirrorInv'
BY RecordedKeeps, MarkedKeeps, UnrecordedKeeps DEF Lands

-----------------------------------------------------------------------------
(* What a pass writes.                                                      *)
Shown == IF Holds(pass.band, pass.saw) THEN pass.saw ELSE 0
Replaces(row) == Replaced(row, pass.band, pass.whole)

LEMMA WriteIs ==
  ASSUME MirrorInv, Write
  PROVE  /\ Shown \in Version /\ Shown <= Latest
         /\ pass' = [pass EXCEPT !.step = "note", !.saw = 0, !.older = FALSE] /\ pass.step = "write"
         /\ UNCHANGED <<log, listed, now, landing, since, absorbed, history, due, fails>>
         /\ entry.kind = "none" => mirror' = Replaces(Shown) /\ entry' = entry
         /\ entry.kind = "delete" /\ Shown > entry.v => mirror' = Replaces(Shown) /\ entry' \in {entry, NoEntry}
         /\ entry.kind = "delete" /\ Shown <= entry.v =>
              mirror' = (IF ~pass.whole THEN 0 ELSE Replaces(0)) /\ entry' = entry
         /\ entry.kind \in Saved /\ Shown >= entry.v =>
              mirror' = Replaces(Shown) /\ entry' = (IF pass.older THEN entry ELSE NoEntry)
         /\ entry.kind \in Saved /\ Shown \in 1..entry.v - 1 => mirror' = Replaces(entry.v) /\ entry' = entry
         /\ entry.kind \in Saved /\ Shown = 0 =>
              CASE ~Holds(pass.band, entry.v) -> mirror' = Replaces(0) /\ entry' = entry
                [] Holds(pass.band, entry.v) /\ entry.kind = "upsert" /\ pass.whole /\ ~pass.older
                     -> mirror' = Replaces(0) /\ entry' = NoEntry
                [] OTHER -> mirror' = Replaces(entry.v) /\ entry' = entry
<1>1. MirrorTypeOK /\ World /\ PassHeld
  BY DEF MirrorInv
<1>2. Shown \in Version /\ Shown <= Latest
  <2>1. pass.saw \in Version /\ pass.saw <= Latest /\ 0 \in Version /\ Latest >= 1
    BY <1>1, PassIs, Numbers DEF PassHeld, World, Times
  <2>2. 0 <= Latest
    BY <1>1, LogIs
  <2> QED
    BY <2>1, <2>2 DEF Shown
<1>3. /\ pass' = [pass EXCEPT !.step = "note", !.saw = 0, !.older = FALSE] /\ pass.step = "write"
      /\ UNCHANGED <<log, listed, now, landing, since, absorbed, history, due, fails>>
  BY DEF Write, Goes, google, books
<1> DEFINE m == Merged(Shown, pass.band, pass.whole, pass.older)
<1>4. /\ mirror' = IF m.drop THEN 0 ELSE Replaces(m.row)
      /\ entry' = IF m.settled THEN NoEntry ELSE entry
  BY DEF Write, Shown, Replaces
<1>5. entry.kind \in {"none", "upsert", "create", "delete"} /\ entry.v \in Int /\ Shown \in Int /\ 0 <= Shown
  BY <1>1, <1>2, RowIs, TimesAreInts
<1>6. pass.whole \in BOOLEAN /\ pass.older \in BOOLEAN
  BY <1>1, PassIs
<1>7. entry.kind \in Saved => 1 <= entry.v
  BY <1>1 DEF World, Rows
<1>8. entry.kind = "none" => m = [row |-> Shown, drop |-> FALSE, settled |-> FALSE]
  BY DEF Merged, Saved
<1>9. entry.kind = "delete" =>
        m = IF Shown > entry.v THEN [row |-> Shown, drop |-> FALSE, settled |-> ~pass.older]
                               ELSE [row |-> 0, drop |-> ~pass.whole, settled |-> FALSE]
  BY <1>5 DEF Merged, Settles, Saved
<1>10. entry.kind \in Saved /\ Shown >= entry.v => m = [row |-> Shown, drop |-> FALSE, settled |-> ~pass.older]
  BY <1>5, <1>7 DEF Merged, Settles, Saved
<1>11. entry.kind \in Saved /\ Shown \in 1..entry.v - 1 => m = [row |-> entry.v, drop |-> FALSE, settled |-> FALSE]
  BY <1>5, <1>7 DEF Merged, Settles, Saved
<1>12. ASSUME entry.kind \in Saved, Shown = 0
       PROVE  CASE ~Holds(pass.band, entry.v) -> m = [row |-> 0, drop |-> FALSE, settled |-> FALSE]
                [] Holds(pass.band, entry.v) /\ entry.kind = "upsert" /\ pass.whole /\ ~pass.older
                     -> m = [row |-> 0, drop |-> FALSE, settled |-> TRUE]
                [] OTHER -> m = [row |-> entry.v, drop |-> FALSE, settled |-> FALSE]
  <2>1. 1 <= entry.v
    BY <1>1, <1>12 DEF World, Rows
  <2>2. ~(Shown >= entry.v) /\ ~(Shown \in 1..entry.v - 1)
    BY <1>5, <1>12, <2>1
  <2> QED
    BY <1>5, <1>12, <2>2 DEF Merged, Settles, Saved
<1> HIDE DEF m
<1>13. \A row, drop, settled :
         m = [row |-> row, drop |-> drop, settled |-> settled] =>
           mirror' = (IF drop THEN 0 ELSE Replaces(row)) /\ entry' = (IF settled THEN NoEntry ELSE entry)
  BY <1>4
<1>14. entry.kind = "none" => mirror' = Replaces(Shown) /\ entry' = entry
  BY <1>8, <1>13
<1>15. entry.kind = "delete" /\ Shown > entry.v => mirror' = Replaces(Shown) /\ entry' \in {entry, NoEntry}
  BY <1>9, <1>13
<1>16. entry.kind = "delete" /\ Shown <= entry.v =>
         mirror' = (IF ~pass.whole THEN 0 ELSE Replaces(0)) /\ entry' = entry
  <2>1. entry.kind = "delete" /\ Shown <= entry.v => m = [row |-> 0, drop |-> ~pass.whole, settled |-> FALSE]
    BY <1>5, <1>9
  <2>2. CASE pass.whole = TRUE
    BY <1>13, <2>1, <2>2
  <2>3. CASE pass.whole = FALSE
    BY <1>13, <2>1, <2>3
  <2> QED
    BY <1>6, <2>2, <2>3
<1>17. entry.kind \in Saved /\ Shown >= entry.v =>
         mirror' = Replaces(Shown) /\ entry' = (IF pass.older THEN entry ELSE NoEntry)
  BY <1>6, <1>10, <1>13
<1>18. entry.kind \in Saved /\ Shown \in 1..entry.v - 1 => mirror' = Replaces(entry.v) /\ entry' = entry
  BY <1>11, <1>13
<1>19. ASSUME entry.kind \in Saved, Shown = 0
       PROVE  CASE ~Holds(pass.band, entry.v) -> mirror' = Replaces(0) /\ entry' = entry
                [] Holds(pass.band, entry.v) /\ entry.kind = "upsert" /\ pass.whole /\ ~pass.older
                     -> mirror' = Replaces(0) /\ entry' = NoEntry
                [] OTHER -> mirror' = Replaces(entry.v) /\ entry' = entry
  BY <1>12, <1>13, <1>19
<1> QED
  BY <1>2, <1>3, <1>14, <1>15, <1>16, <1>17, <1>18, <1>19

\* a row that a listing puts in place, or takes away with all of its band
LEMMA ReplacesIs ==
  /\ \A row : row # 0 => Replaces(row) = row
  /\ Replaces(0) \in {0, mirror}
  /\ pass.whole /\ Holds(pass.band, mirror) => Replaces(0) = 0
  /\ ~Holds(pass.band, mirror) => Replaces(0) = mirror
BY DEF Replaces, Replaced

LEMMA WriteKeepsRow == ASSUME MirrorInv, Write PROVE MirrorTypeOK' /\ World' /\ PassHeld' /\ Latest' = Latest
<1>1. MirrorTypeOK /\ World /\ PassHeld
  BY DEF MirrorInv
<1>2. /\ Shown \in Version /\ Shown <= Latest /\ pass.step = "write"
      /\ pass' = [pass EXCEPT !.step = "note", !.saw = 0, !.older = FALSE]
      /\ UNCHANGED <<log, listed, now, landing, since, absorbed, history, due, fails>>
  BY WriteIs
<1>3. /\ mirror \in Version /\ entry \in EntryStates /\ entry.kind \in {"none", "upsert", "create", "delete"}
      /\ entry.v \in Version /\ entry.v \in Int /\ Shown \in Int /\ mirror \in Int /\ 0 <= Shown
      /\ pass \in PassStates /\ 0 \in Version /\ Latest' = Latest /\ Latest \in Nat /\ Latest >= 1
  <2>1. /\ mirror \in Version /\ entry \in EntryStates /\ entry.kind \in {"none", "upsert", "create", "delete"}
        /\ entry.v \in Version
    BY <1>1, RowIs
  <2>2. entry.v \in Int /\ Shown \in Int /\ mirror \in Int /\ 0 <= Shown
    BY <1>2, <2>1, TimesAreInts
  <2>3. pass \in PassStates /\ 0 \in Version /\ Latest \in Nat /\ Latest >= 1
    BY <1>1, PassIs, Numbers, LogIs DEF World, Times
  <2>4. Latest' = Latest
    BY <1>2 DEF Latest
  <2> QED
    BY <2>1, <2>2, <2>3, <2>4
<1>4. /\ mirror # 0 => mirror <= Latest /\ log[mirror].where \in Bands
      /\ entry.kind \in Saved => /\ 1 <= entry.v /\ entry.v <= Latest /\ log[entry.v].where \in Bands
                                 /\ mirror = 0 \/ entry.v <= mirror
      /\ entry.kind = "delete" => entry.v < Latest /\ (mirror = 0 \/ entry.v < mirror)
      /\ entry.kind = "create" => log[1].where = "live"
  BY <1>1 DEF World, Rows
<1>5. Shown # 0 => log[Shown].where \in Bands
  <2>1. pass.band \in Bands
    BY <1>1, PassIs
  <2> QED
    BY <2>1 DEF Shown, Holds, Where
<1>6. entry' \in {entry, NoEntry}
  <2>1. CASE entry.kind \in {"none", "delete"}
    BY <1>3, <2>1, WriteIs
  <2>2. CASE entry.kind \in Saved
    <3>1. Shown >= entry.v \/ Shown \in 1..entry.v - 1 \/ Shown = 0
      BY <1>3
    <3> QED
      BY <2>2, <3>1, WriteIs
  <2> QED
    BY <1>3, <2>1, <2>2 DEF Saved
<1>7. entry.kind \in Saved => mirror' \in {0, mirror, Shown, entry.v} /\ (mirror' = 0 \/ entry.v <= mirror')
  <2> SUFFICES ASSUME entry.kind \in Saved
               PROVE  mirror' \in {0, mirror, Shown, entry.v} /\ (mirror' = 0 \/ entry.v <= mirror')
    OBVIOUS
  <2>1. 1 <= entry.v /\ (mirror = 0 \/ entry.v <= mirror) /\ entry.v # 0 /\ entry.v <= entry.v
    BY <1>3, <1>4
  <2>2. mirror' \in {Replaces(Shown), Replaces(entry.v), Replaces(0)}
        /\ ((mirror' = Replaces(Shown) /\ Shown >= entry.v) \/ mirror' \in {Replaces(entry.v), Replaces(0)})
    <3>1. Shown >= entry.v \/ Shown \in 1..entry.v - 1 \/ Shown = 0
      BY <1>3
    <3> QED
      BY <3>1, WriteIs
  <2>3. Replaces(entry.v) = entry.v /\ Replaces(0) \in {0, mirror} /\ (Shown # 0 => Replaces(Shown) = Shown)
    BY <2>1, ReplacesIs
  <2>4. Shown >= entry.v => Shown # 0
    BY <1>3, <2>1
  <2> QED
    BY <1>3, <2>1, <2>2, <2>3, <2>4
<1>8. entry.kind = "delete" => mirror' \in {0, mirror, Shown} /\ (mirror' = 0 \/ entry.v < mirror')
  <2> SUFFICES ASSUME entry.kind = "delete"
               PROVE  mirror' \in {0, mirror, Shown} /\ (mirror' = 0 \/ entry.v < mirror')
    OBVIOUS
  <2>1. entry.v < Latest /\ (mirror = 0 \/ entry.v < mirror) /\ 0 <= entry.v
    BY <1>3, <1>4, TimesAreInts
  <2>2. CASE Shown > entry.v
    <3>1. mirror' = Replaces(Shown) /\ Shown # 0
      BY <1>3, <2>1, <2>2, WriteIs
    <3> QED
      BY <1>3, <2>2, <3>1, ReplacesIs
  <2>3. CASE Shown <= entry.v
    <3>1. mirror' = 0 \/ mirror' = Replaces(0)
      BY <2>3, WriteIs
    <3> QED
      BY <2>1, <3>1, ReplacesIs
  <2> QED
    BY <1>3, <2>2, <2>3
<1>9. entry.kind = "none" => mirror' \in {0, mirror, Shown}
  <2>1. entry.kind = "none" => mirror' = Replaces(Shown)
    BY WriteIs
  <2> QED
    BY <2>1, ReplacesIs
<1>10. mirror' \in Version /\ (mirror' # 0 => mirror' <= Latest /\ log[mirror'].where \in Bands)
  <2>1. mirror' \in {0, mirror, Shown} \/ (entry.kind \in Saved /\ mirror' = entry.v)
    BY <1>3, <1>7, <1>8, <1>9 DEF Saved
  <2> QED
    BY <1>2, <1>3, <1>4, <1>5, <2>1
<1>11. /\ pass' \in PassStates /\ pass'.step = "note" /\ pass'.saw = 0 /\ pass'.older = FALSE
       /\ pass'.band = pass.band /\ pass'.whole = pass.whole /\ pass'.at = pass.at
  BY <1>2, <1>3 DEF PassStates
<1>12. MirrorTypeOK'
  BY <1>1, <1>2, <1>3, <1>6, <1>10, <1>11, IdleIs, Typed, TypedNext DEF Latest
<1>13. World'
  <2>1. Times' /\ Answer'
    BY <1>1, <1>2, <1>3 DEF World, Times, Answer, Back
  <2>2. CASE entry' = entry
    BY <1>2, <1>3, <1>4, <1>7, <1>8, <1>10, <2>1, <2>2 DEF World, Rows
  <2>3. CASE entry' = NoEntry
    BY <1>2, <1>3, <1>10, <2>1, <2>3 DEF World, Rows, NoEntry, Saved
  <2> QED
    BY <1>6, <2>2, <2>3
<1>14. PassHeld'
  <2>1. 0 <= Latest /\ pass.at = now /\ (pass.band = "past" => pass.whole)
    BY <1>1, <1>2, <1>3 DEF PassHeld
  <2> QED
    BY <1>2, <1>3, <1>11, <2>1 DEF PassHeld
<1> QED
  BY <1>3, <1>12, <1>13, <1>14

\* an event that is old leaves no version in the live band
LEMMA NeverLiveRows ==
  ASSUME MirrorInv, NeverLive
  PROVE  /\ \A v \in 1..Latest : ~Holds("live", v) /\ (log[v].where \in Bands => Holds("past", v))
         /\ ~Holds("live", 0) /\ ~Holds("past", 0)
         /\ mirror # 0 => mirror \in 1..Latest /\ Holds("past", mirror)
         /\ entry.kind \in Saved => entry.kind = "upsert" /\ entry.v \in 1..Latest /\ Holds("past", entry.v)
<1>1. MirrorTypeOK /\ World
  BY DEF MirrorInv
<1>2. Latest \in Nat /\ Latest >= 1 /\ \A v \in 1..Latest : Where(v) = log[v].where
  BY <1>1, LogIs DEF World, Times
<1>3. \A v \in 1..Latest : ~Holds("live", v) /\ (log[v].where \in Bands => Holds("past", v))
  BY <1>2 DEF NeverLive, Holds, Bands
<1>4. ~Holds("live", 0) /\ ~Holds("past", 0)
  BY DEF Holds, Where
<1>5. mirror # 0 => mirror \in 1..Latest
  <2>1. mirror \in Int /\ 0 <= mirror
    BY <1>1, RowIs, TimesAreInts
  <2> QED
    BY <1>1, <1>2, <2>1 DEF World, Rows
<1>6. entry.kind \in Saved => entry.v \in 1..Latest
  <2>1. entry.v \in Int
    BY <1>1, RowIs, TimesAreInts
  <2> QED
    BY <1>1, <1>2, <2>1 DEF World, Rows
<1>7. entry.kind # "create"
  <2>1. 1 \in 1..Latest
    BY <1>2
  <2> QED
    BY <1>1, <1>2, <2>1 DEF NeverLive, World, Rows
<1> QED
  BY <1>1, <1>3, <1>4, <1>5, <1>6, <1>7 DEF World, Rows, Saved

(* The past was written: the row is what Google has, or lacks what is young.*)
LEMMA WritesPast ==
  ASSUME MirrorInv, Write, NeverLive, pass.band = "past", ~(log[Latest].at >= Back(now))
  PROVE  mirror' = Current
<1>1. MirrorTypeOK /\ World /\ PassHeld /\ pass.step = "write"
  BY WriteIs DEF MirrorInv
<1>2. /\ Latest \in Nat /\ Latest >= 1 /\ pass.saw \in Int /\ 0 <= pass.saw /\ pass.saw <= Latest
      /\ entry.v \in Int /\ 0 <= entry.v /\ entry.kind \in {"none", "upsert", "create", "delete"}
  BY <1>1, LogIs, PassIs, RowIs, TimesAreInts DEF World, Times, PassHeld
<1>3. pass.whole /\ pass.saw = Latest
  <2>1. pass.whole /\ \A v \in pass.saw + 1..Latest : log[v].at >= Back(now)
    BY <1>1 DEF PassHeld
  <2> QED
    BY <1>2, <2>1
<1>4. ~pass.older
  <2>1. pass.older => log[Latest].at = now
    BY <1>1 DEF PassHeld
  <2>2. now >= Back(now)
    BY <1>1, RowIs, TimesAreInts
  <2> QED
    BY <2>1, <2>2
<1>5. Replaces(0) = 0
  BY <1>3, ReplacesIs, NeverLiveRows
<1>6. CASE Where(Latest) = "gone"
  <2>1. Shown = 0 /\ Current = 0
    BY <1>3, <1>6 DEF Shown, Holds, Current
  <2>2. CASE entry.kind = "none"
    BY <1>5, <2>1, <2>2, WriteIs
  <2>3. CASE entry.kind = "delete"
    <3>1. Shown <= entry.v
      BY <1>2, <2>1
    <3> QED
      BY <1>3, <1>5, <2>1, <2>3, <3>1, WriteIs
  <2>4. CASE entry.kind \in Saved
    <3>1. Holds(pass.band, entry.v) /\ entry.kind = "upsert"
      BY <2>4, NeverLiveRows
    <3> QED
      BY <1>3, <1>4, <1>5, <2>1, <2>4, <3>1, WriteIs
  <2> QED
    BY <1>2, <2>2, <2>3, <2>4 DEF Saved
<1>7. CASE Where(Latest) # "gone"
  <2>1. Shown = Latest /\ Current = Latest /\ Replaces(Shown) = Shown
    <3>1. Where(Latest) = "past"
      BY <1>2, <1>7 DEF NeverLive
    <3> QED
      BY <1>2, <1>3, <1>7, <3>1, ReplacesIs DEF Shown, Holds, Current
  <2>2. CASE entry.kind = "none"
    BY <2>1, <2>2, WriteIs
  <2>3. CASE entry.kind = "delete"
    <3>1. Shown > entry.v
      BY <1>1, <1>2, <2>1, <2>3 DEF World, Rows
    <3> QED
      BY <2>1, <2>3, <3>1, WriteIs
  <2>4. CASE entry.kind \in Saved
    <3>1. Shown >= entry.v
      BY <1>1, <1>2, <2>1, <2>4 DEF World, Rows
    <3> QED
      BY <2>1, <2>4, <3>1, WriteIs
  <2> QED
    BY <1>2, <2>2, <2>3, <2>4 DEF Saved
<1> QED
  BY <1>6, <1>7

\* the live band has nothing of an old event
LEMMA WritesLive ==
  ASSUME MirrorInv, Write, NeverLive, pass.band = "live", ~Drops
  PROVE  mirror' = mirror
<1>1. MirrorTypeOK /\ World /\ PassHeld /\ pass.step = "write"
  BY WriteIs DEF MirrorInv
<1>2. /\ Latest \in Nat /\ pass.saw \in Int /\ 0 <= pass.saw /\ pass.saw <= Latest
      /\ entry.v \in Int /\ 0 <= entry.v /\ entry.kind \in {"none", "upsert", "create", "delete"}
  BY <1>1, LogIs, PassIs, RowIs, TimesAreInts DEF World, Times, PassHeld
<1>3. Shown = 0
  <2>1. pass.saw = 0 \/ pass.saw \in 1..Latest
    BY <1>2
  <2> QED
    BY <2>1, NeverLiveRows DEF Shown
<1>4. Replaces(0) = mirror
  BY ReplacesIs, NeverLiveRows
<1>5. CASE entry.kind = "none"
  BY <1>3, <1>4, <1>5, WriteIs
<1>6. CASE entry.kind = "delete"
  <2>1. Shown <= entry.v /\ (~pass.whole => mirror = 0)
    BY <1>1, <1>2, <1>3, <1>6 DEF PassHeld
  <2> QED
    BY <1>4, <1>6, <2>1, WriteIs
<1>7. CASE entry.kind \in Saved
  <2>1. ~Holds(pass.band, entry.v)
    BY <1>7, NeverLiveRows
  <2> QED
    BY <1>3, <1>4, <1>7, <2>1, WriteIs
<1> QED
  BY <1>2, <1>5, <1>6, <1>7 DEF Saved

LEMMA WriteKeeps == ASSUME MirrorInv, Write PROVE MirrorInv'
<1>1. MirrorTypeOK' /\ World' /\ PassHeld' /\ Latest' = Latest
  BY WriteKeepsRow
<1>2. /\ MirrorTypeOK /\ World /\ pass \in PassStates
      /\ pass' = [pass EXCEPT !.step = "note", !.saw = 0, !.older = FALSE]
      /\ UNCHANGED <<log, listed, now, landing, since, absorbed, history, due, fails>>
  BY WriteIs, PassIs DEF MirrorInv
<1>3. pass'.step = "note" /\ pass'.band = pass.band
  BY <1>2 DEF PassStates
<1>4. (NeverLive' => NeverLive) /\ Current' = Current /\ Back(now)' = Back(now)
  BY <1>2 DEF NeverLive, Current, Where, Latest, Back
<1>5. ASSUME ~Drops, NeverLive, pass.band = "past" PROVE Covered(Back(now))'
  BY <1>1, <1>2, <1>4, <1>5, WritesPast DEF Covered
<1>6. ASSUME ~Drops, NeverLive, history.from # Never, ~history.stale PROVE Covered(history.from)'
  <2>1. CASE pass.band = "past"
    <3>1. history.from \in Int /\ Back(now) \in Int /\ history.from <= Back(now) /\ log[Latest].at \in Int
      <4>1. Latest \in 1..Latest
        BY <1>2, LogIs DEF World, Times
      <4> QED
        BY <1>2, <4>1, RowIs, LogIs, TimesAreInts DEF World, Times
    <3>2. mirror' = Current \/ log[Latest].at >= Back(now)
      BY <1>6, <2>1, WritesPast
    <3> QED
      BY <1>1, <1>2, <1>4, <3>1, <3>2 DEF Covered
  <2>2. CASE pass.band = "live"
    <3>1. mirror' = mirror /\ Covered(history.from)
      BY <1>6, <2>2, WritesLive DEF MirrorInv, Fetched, History
    <3> QED
      BY <1>1, <1>2, <1>4, <3>1 DEF Covered
  <2> QED
    BY <1>2, <2>1, <2>2, PassIs DEF Bands
<1>7. ~Drops => History' /\ PassNotes'
  BY <1>2, <1>3, <1>4, <1>5, <1>6 DEF History, PassNotes
<1> QED
  BY <1>1, <1>7 DEF MirrorInv, Fetched

-----------------------------------------------------------------------------
LEMMA MirrorAtFirst == MirrorInit => MirrorInv
<1> SUFFICES ASSUME MirrorInit PROVE MirrorInv
  OBVIOUS
<1>1. /\ now = 0 /\ mirror = 0 /\ entry = NoEntry /\ since = Never /\ absorbed = {}
      /\ history = [from |-> Never, stale |-> FALSE] /\ due = FALSE /\ pass = Idle
  BY DEF MirrorInit
<1>2. \/ \E where \in Bands : log = <<[at |-> 0, where |-> where]>>
         /\ listed = 1 /\ landing = NoEntry /\ fails = 0
      \/ log = <<[at |-> 0, where |-> "live"]>>
         /\ listed = 0 /\ landing = [kind |-> "create", v |-> 1] /\ fails = 1
  BY DEF MirrorInit
<1>3. 0 \in Time /\ 0 \in Version /\ 1 \in Version /\ 0 \in 0..MaxEvents /\ 1 \in 0..MaxEvents /\ Back(0) = 0
  BY Numbers
<1>4. PICK where \in Bands : log = <<[at |-> 0, where |-> where]>>
  BY <1>2 DEF Bands
<1>5. [at |-> 0, where |-> where] \in LogStates
  BY <1>3 DEF LogStates
<1>6. log \in Seq(LogStates) /\ Latest = 1 /\ log[1].at = 0 /\ log[1].where = where
  BY <1>4, <1>5 DEF Latest
<1>7. history \in HistoryStates /\ history.from = Never
  BY <1>1 DEF HistoryStates
<1>8. landing \in LandingStates /\ listed \in {0, 1} /\ fails \in {0, 1}
  BY <1>2, <1>3, IdleIs DEF LandingStates
<1>9. MirrorTypeOK
  BY <1>1, <1>3, <1>6, <1>7, <1>8, IdleIs, Typed
<1>10. World
  <2>1. Times
    <3>1. \A v \in 1..Latest : v = 1
      BY <1>6
    <3>2. \A v \in listed + 1..Latest : v = 1
      BY <1>6, <1>8
    <3>3. Latest >= 1 /\ listed <= Latest /\ Never <= 0
      BY <1>6, <1>8, Numbers
    <3> QED
      BY <1>1, <1>3, <1>6, <1>7, <3>1, <3>2, <3>3 DEF Times
  <2>2. Rows
    BY <1>1 DEF Rows, NoEntry, Saved
  <2>3. Answer
    BY <1>1, <1>2, <1>6 DEF Answer, NoEntry, Saved, Bands
  <2> QED
    BY <2>1, <2>2, <2>3 DEF World
<1>11. PassHeld /\ PassNotes /\ History
  BY <1>1, <1>6, <1>7 DEF PassHeld, PassNotes, History, Idle
<1> QED
  BY <1>9, <1>10, <1>11 DEF MirrorInv, Fetched

LEMMA MirrorStep == MirrorInv /\ [MirrorNext]_mirrorVars => MirrorInv'
<1> SUFFICES ASSUME MirrorInv, [MirrorNext]_mirrorVars PROVE MirrorInv'
  OBVIOUS
<1>1. CASE Tick \/ CatchesUp \/ \E where \in Bands \cup {"gone"} : OtherChanges(where)
  BY <1>1, TickKeeps, CatchesUpKeeps, OtherChangesKeeps
<1>2. CASE PmSaves \/ PmDeletes \/ PmChangesPast \/ Lands \/ Expires
  BY <1>2, PmSavesKeeps, PmDeletesKeeps, PmChangesPastKeeps, LandsKeeps, ExpiresKeeps
<1>3. CASE FullBegins \/ JobBegins \/ CheckBegins \/ PassFails \/ Restarts
  BY <1>3, FullBeginsKeeps, JobBeginsKeeps, CheckBeginsKeeps, PassFailsKeeps, RestartsKeeps
<1>4. CASE Steps
  BY <1>4, JobAsksKeeps, CheckAsksKeeps, JudgeKeeps, ReadKeeps, WriteKeeps, NoteFullKeeps, NoteCheckKeeps,
     NotePastKeeps DEF Steps
<1>5. CASE UNCHANGED mirrorVars
  <2>1. MirrorTypeOK /\ World /\ PassHeld /\ (~Drops => History /\ PassNotes)
    BY DEF MirrorInv, Fetched
  <2>2. UNCHANGED <<log, listed, now, mirror, entry, landing, since, absorbed, history, due, pass, fails>>
    BY <1>5 DEF mirrorVars
  <2>3. MirrorTypeOK'
    BY <2>1, <2>2, Typed, TypedNext DEF Latest
  <2>4. World' /\ (History => History')
    BY <2>1, <2>2, WorldStays
  <2>5. PassHeld' /\ (PassNotes => PassNotes')
    BY <2>1, <2>2 DEF PassHeld, PassNotes, NeverLive, Covered, Current, Where, Latest, Back
  <2> QED
    BY <2>1, <2>3, <2>4, <2>5 DEF MirrorInv, Fetched
<1> QED
  BY <1>1, <1>2, <1>3, <1>4, <1>5 DEF MirrorNext

(* The inductive invariant of the mirror, for any lag, any number of        *)
(* changes, failures and restarts.                                          *)
THEOREM MirrorInvariant == MirrorSpec => []MirrorInv
<1>1. MirrorInit => MirrorInv
  BY MirrorAtFirst
<1>2. MirrorInv /\ [MirrorNext]_mirrorVars => MirrorInv'
  BY MirrorStep
<1> QED
  BY <1>1, <1>2, PTL DEF MirrorSpec

(* A change of an old event that the mirror lacks is not behind the time    *)
(* the next history check counts from, where no incomplete listing drops    *)
(* the row of an event that is back after PM deleted it (merge_band).       *)
THEOREM StillListedSafe == ASSUME ~Drops PROVE MirrorSpec => []StillListed
<1>1. MirrorInv => StillListed
  <2> SUFFICES ASSUME MirrorInv, NeverLive, mirror # Current, history.from # Never
               PROVE  history.stale \/ log[Latest].at >= history.from
    BY DEF StillListed, NeverLive
  <2> QED
    BY DEF MirrorInv, Fetched, History, Covered
<1> QED
  BY <1>1, MirrorInvariant, PTL

\* a fetch's write, while a save is remembered
LEMMA WriteStays == MirrorInv /\ Write => ~Undoes
<1> SUFFICES ASSUME MirrorInv, Write PROVE ~Undoes
  OBVIOUS
<1>1. MirrorTypeOK /\ World /\ PassHeld /\ pass.step = "write" /\ World'
  BY WriteIs, WriteKeepsRow DEF MirrorInv
<1>2. /\ entry.v \in Int /\ mirror' \in Int /\ Shown \in Int /\ 0 <= Shown /\ pass.saw \in Int
      /\ entry.kind \in {"none", "upsert", "create", "delete"} /\ mirror \in Int
  <2>1. mirror' \in Version
    BY WriteKeepsRow, TypedNext
  <2> QED
    BY <1>1, <2>1, RowIs, PassIs, WriteIs, TimesAreInts
<1>3. entry.kind \in Saved => 1 <= entry.v /\ (mirror = 0 \/ entry.v <= mirror)
  BY <1>1 DEF World, Rows
<1>4. ASSUME entry.kind \in Saved, mirror' \in 1..entry.v - 1 PROVE FALSE
  <2>1. mirror' # 0 /\ ~(entry.v <= mirror') /\ entry.v # 0
    BY <1>2, <1>3, <1>4
  <2>2. Shown >= entry.v \/ Shown \in 1..entry.v - 1 \/ Shown = 0
    BY <1>2
  <2>3. (mirror' = Replaces(Shown) /\ Shown >= entry.v) \/ mirror' \in {Replaces(entry.v), Replaces(0)}
    BY <1>4, <2>2, WriteIs
  <2>4. Shown >= entry.v => Shown # 0
    BY <1>2, <1>3, <1>4
  <2> QED
    BY <1>2, <1>3, <1>4, <2>1, <2>3, <2>4, ReplacesIs
<1>5. ASSUME entry.kind = "delete", mirror' \in 1..entry.v PROVE FALSE
  <2>1. mirror' # 0 /\ ~(entry.v < mirror')
    BY <1>2, <1>5
  <2>2. mirror = 0 \/ entry.v < mirror
    BY <1>1, <1>5 DEF World, Rows
  <2>3. CASE Shown > entry.v
    <3>1. 0 <= entry.v
      BY <1>1, RowIs, TimesAreInts
    <3>2. mirror' = Replaces(Shown) /\ Shown # 0
      BY <1>2, <1>5, <2>3, <3>1, WriteIs
    <3> QED
      BY <2>1, <2>3, <3>2, ReplacesIs
  <2>4. CASE Shown <= entry.v
    <3>1. mirror' \in {0, Replaces(0)}
      BY <1>5, <2>4, WriteIs
    <3> QED
      BY <2>1, <2>2, <3>1, ReplacesIs
  <2> QED
    BY <1>2, <2>3, <2>4
<1>6. ASSUME entry.kind \in Saved, entry' = NoEntry \/ (mirror # 0 /\ mirror' = 0),
             pass.saw < entry.v, pass.older \/ Holds(pass.band, pass.saw)
      PROVE  FALSE
  <2>1. entry # NoEntry /\ entry.v # 0
    BY <1>2, <1>3, <1>6 DEF NoEntry, Saved
  <2>2. Shown < entry.v
    BY <1>2, <1>3, <1>6 DEF Shown
  <2>3. CASE Shown # 0
    <3>1. Shown \in 1..entry.v - 1
      BY <1>2, <2>2, <2>3
    <3>2. mirror' = Replaces(entry.v) /\ entry' = entry
      BY <1>6, <3>1, WriteIs
    <3> QED
      BY <1>6, <2>1, <3>2, ReplacesIs
  <2>4. CASE Shown = 0
    <3>1. pass.older
      <4>1. ~Holds(pass.band, 0)
        BY <1>1, PassIs DEF Holds, Where, Bands
      <4> QED
        BY <1>6, <2>4, <4>1 DEF Shown
    <3>2. mirror = entry.v
      BY <1>1, <1>6, <3>1 DEF PassHeld
    <3>3. CASE Holds(pass.band, entry.v)
      <4>1. mirror' = Replaces(entry.v) /\ entry' = entry
        BY <1>6, <2>4, <3>1, <3>3, WriteIs
      <4> QED
        BY <1>6, <2>1, <4>1, ReplacesIs
    <3>4. CASE ~Holds(pass.band, entry.v)
      <4>1. mirror' = Replaces(0) /\ entry' = entry
        BY <1>6, <2>4, <3>4, WriteIs
      <4> QED
        BY <1>6, <2>1, <3>2, <3>4, <4>1, ReplacesIs
    <3> QED
      BY <3>3, <3>4
  <2> QED
    BY <2>3, <2>4
<1> QED
  BY <1>4, <1>5, <1>6 DEF Undoes

\* no other step takes a pass from its write to its note
LEMMA OnlyWriteWrites ==
  ASSUME MirrorInv, [MirrorNext]_mirrorVars, pass.step = "write", pass'.step = "note"
  PROVE  Write
<1>1. pass \in PassStates
  BY PassIs DEF MirrorInv
<1>2. Idle.step = "idle"
  BY DEF Idle
<1>3. pass' # pass /\ pass' # Idle
  BY <1>2
<1>4. ~Lands
  <2>1. \A b : [pass EXCEPT !.older = b].step = pass.step /\ [pass EXCEPT !.marked = b].step = pass.step
    BY <1>1 DEF PassStates
  <2> QED
    BY <1>3, <2>1 DEF Lands, Recorded, Marked, Unrecorded
<1>5. ~(Tick \/ CatchesUp \/ \E where \in Bands \cup {"gone"} : OtherChanges(where))
  BY <1>3 DEF Tick, CatchesUp, OtherChanges
<1>6. ~(PmSaves \/ PmDeletes \/ PmChangesPast \/ Expires)
  BY <1>3 DEF PmSaves, PmDeletes, PmChangesPast, Saves, Expires
<1>7. ~(FullBegins \/ JobBegins \/ CheckBegins \/ PassFails \/ Restarts)
  BY <1>3 DEF FullBegins, JobBegins, CheckBegins, PassFails, Restarts, Goes
<1>8. ~(JobAsks \/ CheckAsks \/ Judge \/ Read \/ NoteFull \/ NoteCheck \/ NotePast)
  BY DEF JobAsks, CheckAsks, Judge, Read, NoteFull, NoteCheck, NotePast
<1>9. ~UNCHANGED mirrorVars
  BY <1>3 DEF mirrorVars
<1> QED
  BY <1>4, <1>5, <1>6, <1>7, <1>8, <1>9 DEF MirrorNext, Steps

(* While a save is remembered, a fetch shows nothing older than it, and     *)
(* takes the row or the memory away only for a listing that is as new       *)
(* (merge_band, replace_band).                                              *)
THEOREM SavedStaysSafe == MirrorSpec => SavedStays
<1>1. MirrorInv /\ [MirrorNext]_mirrorVars =>
        [~(pass.step = "write" /\ pass'.step = "note" /\ Undoes)]_mirrorVars
  BY OnlyWriteWrites, WriteStays
<1> QED
  BY <1>1, MirrorInvariant, PTL DEF MirrorSpec, SavedStays

-----------------------------------------------------------------------------
(* A chat and its index. *)

AtFile == {"read", "write"}
PastFile == {"resolve", "commit"}

\* the rows, the document and the file, each by itself
ChatRows ==
  /\ chat.cursor <= chat.said /\ chat.small \subseteq 1..chat.said
  /\ ~chat.there => chat.said = 0
  /\ ~document.there => document.chunks = <<>>
  /\ ~transcript.there => transcript.turns = {}

\* what lands is never nothing
ChunksLand == \A n \in Landed : document.chunks[n].turns # {}

\* who is inside the file is alone there, and what it read is what the file has
AloneInside ==
  recording.at = "write" =>
    /\ \A w \in Indexers : indexing[w].at # "write"
    /\ chat.there => recording.copy = transcript.turns
CopyHolds == \A w \in Indexers : indexing[w].at = "write" /\ chat.there => indexing[w].copy = transcript.turns

\* a turn in hand is one of the chat's
TurnInHand == recording.at # "idle" => recording.turn \in AllTurns

\* the sweep and the rebuild do not index side by side
Apart ==
  /\ indexing["sweep"] # NoIndexing => rebuild.at \in {"off", "woken"}
  /\ indexing["rebuild"] # NoIndexing => rebuild.at = "index"

\* who indexes goes on where the cursor is, and what it is past is in the file
GoesOn ==
  \A w \in Indexers : indexing[w] # NoIndexing =>
    LET i == indexing[w] IN
    /\ i.at # "idle" /\ 1 <= i.from /\ i.from <= i.upto
    /\ i.at \in AtFile => i.from <= i.todo /\ i.todo <= i.upto
    /\ i.at \in PastFile => i.todo = i.upto + 1
    /\ chat.there => /\ i.from = chat.cursor + 1 /\ i.upto <= chat.said
                     /\ i.from..(i.todo - 1) \subseteq transcript.turns

\* chunks about to land are made as PM would make them now, or nothing says the index is current
MadeAsNow ==
  \A w \in Indexers : indexing[w].at = "commit" =>
    /\ indexing[w].config \in Configs
    /\ indexing[w].config # config => w = "sweep" /\ store.stamp # config /\ store.marker # config

\* neither stamp nor marker is ahead of PM; vectors that do not fit are under no stamp;
\* a rebuild is the marker's
StampsBehind ==
  /\ store.stamp <= config /\ store.marker <= config
  /\ ~store.fits => store.stamp # config
  /\ rebuild.at \in {"walk", "file", "index", "settle", "stamp", "clear"} => store.fits
  /\ rebuild.at \notin {"off", "woken"} => store.marker = config

\* what says, or will say, that the index is current
SaysCurrent ==
  \/ store.stamp = config
  \/ document.done /\ store.marker = config
  \/ rebuild.at \in {"index", "settle"}
  \/ rebuild.at = "stamp" /\ ~rebuild.failed

Contents == ChatRows /\ NoOrphan /\ InOrder /\ ChunksLand /\ FileHoldsIndexed
InHand == AloneInside /\ CopyHolds /\ TurnInHand /\ GoesOn
Claims == MadeAsNow /\ StampsBehind /\ (SaysCurrent => IndexIsCurrent)
ChatInv == ChatTypeOK /\ Contents /\ InHand /\ Apart /\ Claims

USE DEF AllTurns, Indexers, Configs, AtFile, PastFile, NoIndexing, NoRecording, NoDocument

-----------------------------------------------------------------------------
(* What a step that leaves something alone keeps of the invariant. *)

LEMMA ContentsStay == ASSUME Contents, UNCHANGED <<chat, document, transcript>> PROVE Contents'
  BY DEF Contents, ChatRows, NoOrphan, InOrder, ChunksLand, FileHoldsIndexed, Landed,
              Substantive

LEMMA InHandStays == ASSUME InHand, UNCHANGED <<chat, transcript, recording, indexing>> PROVE InHand'
  BY DEF InHand, AloneInside, CopyHolds, TurnInHand, GoesOn

LEMMA CurrentStays ==
  ASSUME IndexIsCurrent, document'.chunks = document.chunks, config' = config,
         Substantive(chat.cursor)' = Substantive(chat.cursor)
  PROVE  IndexIsCurrent'
  BY DEF IndexIsCurrent, Landed

LEMMA NothingSaid ==
  ASSUME SaysCurrent => IndexIsCurrent, UNCHANGED <<chat, document, config>>, SaysCurrent' => SaysCurrent
  PROVE  SaysCurrent' => IndexIsCurrent'
  BY CurrentStays DEF Substantive

LEMMA ClaimsStay == ASSUME Claims, UNCHANGED <<chat, document, indexing, rebuild, store, config>> PROVE Claims'
  <1>1. SaysCurrent' => IndexIsCurrent'
    BY NothingSaid DEF Claims, SaysCurrent
  <1> QED
    BY <1>1 DEF Claims, MadeAsNow, StampsBehind

(* A step of one indexer leaves the other where it is.                      *)
LEMMA OneAtATime ==
  ASSUME ChatTypeOK, NEW w \in Indexers, NEW i, SetsIndexing(w, i)
  PROVE  indexing'[w] = i /\ \A v \in Indexers \ {w} : indexing'[v] = indexing[v]
  BY DEF ChatTypeOK, SetsIndexing

IndexingStates ==
  [at : {"idle", "read", "write", "resolve", "commit"}, from : 0..MaxTurns, upto : 0..MaxTurns,
   todo : 0..(MaxTurns + 1), copy : SUBSET AllTurns, document : BOOLEAN, config : 0..2]

LEMMA IndexingTyped ==
  ASSUME ChatTypeOK, NEW w \in Indexers, NEW i \in IndexingStates, SetsIndexing(w, i)
  PROVE  indexing' \in [Indexers -> IndexingStates]
  BY DEF ChatTypeOK, SetsIndexing, IndexingStates

LEMMA NoneTyped == NoIndexing \in IndexingStates
  BY ChatAssumption DEF IndexingStates

RebuildStates ==
  [at : {"off", "woken", "wipe", "resize", "walk", "file", "index", "settle", "stamp", "clear"},
   failed : BOOLEAN]

LEMMA TypedBut ==
  ASSUME ChatTypeOK, indexing' \in [Indexers -> IndexingStates], rebuild' \in RebuildStates,
         transcript' \in [there : BOOLEAN, turns : SUBSET AllTurns],
         UNCHANGED <<chat, document, recording, store, config>>
  PROVE  ChatTypeOK'
<1>1. (/\ chat \in [there : BOOLEAN, said : 0..MaxTurns, small : SUBSET AllTurns,
                    session : BOOLEAN, cursor : 0..MaxTurns, document : BOOLEAN]
       /\ document \in [there : BOOLEAN, done : BOOLEAN,
                       chunks : Seq([turns : SUBSET AllTurns, config : Configs])]
       /\ recording \in [at : {"idle", "read", "write", "row"}, turn : 0..MaxTurns, copy : SUBSET AllTurns])'
  BY DEF ChatTypeOK
<1>2. (store \in [marker : 0..2, stamp : Configs, fits : BOOLEAN] /\ config \in Configs)'
  BY DEF ChatTypeOK
<1> QED
  BY <1>1, <1>2 DEF ChatTypeOK, IndexingStates, RebuildStates

-----------------------------------------------------------------------------
(* A turn is said, and recorded. *)

LEMMA SaysKeeps == ASSUME ChatInv, NEW small \in BOOLEAN, Says(small) PROVE ChatInv'
<1> USE ChatAssumption
<1>0. ChatTypeOK /\ ChatRows
  BY DEF ChatInv, Contents
<1>1. /\ chat.there /\ chat'.there /\ chat'.said = chat.said + 1 /\ chat.said < MaxTurns /\ chat.said \in Nat
      /\ chat'.cursor = chat.cursor /\ chat'.document = chat.document /\ chat'.session = chat.session
      /\ chat'.small \in {chat.small, chat.small \cup {chat.said + 1}}
  BY <1>0 DEF Says, ChatTypeOK
<1>2. /\ recording = NoRecording /\ recording'.at = "read" /\ recording'.turn = chat.said + 1
      /\ UNCHANGED <<document, transcript, indexing, rebuild, store, config>>
  BY DEF Says, elsewhere
<1>t. ChatTypeOK'
  <2>1. chat' \in [there : BOOLEAN, said : 0..MaxTurns, small : SUBSET AllTurns,
                   session : BOOLEAN, cursor : 0..MaxTurns, document : BOOLEAN]
    <3>1. chat.said + 1 \in AllTurns /\ chat.said + 1 \in 0..MaxTurns
      BY <1>1
    <3>2. chat'.small \in SUBSET AllTurns /\ chat'.said \in 0..MaxTurns
      BY <3>1, <1>0, <1>1 DEF ChatTypeOK
    <3>3. chat' = [chat EXCEPT !.said = chat'.said, !.small = chat'.small]
      BY <1>0 DEF ChatTypeOK, Says
    <3> QED
      BY <3>2, <3>3, <1>0 DEF ChatTypeOK
  <2>2. recording' \in [at : {"idle", "read", "write", "row"}, turn : 0..MaxTurns, copy : SUBSET AllTurns]
    <3>1. chat.said + 1 \in 0..MaxTurns
      BY <1>1
    <3> QED
      BY <3>1 DEF Says
  <2> QED
    BY <1>0, <1>2, <2>1, <2>2 DEF ChatTypeOK
<1>3. chat.cursor \in 0..chat.said /\ chat.small \subseteq 1..chat.said
  BY <1>0 DEF ChatTypeOK, ChatRows
<1>4. Substantive(chat.cursor)' = Substantive(chat.cursor)
  BY <1>1, <1>3 DEF Substantive
<1>5. Contents'
  <2>1. ChatRows' /\ NoOrphan' /\ FileHoldsIndexed'
    BY <1>0, <1>1, <1>2, <1>3 DEF ChatInv, Contents, ChatRows, NoOrphan, FileHoldsIndexed
  <2>2. InOrder' /\ ChunksLand'
    BY <1>2, <1>4 DEF ChatInv, Contents, InOrder, ChunksLand, Landed
  <2> QED
    BY <2>1, <2>2 DEF Contents
<1>6. InHand'
  <2>1. AloneInside' /\ CopyHolds' /\ TurnInHand'
    BY <1>1, <1>2 DEF ChatInv, InHand, AloneInside, CopyHolds, TurnInHand
  <2>2. \A w \in Indexers : indexing[w].upto \in Nat
    BY <1>0 DEF ChatTypeOK
  <2>3. GoesOn'
    BY <1>1, <1>2, <2>2 DEF ChatInv, InHand, GoesOn
  <2> QED
    BY <2>1, <2>3 DEF InHand
<1>7. Apart'
  BY <1>2 DEF ChatInv, Apart
<1>8. Claims'
  <2>1. SaysCurrent' => IndexIsCurrent'
    BY <1>2, <1>4, CurrentStays DEF ChatInv, Claims, SaysCurrent
  <2> QED
    BY <1>2, <2>1 DEF ChatInv, Claims, MadeAsNow, StampsBehind
<1> QED
  BY <1>t, <1>5, <1>6, <1>7, <1>8 DEF ChatInv

LEMMA ReadsFileKeeps == ASSUME ChatInv, ~Gaps, ReadsFile PROVE ChatInv'
<1>0. ChatTypeOK
  BY DEF ChatInv
<1>1. /\ UNCHANGED <<chat, document, transcript, indexing, rebuild, store, config>>
      /\ recording.at = "read" /\ recording'.turn = recording.turn
      /\ \/ recording'.at = "row"
         \/ ~Inside /\ recording'.at = "write" /\ recording'.copy = transcript.turns
  BY <1>0 DEF ReadsFile, elsewhere, MayEnter, ChatTypeOK
<1>t. ChatTypeOK'
  <2>1. recording' \in [at : {"idle", "read", "write", "row"}, turn : 0..MaxTurns, copy : SUBSET AllTurns]
    BY <1>0 DEF ChatTypeOK, ReadsFile
  <2> QED
    BY <1>0, <1>1, <2>1 DEF ChatTypeOK
<1>2. InHand'
  BY <1>1 DEF ChatInv, InHand, AloneInside, CopyHolds, TurnInHand, GoesOn, Inside
<1> QED
  BY <1>1, <1>t, <1>2, ContentsStay, ClaimsStay DEF ChatInv, Apart

LEMMA WritesFileKeeps == ASSUME ChatInv, WritesFile PROVE ChatInv'
<1>0. ChatTypeOK
  BY DEF ChatInv
<1>1. /\ UNCHANGED <<chat, document, indexing, rebuild, store, config>>
      /\ recording.at = "write" /\ recording'.at = "row" /\ recording'.turn = recording.turn
      /\ transcript'.there /\ transcript'.turns = recording.copy \cup {recording.turn}
  BY <1>0 DEF WritesFile, elsewhere, Holding, ChatTypeOK
<1>2. /\ \A w \in Indexers : indexing[w].at # "write"
      /\ chat.there => transcript.turns \subseteq transcript'.turns
  BY <1>1 DEF ChatInv, InHand, AloneInside
<1>t. ChatTypeOK'
  <2>1. recording' \in [at : {"idle", "read", "write", "row"}, turn : 0..MaxTurns, copy : SUBSET AllTurns]
    BY <1>0 DEF ChatTypeOK, WritesFile
  <2>2. transcript' \in [there : BOOLEAN, turns : SUBSET AllTurns]
    BY <1>0, <1>1 DEF ChatTypeOK, WritesFile, Holding, ChatInv, InHand, TurnInHand
  <2> QED
    BY <1>0, <1>1, <2>1, <2>2 DEF ChatTypeOK
<1>3. Contents'
  BY <1>1, <1>2 DEF ChatInv, Contents, ChatRows, NoOrphan, InOrder, ChunksLand, FileHoldsIndexed, Landed,
              Substantive
<1>4. InHand'
  BY <1>1, <1>2 DEF ChatInv, InHand, AloneInside, CopyHolds, TurnInHand, GoesOn
<1> QED
  BY <1>1, <1>t, <1>3, <1>4, ClaimsStay DEF ChatInv, Apart

LEMMA EnsuresSessionKeeps == ASSUME ChatInv, EnsuresSession PROVE ChatInv'
<1>0. ChatTypeOK
  BY DEF ChatInv
<1>1. /\ UNCHANGED <<document, transcript, indexing, rebuild, store, config>> /\ recording' = NoRecording
      /\ chat'.there = chat.there /\ chat'.said = chat.said /\ chat'.small = chat.small
      /\ chat'.cursor = chat.cursor /\ chat'.document = chat.document
  BY <1>0 DEF EnsuresSession, elsewhere, ChatTypeOK
<1>t. ChatTypeOK'
  <2>1. chat' \in [there : BOOLEAN, said : 0..MaxTurns, small : SUBSET AllTurns,
                   session : BOOLEAN, cursor : 0..MaxTurns, document : BOOLEAN]
    BY <1>0 DEF ChatTypeOK, EnsuresSession
  <2>2. recording' \in [at : {"idle", "read", "write", "row"}, turn : 0..MaxTurns, copy : SUBSET AllTurns]
    BY <1>1, ChatAssumption
  <2> QED
    BY <1>0, <1>1, <2>1, <2>2 DEF ChatTypeOK
<1>2. Contents'
  <2>1. (ChatRows /\ NoOrphan /\ FileHoldsIndexed)'
    BY <1>1 DEF ChatInv, Contents, ChatRows, NoOrphan, FileHoldsIndexed
  <2>2. (InOrder /\ ChunksLand)'
    BY <1>1 DEF ChatInv, Contents, InOrder, ChunksLand, Landed, Substantive
  <2> QED
    BY <2>1, <2>2 DEF Contents
<1>3. InHand'
  BY <1>1 DEF ChatInv, InHand, AloneInside, CopyHolds, TurnInHand, GoesOn
<1>4. Claims'
  <2>1. SaysCurrent' => IndexIsCurrent'
    BY <1>1, CurrentStays DEF ChatInv, Claims, SaysCurrent, Substantive
  <2> QED
    BY <1>1, <2>1 DEF ChatInv, Claims, MadeAsNow, StampsBehind
<1> QED
  BY <1>1, <1>t, <1>2, <1>3, <1>4 DEF ChatInv, Apart

LEMMA RecordFailsKeeps == ASSUME ChatInv, RecordFails PROVE ChatInv'
<1>1. UNCHANGED <<chat, document, transcript, indexing, rebuild, store, config>> /\ recording' = NoRecording
  BY DEF RecordFails, elsewhere
<1>t. ChatTypeOK'
  BY <1>1, ChatAssumption DEF ChatInv, ChatTypeOK
<1>2. InHand'
  BY <1>1 DEF ChatInv, InHand, AloneInside, CopyHolds, TurnInHand, GoesOn
<1> QED
  BY <1>1, <1>t, <1>2, ContentsStay, ClaimsStay DEF ChatInv, Apart

-----------------------------------------------------------------------------
(* What lies past the cursor is indexed, by the sweep or by the rebuild.    *)

\* between its steps, who indexes is somewhere on the way
Underway(i, rows, turns) ==
  /\ i.at # "idle" /\ 1 <= i.from /\ i.from <= i.upto
  /\ i.at \in AtFile => i.from <= i.todo /\ i.todo <= i.upto
  /\ i.at \in PastFile => i.todo = i.upto + 1
  /\ rows.there => /\ i.from = rows.cursor + 1 /\ i.upto <= rows.said
                   /\ i.from..(i.todo - 1) \subseteq turns

LEMMA GoesOnIsUnderway ==
  GoesOn <=> \A w \in Indexers : indexing[w] # NoIndexing => Underway(indexing[w], chat, transcript.turns)
  BY DEF GoesOn, Underway

(* Sweep and rebuild begin as one. *)
LEMMA PlanKeeps ==
  ASSUME ChatInv, NEW w \in Indexers, indexing[w] = NoIndexing, Past, Plan(w),
         rebuild.at \in IF w = "sweep" THEN {"off", "woken"} ELSE {"index"},
         UNCHANGED <<chat, document, transcript, recording, rebuild, store, config>>
  PROVE  ChatInv'
<1> USE ChatAssumption
<1>0. ChatTypeOK /\ ChatRows
  BY DEF ChatInv, Contents
<1> DEFINE i == [NoIndexing EXCEPT !.at = "read", !.from = chat.cursor + 1, !.upto = chat.said,
                                   !.todo = chat.cursor + 1, !.document = chat.document]
<1>1. /\ chat.cursor \in Nat /\ chat.said \in 0..MaxTurns /\ chat.cursor + 1 <= chat.said
      /\ chat.document \in BOOLEAN
  BY <1>0 DEF ChatTypeOK, Past
<1>2. /\ i.at = "read" /\ i.from = chat.cursor + 1 /\ i.upto = chat.said /\ i.todo = chat.cursor + 1
      /\ i # NoIndexing
  OBVIOUS
<1>3. i \in IndexingStates
  <2>1. /\ chat.cursor + 1 \in 0..MaxTurns /\ chat.cursor + 1 \in 0..(MaxTurns + 1)
        /\ chat.document \in BOOLEAN
    BY <1>1
  <2> QED
    BY <2>1, <1>1, NoneTyped DEF IndexingStates
<1>4. indexing'[w] = i /\ \A v \in Indexers \ {w} : indexing'[v] = indexing[v]
  BY <1>0, OneAtATime DEF Plan, SetsIndexing
<1>5. indexing' \in [Indexers -> IndexingStates]
  BY <1>0, <1>3, IndexingTyped DEF Plan, SetsIndexing
<1> HIDE DEF i
<1>t. ChatTypeOK'
  <2>1. rebuild \in RebuildStates /\ transcript \in [there : BOOLEAN, turns : SUBSET AllTurns]
    BY <1>0 DEF ChatTypeOK, RebuildStates
  <2> QED
    BY <1>0, <1>5, <2>1, TypedBut
<1>6. Underway(i, chat', transcript'.turns)
  BY <1>1, <1>2 DEF Underway
<1>7. GoesOn'
  <2> SUFFICES ASSUME NEW v \in Indexers, indexing'[v] # NoIndexing
               PROVE  Underway(indexing'[v], chat', transcript'.turns)
    BY DEF GoesOn, Underway
  <2>1. CASE v = w
    BY <2>1, <1>4, <1>6 DEF Underway
  <2>2. CASE v # w
    BY <2>2, <1>4, GoesOnIsUnderway DEF ChatInv, InHand, Underway
  <2> QED
    BY <2>1, <2>2
<1>8. AloneInside' /\ CopyHolds' /\ TurnInHand'
  BY <1>2, <1>4 DEF ChatInv, InHand, AloneInside, CopyHolds, TurnInHand
<1>9. Apart'
  BY <1>4, <1>2 DEF ChatInv, Apart
<1>10. Claims'
  <2>1. SaysCurrent' => IndexIsCurrent'
    BY NothingSaid DEF ChatInv, Claims, SaysCurrent
  <2>2. MadeAsNow'
    BY <1>2, <1>4 DEF ChatInv, Claims, MadeAsNow
  <2> QED
    BY <2>1, <2>2 DEF ChatInv, Claims, StampsBehind
<1> QED
  BY <1>t, <1>7, <1>8, <1>9, <1>10, ContentsStay DEF ChatInv, InHand

LEMMA SweepBeginsKeeps == ASSUME ChatInv, SweepBegins PROVE ChatInv'
<1>1. UNCHANGED <<chat, document, transcript, recording, rebuild, store, config>>
  BY DEF SweepBegins, elsewhere
<1> QED
  BY <1>1, PlanKeeps DEF SweepBegins

LEMMA IndexesChatKeeps == ASSUME ChatInv, IndexesChat PROVE ChatInv'
<1>1. UNCHANGED <<chat, document, transcript, recording, store, config>> /\ rebuild.at = "index"
  BY DEF IndexesChat
<1>2. CASE Past
  BY <1>1, <1>2, PlanKeeps DEF IndexesChat
<1>3. CASE ~Past
  <2>1. UNCHANGED indexing /\ rebuild' = [rebuild EXCEPT !.at = "settle"] /\ indexing["rebuild"] = NoIndexing
    BY <1>3 DEF IndexesChat, Moves
  <2>2. rebuild'.at = "settle" /\ rebuild'.failed = rebuild.failed
    BY <2>1 DEF ChatInv, ChatTypeOK
  <2>t. ChatTypeOK'
    BY <1>1, <2>1 DEF ChatInv, ChatTypeOK
  <2>3. Apart'
    BY <1>1, <2>1, <2>2 DEF ChatInv, Apart
  <2>4. SaysCurrent' => IndexIsCurrent'
    BY <1>1, NothingSaid DEF ChatInv, Claims, SaysCurrent
  <2>5. MadeAsNow' /\ StampsBehind'
    BY <1>1, <2>1, <2>2 DEF ChatInv, Claims, MadeAsNow, StampsBehind
  <2> QED
    BY <1>1, <2>1, <2>t, <2>3, <2>4, <2>5, ContentsStay, InHandStays DEF ChatInv, Claims
<1> QED
  BY <1>2, <1>3

(* A step of who indexes, of which only where it is changes. *)
LEMMA IndexingMoves ==
  ASSUME ChatInv, NEW w \in Indexers, indexing[w] # NoIndexing, NEW i \in IndexingStates, SetsIndexing(w, i),
         UNCHANGED <<chat, document, recording, rebuild, store, config>>,
         chat.there => transcript.turns \subseteq transcript'.turns,
         \/ UNCHANGED transcript
         \/ recording.at # "write" /\ (\A v \in Indexers \ {w} : indexing[v].at # "write") /\ transcript'.there,
         transcript' \in [there : BOOLEAN, turns : SUBSET AllTurns],
         Underway(i, chat', transcript'.turns),
         i.at = "write" => ~Inside /\ i.copy = transcript.turns /\ UNCHANGED transcript,
         i.at = "commit" => i.config = config
  PROVE  ChatInv'
<1>0. ChatTypeOK
  BY DEF ChatInv
<1>1. indexing'[w] = i /\ (\A v \in Indexers \ {w} : indexing'[v] = indexing[v]) /\ i # NoIndexing
  BY <1>0, OneAtATime DEF Underway
<1>t. ChatTypeOK'
  <2>1. rebuild \in RebuildStates
    BY <1>0 DEF ChatTypeOK, RebuildStates
  <2> QED
    BY <1>0, <2>1, IndexingTyped, TypedBut
<1>2. Contents'
  BY DEF ChatInv, Contents, ChatRows, NoOrphan, InOrder, ChunksLand, FileHoldsIndexed, Landed,
              Substantive
<1>3. GoesOn'
  <2> SUFFICES ASSUME NEW v \in Indexers, indexing'[v] # NoIndexing
               PROVE  Underway(indexing'[v], chat', transcript'.turns)
    BY DEF GoesOn, Underway
  <2>1. CASE v = w
    BY <2>1, <1>1 DEF Underway
  <2>2. CASE v # w
    BY <2>2, <1>1, GoesOnIsUnderway DEF ChatInv, InHand, Underway
  <2> QED
    BY <2>1, <2>2
<1>4. AloneInside'
  BY <1>1 DEF ChatInv, InHand, AloneInside, Inside
<1>5. CopyHolds'
  <2> SUFFICES ASSUME NEW v \in Indexers, indexing'[v].at = "write", chat.there
               PROVE indexing'[v].copy = transcript'.turns
    BY DEF CopyHolds
  <2>1. CASE v = w
    BY <2>1, <1>1
  <2>2. CASE v # w
    BY <2>2, <1>1 DEF ChatInv, InHand, CopyHolds
  <2> QED
    BY <2>1, <2>2
<1>6. TurnInHand' /\ Apart'
  BY <1>1 DEF ChatInv, InHand, TurnInHand, Apart
<1>7. SaysCurrent' => IndexIsCurrent'
  BY NothingSaid DEF ChatInv, Claims, SaysCurrent
<1>8. MadeAsNow' /\ StampsBehind'
  <2>1. config \in Configs
    BY <1>0 DEF ChatTypeOK
  <2>2. ASSUME NEW v \in Indexers, indexing'[v].at = "commit"
        PROVE  /\ indexing'[v].config \in Configs
               /\ indexing'[v].config # config => v = "sweep" /\ store.stamp # config /\ store.marker # config
    <3>1. CASE v = w
      BY <2>1, <2>2, <3>1, <1>1
    <3>2. CASE v # w
      BY <2>2, <3>2, <1>1 DEF ChatInv, Claims, MadeAsNow
    <3> QED
      BY <3>1, <3>2
  <2> QED
    BY <2>2 DEF ChatInv, Claims, MadeAsNow, StampsBehind
<1> QED
  BY <1>t, <1>2, <1>3, <1>4, <1>5, <1>6, <1>7, <1>8 DEF ChatInv, InHand, Claims

\* the turn in hand is in the file
LEMMA PairDoneGoesOn ==
  ASSUME ChatTypeOK, NEW w \in Indexers, Underway(indexing[w], chat, transcript.turns), indexing[w].at \in AtFile,
         UNCHANGED chat,
         chat.there => transcript.turns \cup {indexing[w].todo} \subseteq transcript'.turns
  PROVE  /\ PairDone(w) \in IndexingStates /\ Underway(PairDone(w), chat', transcript'.turns)
         /\ PairDone(w).at \notin {"write", "commit"}
<1> USE ChatAssumption
<1> DEFINE i == indexing[w]
           p == PairDone(w)
<1>0. i \in IndexingStates
  BY DEF ChatTypeOK, IndexingStates
<1>1. /\ i.from \in Nat /\ i.upto \in 0..MaxTurns /\ i.todo \in Nat
      /\ 1 <= i.from /\ i.from <= i.todo /\ i.todo <= i.upto
  BY <1>0 DEF IndexingStates, Underway
<1>2. /\ p.at = (IF i.todo = i.upto THEN "resolve" ELSE "read") /\ p.from = i.from /\ p.upto = i.upto
      /\ p.todo = i.todo + 1
  BY <1>0 DEF PairDone, IndexingStates
<1>3. p \in IndexingStates
  <2>1. i.todo + 1 \in 0..(MaxTurns + 1)
    BY <1>1
  <2> QED
    BY <1>0, <2>1 DEF PairDone, IndexingStates
<1>4. chat.there => p.from..(p.todo - 1) \subseteq transcript'.turns
  <2> SUFFICES ASSUME chat.there, NEW t \in p.from..(p.todo - 1) PROVE t \in transcript'.turns
    OBVIOUS
  <2>1. t \in i.from..(i.todo - 1) \/ t = i.todo
    BY <1>1, <1>2
  <2> QED
    BY <2>1 DEF Underway
<1>5. Underway(p, chat', transcript'.turns)
  <2> HIDE DEF p
  <2> QED
    BY <1>1, <1>2, <1>4 DEF Underway
<1> QED
  BY <1>2, <1>3, <1>5

LEMMA ReconcileReadsKeeps == ASSUME ChatInv, ~Gaps, NEW w \in Indexers, ReconcileReads(w) PROVE ChatInv'
<1>0. ChatTypeOK /\ UNCHANGED <<chat, document, transcript, recording, rebuild, store, config>>
  BY DEF ChatInv, ReconcileReads, elsewhere
<1>1. indexing[w].at = "read" /\ indexing[w] # NoIndexing
  BY DEF ReconcileReads, IsAt
<1>2. Underway(indexing[w], chat, transcript.turns) /\ indexing[w] \in IndexingStates
  BY <1>0, <1>1, GoesOnIsUnderway DEF ChatInv, InHand, ChatTypeOK, IndexingStates
<1>3. transcript' \in [there : BOOLEAN, turns : SUBSET AllTurns]
  BY <1>0 DEF ChatTypeOK
<1>4. CASE indexing[w].todo \in transcript.turns
  <2>1. SetsIndexing(w, PairDone(w))
    BY <1>4 DEF ReconcileReads
  <2>2. /\ PairDone(w) \in IndexingStates /\ Underway(PairDone(w), chat', transcript'.turns)
        /\ PairDone(w).at \notin {"write", "commit"}
    BY <1>0, <1>1, <1>2, <1>4, PairDoneGoesOn
  <2> QED
    BY <1>0, <1>1, <1>3, <2>1, <2>2, IndexingMoves
<1>5. CASE indexing[w].todo \notin transcript.turns
  <2> DEFINE i == [indexing[w] EXCEPT !.at = "write", !.copy = transcript.turns]
  <2>1. SetsIndexing(w, i) /\ ~Inside
    BY <1>5 DEF ReconcileReads, MayEnter
  <2>2. /\ i.at = "write" /\ i.copy = transcript.turns /\ i.from = indexing[w].from /\ i.upto = indexing[w].upto
        /\ i.todo = indexing[w].todo
    BY <1>2 DEF IndexingStates
  <2>3. i \in IndexingStates
    BY <1>0, <1>2 DEF IndexingStates, ChatTypeOK
  <2> HIDE DEF i
  <2>4. Underway(i, chat', transcript'.turns)
    BY <1>0, <1>1, <1>2, <2>2 DEF Underway
  <2> QED
    BY <1>0, <1>1, <1>3, <2>1, <2>2, <2>3, <2>4, IndexingMoves
<1> QED
  BY <1>4, <1>5

LEMMA ReconcileWritesKeeps == ASSUME ChatInv, NEW w \in Indexers, ReconcileWrites(w) PROVE ChatInv'
<1>0. ChatTypeOK /\ UNCHANGED <<chat, document, recording, rebuild, store, config>>
  BY DEF ChatInv, ReconcileWrites, elsewhere
<1>1. indexing[w].at = "write" /\ indexing[w] # NoIndexing /\ SetsIndexing(w, PairDone(w))
  BY DEF ReconcileWrites, IsAt
<1>2. Underway(indexing[w], chat, transcript.turns) /\ indexing[w] \in IndexingStates
  BY <1>0, <1>1, GoesOnIsUnderway DEF ChatInv, InHand, ChatTypeOK, IndexingStates
<1>3. transcript'.there /\ transcript' = [there |-> TRUE, turns |-> indexing[w].copy \cup {indexing[w].todo}]
  BY DEF ReconcileWrites, Holding
<1>4. indexing[w].todo \in AllTurns
  BY <1>1, <1>2, ChatAssumption DEF Underway, IndexingStates
<1>5. transcript' \in [there : BOOLEAN, turns : SUBSET AllTurns]
  BY <1>2, <1>3, <1>4 DEF IndexingStates
<1>6. chat.there => indexing[w].copy = transcript.turns
  BY <1>1 DEF ChatInv, InHand, CopyHolds
<1>7. recording.at # "write" /\ \A v \in Indexers \ {w} : indexing[v].at # "write"
  BY <1>1 DEF ChatInv, InHand, AloneInside, Apart
<1>8. /\ PairDone(w) \in IndexingStates /\ Underway(PairDone(w), chat', transcript'.turns)
      /\ PairDone(w).at \notin {"write", "commit"}
  BY <1>0, <1>1, <1>2, <1>3, <1>6, PairDoneGoesOn
<1> QED
  BY <1>0, <1>1, <1>3, <1>5, <1>6, <1>7, <1>8, IndexingMoves

LEMMA ResolvesKeeps == ASSUME ChatInv, NEW w \in Indexers, Resolves(w) PROVE ChatInv'
<1>0. ChatTypeOK /\ UNCHANGED <<chat, document, transcript, recording, rebuild, store, config>>
  BY DEF ChatInv, Resolves, elsewhere
<1> DEFINE i == [indexing[w] EXCEPT !.at = "commit", !.config = config]
<1>1. indexing[w].at = "resolve" /\ indexing[w] # NoIndexing /\ SetsIndexing(w, i)
  BY DEF Resolves, IsAt
<1>2. Underway(indexing[w], chat, transcript.turns) /\ indexing[w] \in IndexingStates
  BY <1>0, <1>1, GoesOnIsUnderway DEF ChatInv, InHand, ChatTypeOK, IndexingStates
<1>3. transcript' \in [there : BOOLEAN, turns : SUBSET AllTurns]
  BY <1>0 DEF ChatTypeOK
<1>4. /\ i.at = "commit" /\ i.config = config /\ i.from = indexing[w].from /\ i.upto = indexing[w].upto
      /\ i.todo = indexing[w].todo
  BY <1>2 DEF IndexingStates
<1>5. i \in IndexingStates
  <2>1. config \in 0..2
    BY <1>0 DEF ChatTypeOK
  <2> QED
    BY <1>2, <2>1 DEF IndexingStates
<1> HIDE DEF i
<1>6. Underway(i, chat', transcript'.turns)
  BY <1>0, <1>1, <1>2, <1>4 DEF Underway
<1> QED
  BY <1>0, <1>1, <1>3, <1>4, <1>5, <1>6, IndexingMoves

(* The commit of who indexes: chunks and cursor land together, or neither.  *)

LEMMA LandingKeeps ==
  ASSUME ChatInv, NEW w \in Indexers, Commits(w), StillThere, ~Refused(indexing[w], Segments(indexing[w]))
  PROVE  Contents' /\ (SaysCurrent' => IndexIsCurrent') /\ chat'.said = chat.said /\ chat'.there
         /\ document' \in [there : BOOLEAN, done : BOOLEAN,
                           chunks : Seq([turns : SUBSET AllTurns, config : Configs])]
         /\ document'.done = document.done /\ chat'.cursor = indexing[w].upto
         /\ chat' \in [there : BOOLEAN, said : 0..MaxTurns, small : SUBSET AllTurns,
                       session : BOOLEAN, cursor : 0..MaxTurns, document : BOOLEAN]
<1> USE ChatAssumption
<1>0. ChatTypeOK /\ ChatRows
  BY DEF ChatInv, Contents
<1> DEFINE i == indexing[w]
           segments == Segments(i)
<1>1. /\ i.at = "commit" /\ i \in IndexingStates /\ chat.there /\ indexing[w] # NoIndexing
      /\ Underway(i, chat, transcript.turns)
  BY <1>0, GoesOnIsUnderway
     DEF Commits, IsAt, StillThere, ChatInv, InHand, ChatTypeOK, IndexingStates
<1>2. /\ i.from = chat.cursor + 1 /\ i.upto \in Nat /\ chat.cursor < i.upto /\ i.upto <= chat.said
      /\ chat.cursor \in Nat /\ chat.said \in 0..MaxTurns
      /\ i.from..i.upto \subseteq transcript.turns
  <2>1. i.todo - 1 = i.upto
    BY <1>1 DEF Underway, IndexingStates
  <2>2. i.from \in Nat /\ i.upto \in Nat /\ chat.cursor \in Nat /\ chat.said \in 0..MaxTurns
    BY <1>0, <1>1 DEF IndexingStates, ChatTypeOK
  <2>3. i.from = chat.cursor + 1 /\ i.from <= i.upto /\ i.upto <= chat.said
        /\ i.from..i.upto \subseteq transcript.turns
    BY <1>1, <2>1 DEF Underway
  <2> QED
    BY <2>2, <2>3
<1>3. i.config \in Configs /\ (i.config # config => ~SaysCurrent)
  BY <1>0, <1>1 DEF ChatInv, Claims, MadeAsNow, Apart, SaysCurrent
<1>4. segments = (i.from..i.upto) \ chat.small /\ segments \in SUBSET AllTurns
  BY <1>2 DEF Segments
<1>5. LandsChunks(i, segments) /\ Returns(w, FALSE) /\ UNCHANGED <<transcript, recording, store, config>>
  BY DEF Commits
<1>6. /\ chat'.there /\ chat'.cursor = i.upto /\ chat'.said = chat.said /\ chat'.small = chat.small
      /\ chat'.document = (chat.document \/ segments # {})
  BY <1>0, <1>1, <1>5 DEF LandsChunks, ChatTypeOK
<1>c. chat' \in [there : BOOLEAN, said : 0..MaxTurns, small : SUBSET AllTurns,
                 session : BOOLEAN, cursor : 0..MaxTurns, document : BOOLEAN]
  <2>1. i.upto \in 0..MaxTurns /\ (chat.document \/ segments # {}) \in BOOLEAN
    BY <1>2
  <2> QED
    BY <2>1, <1>0, <1>5 DEF LandsChunks, ChatTypeOK
<1>7. SaysCurrent' => SaysCurrent
  BY <1>0, <1>1, <1>5 DEF ChatInv, Apart, Returns, SaysCurrent, LandsChunks, ChatTypeOK
<1>f. FileHoldsIndexed'
  <2> SUFFICES ASSUME NEW t \in 1..i.upto PROVE t \in transcript'.turns
    BY <1>6 DEF FileHoldsIndexed
  <2>1. t \in 1..chat.cursor \/ t \in i.from..i.upto
    BY <1>2
  <2> QED
    BY <2>1, <1>1, <1>2, <1>5 DEF ChatInv, Contents, FileHoldsIndexed
<1> HIDE DEF i, segments
<1>8. CASE segments = {}
  <2>1. document' = document
    BY <1>5, <1>8 DEF LandsChunks
  <2>2. Substantive(chat.cursor)' = Substantive(chat.cursor)
    BY <1>2, <1>4, <1>6, <1>8 DEF Substantive
  <2>3. ChatRows' /\ NoOrphan' /\ FileHoldsIndexed'
    BY <1>0, <1>1, <1>2, <1>5, <1>6, <1>8, <1>f, <2>1 DEF ChatInv, Contents, ChatRows, NoOrphan
  <2>4. InOrder' /\ ChunksLand'
    BY <2>1, <2>2 DEF ChatInv, Contents, InOrder, ChunksLand, Landed
  <2>5. SaysCurrent' => IndexIsCurrent'
    BY <1>5, <1>7, <2>1, <2>2, CurrentStays DEF ChatInv, Claims
  <2>6. document' \in [there : BOOLEAN, done : BOOLEAN,
                       chunks : Seq([turns : SUBSET AllTurns, config : Configs])]
    BY <1>0, <2>1 DEF ChatTypeOK
  <2> QED
    BY <1>6, <1>c, <2>1, <2>3, <2>4, <2>5, <2>6 DEF Contents, i
<1>9. CASE segments # {}
  <2> DEFINE batch == [turns |-> segments, config |-> i.config]
             old == document.chunks
  <2>1. /\ document'.there /\ document'.done = document.done /\ document'.chunks = Append(old, batch)
    BY <1>0, <1>5, <1>9 DEF LandsChunks, ChatInv, ChatTypeOK
  <2>2. old \in Seq([turns : SUBSET AllTurns, config : Configs]) /\ Len(old) \in Nat
    BY <1>0 DEF ChatTypeOK
  <2>3. /\ batch \in [turns : SUBSET AllTurns, config : Configs]
        /\ batch.turns = segments /\ batch.config = i.config
    BY <1>3, <1>4
  <2> HIDE DEF batch
  <2>4. /\ document'.chunks \in Seq([turns : SUBSET AllTurns, config : Configs])
        /\ Landed' = Landed \cup {Len(old) + 1} /\ Len(old) + 1 \notin Landed
        /\ \A n \in Landed : document'.chunks[n] = old[n]
        /\ document'.chunks[Len(old) + 1] = batch
    BY <2>1, <2>2, <2>3 DEF Landed
  <2>l. Landed = 1..Len(old) /\ Landed' = Landed \cup {Len(old) + 1}
    BY <2>4 DEF Landed
  <2>d. document' \in [there : BOOLEAN, done : BOOLEAN,
                       chunks : Seq([turns : SUBSET AllTurns, config : Configs])]
    <3>1. /\ document \in [there : BOOLEAN, done : BOOLEAN,
                           chunks : Seq([turns : SUBSET AllTurns, config : Configs])]
          /\ document' = [document EXCEPT !.there = TRUE, !.chunks = document'.chunks]
      BY <1>0, <1>5, <1>9, <2>1 DEF LandsChunks, ChatTypeOK, batch, i
    <3> QED
      BY <3>1, <2>4
  <2>5. Substantive(chat.cursor)' = Substantive(chat.cursor) \cup segments
    BY <1>2, <1>4, <1>6 DEF Substantive
  <2>6. ChatRows' /\ NoOrphan' /\ FileHoldsIndexed'
    BY <1>0, <1>1, <1>2, <1>5, <1>6, <1>9, <1>f, <2>1 DEF ChatInv, Contents, ChatRows, NoOrphan
  <2>7. \A n \in Landed : old[n].turns \subseteq 1..chat.cursor
    BY DEF ChatInv, Contents, InOrder, Substantive
  <2>8. InOrder'
    <3>1. ASSUME NEW m \in Landed', NEW n \in Landed', m < n,
                 NEW t \in document'.chunks[m].turns, NEW u \in document'.chunks[n].turns
          PROVE  t < u
      <4>1. m \in Landed
        BY <2>2, <2>l, <3>1
      <4>2. CASE n \in Landed
        BY <2>4, <3>1, <4>1, <4>2 DEF ChatInv, Contents, InOrder
      <4>3. CASE n = Len(old) + 1
        <5>1. t \in 1..chat.cursor /\ u \in i.from..i.upto
          BY <1>4, <2>3, <2>4, <2>7, <3>1, <4>1, <4>3
        <5> QED
          BY <5>1, <1>2
      <4> QED
        BY <2>4, <4>2, <4>3
    <3>2. ASSUME NEW n \in Landed' PROVE document'.chunks[n].turns \subseteq Substantive(chat.cursor)'
      <4>1. CASE n \in Landed
        BY <2>4, <2>5, <4>1 DEF ChatInv, Contents, InOrder
      <4>2. CASE n = Len(old) + 1
        BY <2>3, <2>4, <2>5, <4>2
      <4> QED
        BY <2>4, <4>1, <4>2
    <3> QED
      BY <3>1, <3>2 DEF InOrder
  <2>n. ChunksLand'
    BY <1>9, <2>3, <2>4 DEF ChatInv, Contents, ChunksLand
  <2>9. ASSUME SaysCurrent' PROVE IndexIsCurrent'
    <3>1. IndexIsCurrent /\ i.config = config /\ config' = config
      BY <1>3, <1>5, <1>7, <2>9 DEF ChatInv, Claims
    <3>2. UNION {document'.chunks[n].turns : n \in Landed'} = Substantive(chat.cursor)'
      <4>1. \A t : t \in UNION {document'.chunks[n].turns : n \in Landed'}
                     <=> \E n \in Landed' : t \in document'.chunks[n].turns
        OBVIOUS
      <4>2. \A t : t \in Substantive(chat.cursor) <=> \E n \in Landed : t \in old[n].turns
        BY <3>1 DEF IndexIsCurrent
      <4>3. \A t : (\E n \in Landed' : t \in document'.chunks[n].turns)
                     <=> (\E n \in Landed : t \in old[n].turns) \/ t \in segments
        BY <2>3, <2>4
      <4>4. \A t : t \in UNION {document'.chunks[n].turns : n \in Landed'}
                     <=> t \in Substantive(chat.cursor) \cup segments
        BY <4>1, <4>2, <4>3
      <4>5. UNION {document'.chunks[n].turns : n \in Landed'} = Substantive(chat.cursor) \cup segments
        BY <4>4
      <4> QED
        BY <4>5, <2>5
    <3>3. \A n \in Landed' : document'.chunks[n].config = config'
      BY <2>3, <2>4, <3>1 DEF IndexIsCurrent
    <3> QED
      BY <3>2, <3>3 DEF IndexIsCurrent
  <2> QED
    BY <1>6, <1>c, <2>1, <2>d, <2>6, <2>8, <2>9, <2>n DEF Contents, i
<1> QED
  BY <1>8, <1>9

\* who indexes is done, and what is in hand elsewhere stays
LEMMA LeavesKeeps ==
  ASSUME ChatInv, NEW w \in Indexers, indexing[w] # NoIndexing, SetsIndexing(w, NoIndexing),
         UNCHANGED <<transcript, recording, store, config>>, chat'.there => chat.there,
         chat'.said = chat.said
  PROVE  /\ indexing' \in [Indexers -> IndexingStates] /\ InHand' /\ MadeAsNow'
         /\ \A v \in Indexers : v # w => indexing'[v] = NoIndexing
         /\ indexing'[w] = NoIndexing
<1>0. ChatTypeOK
  BY DEF ChatInv
<1>1. indexing'[w] = NoIndexing /\ \A v \in Indexers \ {w} : indexing'[v] = indexing[v]
  BY <1>0, OneAtATime
<1>2. \A v \in Indexers : v # w => indexing'[v] = NoIndexing
  BY <1>1 DEF ChatInv, Apart
<1>3. indexing' \in [Indexers -> IndexingStates]
  BY <1>0, NoneTyped, IndexingTyped
<1>4. \A v \in Indexers : indexing'[v] = NoIndexing /\ indexing'[v].at = "idle"
  BY <1>1, <1>2
<1> QED
  BY <1>1, <1>2, <1>3, <1>4 DEF ChatInv, InHand, AloneInside, CopyHolds, TurnInHand, GoesOn, MadeAsNow

\* ... also where nothing landed, and a rebuild counts the file as failed or finds the chat gone
LEMMA NothingLandsKeeps ==
  ASSUME ChatInv, NEW w \in Indexers, indexing[w] # NoIndexing, SetsIndexing(w, NoIndexing),
         UNCHANGED <<chat, document, transcript, recording, store, config>>,
         NEW failed \in BOOLEAN, Returns(w, failed)
  PROVE  ChatInv'
<1>0. ChatTypeOK
  BY DEF ChatInv
<1>1. /\ indexing' \in [Indexers -> IndexingStates] /\ InHand' /\ MadeAsNow'
      /\ \A v \in Indexers : v # w => indexing'[v] = NoIndexing
      /\ indexing'[w] = NoIndexing
  BY LeavesKeeps
<1>2. \/ rebuild' = rebuild
      \/ rebuild.at = "index" /\ rebuild'.at = "settle"
      \/ rebuild.at = "index" /\ rebuild'.at = "stamp" /\ rebuild'.failed
  BY <1>0 DEF Returns, ChatInv, Apart, ChatTypeOK
<1>t. ChatTypeOK'
  <2>1. rebuild' \in RebuildStates /\ transcript' \in [there : BOOLEAN, turns : SUBSET AllTurns]
    BY <1>0 DEF Returns, ChatTypeOK, RebuildStates
  <2> QED
    BY <1>0, <1>1, <2>1, TypedBut
<1>3. SaysCurrent' => SaysCurrent
  BY <1>2 DEF SaysCurrent
<1>4. Apart' /\ StampsBehind'
  BY <1>1, <1>2 DEF ChatInv, Claims, Apart, StampsBehind
<1> QED
  BY <1>1, <1>t, <1>3, <1>4, ContentsStay, NothingSaid DEF ChatInv, Claims

LEMMA CommitsKeeps == ASSUME ChatInv, NEW w \in Indexers, Commits(w) PROVE ChatInv'
<1>0. ChatTypeOK
  BY DEF ChatInv
<1>1. /\ indexing[w].at = "commit" /\ indexing[w] # NoIndexing /\ SetsIndexing(w, NoIndexing)
      /\ UNCHANGED <<transcript, recording, store, config>>
  BY DEF Commits, IsAt
<1>2. CASE StillThere /\ ~Refused(indexing[w], Segments(indexing[w]))
  <2>1. /\ Contents' /\ (SaysCurrent' => IndexIsCurrent') /\ chat'.said = chat.said /\ chat'.there
        /\ document'.done = document.done
        /\ document' \in [there : BOOLEAN, done : BOOLEAN,
                          chunks : Seq([turns : SUBSET AllTurns, config : Configs])]
        /\ chat' \in [there : BOOLEAN, said : 0..MaxTurns, small : SUBSET AllTurns,
                      session : BOOLEAN, cursor : 0..MaxTurns, document : BOOLEAN]
    BY <1>2, LandingKeeps
  <2>2. /\ indexing' \in [Indexers -> IndexingStates] /\ InHand' /\ MadeAsNow'
        /\ \A v \in Indexers : v # w => indexing'[v] = NoIndexing
        /\ indexing'[w] = NoIndexing
    BY <1>1, <1>2, <2>1, LeavesKeeps DEF StillThere
  <2>3. Returns(w, FALSE)
    BY <1>2 DEF Commits
  <2>t. ChatTypeOK'
    <3>1. rebuild' \in RebuildStates
      BY <1>0, <2>3 DEF Returns, ChatTypeOK, RebuildStates
    <3> QED
      BY <1>0, <1>1, <2>1, <2>2, <3>1 DEF ChatTypeOK, IndexingStates, RebuildStates
  <2>4. Apart' /\ StampsBehind'
    <3>1. rebuild' = rebuild \/ (rebuild.at = "index" /\ rebuild'.at = "settle")
      BY <1>0, <1>1, <2>3 DEF Returns, ChatInv, Apart, ChatTypeOK
    <3> QED
      BY <1>1, <2>2, <3>1 DEF ChatInv, Claims, Apart, StampsBehind
  <2> QED
    BY <2>1, <2>2, <2>t, <2>4 DEF ChatInv, Claims
<1>3. CASE ~StillThere \/ Refused(indexing[w], Segments(indexing[w]))
  <2>1. UNCHANGED <<chat, document>> /\ Returns(w, StillThere)
    BY <1>3 DEF Commits
  <2> QED
    BY <1>0, <1>1, <2>1, NothingLandsKeeps DEF StillThere, ChatTypeOK
<1> QED
  BY <1>2, <1>3

LEMMA IndexingFailsKeeps == ASSUME ChatInv, NEW w \in Indexers, IndexingFails(w) PROVE ChatInv'
  BY NothingLandsKeeps DEF IndexingFails

-----------------------------------------------------------------------------
(* A rebuild: beside its steps but one nobody indexes. *)

ChatStates == [there : BOOLEAN, said : 0..MaxTurns, small : SUBSET AllTurns,
               session : BOOLEAN, cursor : 0..MaxTurns, document : BOOLEAN]
StoreStates == [marker : 0..2, stamp : Configs, fits : BOOLEAN]
DocumentStates ==
  [there : BOOLEAN, done : BOOLEAN, chunks : Seq([turns : SUBSET AllTurns, config : Configs])]
NobodyIndexes == \A w \in Indexers : indexing[w] = NoIndexing

LEMMA TypesOfParts ==
  ChatTypeOK <=>
    /\ chat \in ChatStates /\ document \in DocumentStates /\ transcript \in [there : BOOLEAN, turns : SUBSET AllTurns]
    /\ recording \in [at : {"idle", "read", "write", "row"}, turn : 0..MaxTurns, copy : SUBSET AllTurns]
    /\ indexing \in [Indexers -> IndexingStates] /\ rebuild \in RebuildStates /\ store \in StoreStates
    /\ config \in Configs
  BY DEF ChatTypeOK, ChatStates, DocumentStates, StoreStates, IndexingStates, RebuildStates

LEMMA RebuildStep ==
  ASSUME ChatInv, NobodyIndexes, UNCHANGED others, chat' \in ChatStates, chat'.there => chat.there,
         document' \in DocumentStates, rebuild' \in RebuildStates, store' \in StoreStates,
         Contents', StampsBehind', SaysCurrent' => IndexIsCurrent'
  PROVE  ChatInv'
<1>0. ChatTypeOK /\ UNCHANGED <<transcript, recording, indexing, config>>
  BY DEF ChatInv, others
<1>t. ChatTypeOK'
  <2>1. /\ transcript \in [there : BOOLEAN, turns : SUBSET AllTurns] /\ indexing \in [Indexers -> IndexingStates]
        /\ recording \in [at : {"idle", "read", "write", "row"}, turn : 0..MaxTurns, copy : SUBSET AllTurns]
        /\ config \in Configs
    BY <1>0, TypesOfParts
  <2> QED
    BY <1>0, <2>1 DEF ChatTypeOK, ChatStates, DocumentStates, StoreStates, IndexingStates, RebuildStates
<1>1. \A w \in Indexers : indexing'[w] = NoIndexing /\ indexing'[w].at = "idle"
  BY <1>0 DEF NobodyIndexes
<1>2. InHand'
  BY <1>0, <1>1 DEF ChatInv, InHand, AloneInside, CopyHolds, TurnInHand, GoesOn
<1>3. Apart' /\ MadeAsNow'
  BY <1>1 DEF Apart, MadeAsNow
<1> QED
  BY <1>t, <1>2, <1>3 DEF ChatInv, Claims

LEMMA RebuildMoves ==
  ASSUME ChatInv, NobodyIndexes, UNCHANGED <<chat, others>>, document'.there = document.there,
         document'.chunks = document.chunks, document' \in DocumentStates,
         rebuild' \in RebuildStates, store' \in StoreStates, StampsBehind', SaysCurrent' => IndexIsCurrent
  PROVE  ChatInv'
<1>0. chat \in ChatStates /\ document \in DocumentStates /\ UNCHANGED <<transcript, config>>
  BY TypesOfParts DEF ChatInv, others
<1>1. Contents'
  BY <1>0 DEF ChatInv, Contents, ChatRows, NoOrphan, InOrder, ChunksLand, FileHoldsIndexed, Landed,
              Substantive
<1>2. SaysCurrent' => IndexIsCurrent'
  BY <1>0, CurrentStays DEF Substantive
<1> QED
  BY <1>0, <1>1, <1>2, RebuildStep

LEMMA NobodyBeside == ASSUME Apart, rebuild.at \notin {"off", "woken", "index"} PROVE NobodyIndexes
  BY DEF Apart, NobodyIndexes

\* the parts of a state that a rebuild's step is read from
LEMMA RebuildParts ==
  ASSUME ChatInv
  PROVE  /\ chat \in ChatStates /\ document \in DocumentStates /\ rebuild \in RebuildStates /\ store \in StoreStates
         /\ config \in Configs /\ Apart /\ StampsBehind /\ (SaysCurrent => IndexIsCurrent) /\ Contents
         /\ \A at : rebuild' = [rebuild EXCEPT !.at = at] => rebuild'.at = at /\ rebuild'.failed = rebuild.failed
  BY TypesOfParts DEF ChatInv, Claims, RebuildStates

LEMMA BeginsKeeps ==
  ASSUME ChatInv, ~Gaps, rebuild.at \in {"off", "woken"}, NEW done \in BOOLEAN, Begins(done),
         done => document.done /\ store.marker = config
  PROVE  ChatInv'
<1>0. /\ chat \in ChatStates /\ document \in DocumentStates /\ rebuild \in RebuildStates /\ store \in StoreStates
      /\ config \in Configs /\ Apart /\ StampsBehind /\ (SaysCurrent => IndexIsCurrent)
  BY RebuildParts
<1>1. NobodyIndexes /\ UNCHANGED <<chat, others>>
  BY <1>0 DEF Begins, Apart, NobodyIndexes
<1>2. /\ rebuild'.at = "wipe" /\ rebuild' \in RebuildStates
      /\ document'.there = document.there /\ document'.chunks = document.chunks
      /\ document' \in DocumentStates /\ document'.done = done
      /\ store' \in StoreStates /\ store'.marker = config /\ store'.stamp = store.stamp /\ store'.fits = store.fits
  BY <1>0 DEF Begins, DocumentStates, StoreStates, RebuildStates
<1> QED
  <2>1. SaysCurrent' => IndexIsCurrent
    BY <1>0, <1>1, <1>2 DEF SaysCurrent, others
  <2>2. StampsBehind'
    BY <1>0, <1>1, <1>2 DEF StampsBehind, others, StoreStates
  <2> QED
    BY <1>0, <1>1, <1>2, <2>1, <2>2, RebuildMoves

LEMMA RebuildAskedKeeps == ASSUME ChatInv, ~Gaps, RebuildAsked PROVE ChatInv'
  BY BeginsKeeps DEF RebuildAsked

LEMMA ResumedKeeps == ASSUME ChatInv, ~Gaps, Resumed PROVE ChatInv'
<1>1. document \in DocumentStates
  BY RebuildParts
<1>2. (document.done /\ Resumable) \in BOOLEAN
  BY <1>1 DEF DocumentStates, Resumable
<1> QED
  BY <1>2, BeginsKeeps DEF Resumed, Resumable

LEMMA WipeDocumentsKeeps == ASSUME ChatInv, WipeDocuments PROVE ChatInv'
<1>0. /\ chat \in ChatStates /\ document \in DocumentStates /\ rebuild \in RebuildStates /\ store \in StoreStates
      /\ config \in Configs /\ Apart /\ StampsBehind /\ (SaysCurrent => IndexIsCurrent) /\ Contents
  BY RebuildParts
<1>1. UNCHANGED <<store, others, config>> /\ rebuild.at = "wipe"
  BY DEF WipeDocuments, Moves, others
<1>2. NobodyIndexes
  BY <1>0, <1>1, NobodyBeside
<1>3. CASE store.fits
  <2>1. UNCHANGED <<chat, document>> /\ rebuild'.at = "walk" /\ rebuild' \in RebuildStates
    BY <1>0, <1>3 DEF WipeDocuments, Moves, RebuildStates
  <2>2. StampsBehind' /\ (SaysCurrent' => IndexIsCurrent)
    BY <1>0, <1>1, <1>3, <2>1 DEF StampsBehind, SaysCurrent
  <2> QED
    BY <1>0, <1>1, <1>2, <2>1, <2>2, RebuildMoves
<1>4. CASE ~store.fits
  <2>1. /\ chat' = [chat EXCEPT !.document = FALSE] /\ document' = NoDocument /\ rebuild'.at = "resize"
        /\ rebuild' \in RebuildStates /\ document'.done = FALSE
    BY <1>0, <1>4 DEF WipeDocuments, Moves, RebuildStates
  <2>2. /\ chat' \in ChatStates /\ chat'.there = chat.there /\ chat'.said = chat.said
        /\ chat'.small = chat.small /\ chat'.cursor = chat.cursor /\ ~chat'.document
    BY <1>0, <2>1 DEF ChatStates
  <2>3. document' \in DocumentStates /\ document'.chunks = <<>> /\ ~document'.there /\ Landed' = {}
    BY <2>1 DEF DocumentStates, Landed
  <2>4. Contents'
    BY <1>0, <1>1, <2>2, <2>3 DEF Contents, ChatRows, NoOrphan, InOrder, ChunksLand, FileHoldsIndexed, others
  <2>5. StampsBehind' /\ ~SaysCurrent'
    BY <1>0, <1>1, <1>4, <2>1 DEF StampsBehind, SaysCurrent
  <2> QED
    BY <1>0, <1>1, <1>2, <2>1, <2>2, <2>3, <2>4, <2>5, RebuildStep
<1> QED
  BY <1>3, <1>4

LEMMA ResizeVectorsKeeps == ASSUME ChatInv, ResizeVectors PROVE ChatInv'
<1>0. /\ chat \in ChatStates /\ document \in DocumentStates /\ rebuild \in RebuildStates /\ store \in StoreStates
      /\ config \in Configs /\ Apart /\ StampsBehind /\ (SaysCurrent => IndexIsCurrent)
  BY RebuildParts
<1>1. UNCHANGED <<chat, others, config>> /\ rebuild.at = "resize"
  BY DEF ResizeVectors, Moves, others
<1>2. NobodyIndexes
  BY <1>0, <1>1, NobodyBeside
<1>3. /\ rebuild' \in RebuildStates /\ store' \in StoreStates /\ UNCHANGED document
      /\ rebuild'.at = "walk" /\ store'.fits /\ store'.stamp = store.stamp /\ store'.marker = store.marker
  BY <1>0, <1>1 DEF ResizeVectors, Moves, RebuildStates, StoreStates
<1>4. StampsBehind' /\ (SaysCurrent' => IndexIsCurrent)
  BY <1>0, <1>1, <1>3 DEF StampsBehind, SaysCurrent, StoreStates
<1> QED
  BY <1>0, <1>1, <1>2, <1>3, <1>4, RebuildMoves

LEMMA WalkVaultKeeps == ASSUME ChatInv, ~Gaps, WalkVault PROVE ChatInv'
<1>0. /\ chat \in ChatStates /\ document \in DocumentStates /\ rebuild \in RebuildStates /\ store \in StoreStates
      /\ config \in Configs /\ Apart /\ StampsBehind /\ (SaysCurrent => IndexIsCurrent) /\ Contents
  BY RebuildParts
<1>1. UNCHANGED <<chat, document, store, others, config>> /\ rebuild.at = "walk"
  BY DEF WalkVault, Moves, others
<1>2. NobodyIndexes
  BY <1>0, <1>1, NobodyBeside
<1>3. /\ rebuild' \in RebuildStates
      /\ rebuild'.at = "file" \/ (rebuild'.at = "stamp" /\ ~transcript.there)
  BY <1>0 DEF WalkVault, Moves, RebuildStates
<1>4. ~transcript.there => IndexIsCurrent
  <2> SUFFICES ASSUME ~transcript.there PROVE IndexIsCurrent
    OBVIOUS
  <2>1. transcript.turns = {} /\ chat.cursor \in Nat /\ chat.said \in Nat /\ chat.there \in BOOLEAN
    BY <1>0 DEF Contents, ChatRows, ChatStates
  <2>2. chat.cursor = 0
    <3>1. CASE chat.there
      <4>1. chat.cursor > 0 => 1 \in 1..chat.cursor
        BY <2>1
      <4> QED
        BY <1>0, <2>1, <3>1, <4>1 DEF Contents, FileHoldsIndexed
    <3>2. CASE ~chat.there
      BY <1>0, <2>1, <3>2 DEF Contents, ChatRows
    <3> QED
      BY <3>1, <3>2
  <2>3. Substantive(chat.cursor) = {}
    BY <2>2 DEF Substantive
  <2>4. Landed = {}
    BY <1>0, <2>3 DEF Contents, InOrder, ChunksLand
  <2> QED
    BY <2>3, <2>4 DEF IndexIsCurrent
<1>5. StampsBehind' /\ (SaysCurrent' => IndexIsCurrent)
  BY <1>0, <1>1, <1>3, <1>4 DEF StampsBehind, SaysCurrent
<1> QED
  BY <1>0, <1>1, <1>2, <1>3, <1>5, RebuildMoves

LEMMA SkipsFileKeeps == ASSUME ChatInv, SkipsFile PROVE ChatInv'
<1>0. /\ chat \in ChatStates /\ document \in DocumentStates /\ rebuild \in RebuildStates /\ store \in StoreStates
      /\ config \in Configs /\ Apart /\ StampsBehind /\ (SaysCurrent => IndexIsCurrent)
  BY RebuildParts
<1>1. UNCHANGED <<chat, others, config>> /\ rebuild.at = "file" /\ document.done /\ UNCHANGED store
  BY DEF SkipsFile, Moves, others
<1>2. NobodyIndexes
  BY <1>0, <1>1, NobodyBeside
<1>3. /\ rebuild' \in RebuildStates /\ store' \in StoreStates /\ UNCHANGED document
      /\ rebuild'.at = "stamp"
  BY <1>0, <1>1 DEF SkipsFile, Moves, RebuildStates, StoreStates
<1>4. StampsBehind' /\ (SaysCurrent' => IndexIsCurrent)
  BY <1>0, <1>1, <1>3 DEF StampsBehind, SaysCurrent, StoreStates
<1> QED
  BY <1>0, <1>1, <1>2, <1>3, <1>4, RebuildMoves

LEMMA ClearsChatKeeps == ASSUME ChatInv, ClearsChat PROVE ChatInv'
<1>0. /\ chat \in ChatStates /\ document \in DocumentStates /\ rebuild \in RebuildStates /\ store \in StoreStates
      /\ config \in Configs /\ Apart /\ StampsBehind /\ Contents
  BY RebuildParts
<1>1. /\ UNCHANGED <<store, others>> /\ rebuild.at = "file" /\ rebuild'.at = "index"
      /\ chat' = [chat EXCEPT !.cursor = 0] /\ document' = [document EXCEPT !.chunks = <<>>]
      /\ rebuild' \in RebuildStates
  BY <1>0 DEF ClearsChat, Moves, RebuildStates
<1>2. NobodyIndexes
  BY <1>0, <1>1, NobodyBeside
<1>3. /\ chat' \in ChatStates /\ chat'.there = chat.there /\ chat'.said = chat.said /\ chat'.small = chat.small
      /\ chat'.cursor = 0 /\ chat'.document = chat.document
  BY <1>0, <1>1, ChatAssumption DEF ChatStates
<1>4. /\ document' \in DocumentStates /\ document'.chunks = <<>> /\ document'.there = document.there
      /\ Landed' = {}
  <2>1. /\ document' = [there |-> document.there, done |-> document.done, chunks |-> <<>>]
        /\ document.there \in BOOLEAN /\ document.done \in BOOLEAN
    BY <1>0, <1>1 DEF DocumentStates
  <2>2. document' \in DocumentStates
    BY <2>1 DEF DocumentStates
  <2> QED
    BY <2>1, <2>2 DEF Landed
<1>5. chat.said \in Nat /\ Substantive(chat.cursor)' = {}
  BY <1>0, <1>3 DEF ChatStates, Substantive
<1>6. Contents'
  BY <1>0, <1>1, <1>3, <1>4, <1>5
     DEF Contents, ChatRows, NoOrphan, InOrder, ChunksLand, FileHoldsIndexed, others
<1>7. IndexIsCurrent' /\ StampsBehind'
  BY <1>0, <1>1, <1>4, <1>5 DEF IndexIsCurrent, StampsBehind, others
<1> QED
  BY <1>0, <1>1, <1>2, <1>3, <1>4, <1>6, <1>7, RebuildStep

LEMMA SettlesChatKeeps == ASSUME ChatInv, SettlesChat PROVE ChatInv'
<1>0. /\ chat \in ChatStates /\ document \in DocumentStates /\ rebuild \in RebuildStates /\ store \in StoreStates
      /\ config \in Configs /\ Apart /\ StampsBehind /\ (SaysCurrent => IndexIsCurrent) /\ Contents
  BY RebuildParts
<1>1. /\ UNCHANGED <<store, others>> /\ rebuild.at = "settle" /\ rebuild'.at = "stamp"
      /\ rebuild' \in RebuildStates
  BY <1>0 DEF SettlesChat, Moves, RebuildStates
<1>2. NobodyIndexes /\ IndexIsCurrent
  BY <1>0, <1>1, NobodyBeside DEF SaysCurrent
<1>3. StampsBehind'
  BY <1>0, <1>1 DEF StampsBehind, others
<1>4. CASE document.chunks = <<>>
  <2>1. chat' = [chat EXCEPT !.document = FALSE] /\ document' = NoDocument
    BY <1>4 DEF SettlesChat
  <2>2. /\ chat' \in ChatStates /\ chat'.there = chat.there /\ chat'.said = chat.said
        /\ chat'.small = chat.small /\ chat'.cursor = chat.cursor /\ ~chat'.document
    BY <1>0, <2>1 DEF ChatStates
  <2>3. /\ document' \in DocumentStates /\ document'.chunks = <<>> /\ ~document'.there /\ Landed' = {}
    BY <2>1 DEF DocumentStates, Landed
  <2>4. Contents'
    BY <1>0, <1>1, <2>2, <2>3
       DEF Contents, ChatRows, NoOrphan, InOrder, ChunksLand, FileHoldsIndexed, others
  <2>5. IndexIsCurrent'
    BY <1>1, <1>2, <1>4, <2>2, <2>3, CurrentStays DEF Substantive, others
  <2> QED
    BY <1>0, <1>1, <1>2, <1>3, <2>2, <2>3, <2>4, <2>5, RebuildStep
<1>5. CASE document.chunks # <<>>
  <2>1. /\ UNCHANGED chat /\ document' \in DocumentStates /\ document'.there = document.there
        /\ document'.chunks = document.chunks
    BY <1>0, <1>5 DEF SettlesChat, DocumentStates
  <2> QED
    BY <1>0, <1>1, <1>2, <1>3, <2>1, RebuildMoves
<1> QED
  BY <1>4, <1>5

LEMMA FileFailsKeeps == ASSUME ChatInv, FileFails PROVE ChatInv'
<1>0. /\ chat \in ChatStates /\ document \in DocumentStates /\ rebuild \in RebuildStates /\ store \in StoreStates
      /\ config \in Configs /\ Apart /\ StampsBehind /\ (SaysCurrent => IndexIsCurrent)
  BY RebuildParts
<1>1. UNCHANGED <<chat, others, config>> /\ rebuild.at \in {"file", "settle"}
  BY DEF FileFails, Moves, others
<1>2. NobodyIndexes
  BY <1>0, <1>1, NobodyBeside
<1>3. /\ rebuild' \in RebuildStates /\ store' \in StoreStates /\ UNCHANGED document
      /\ rebuild'.at = "stamp" /\ rebuild'.failed /\ UNCHANGED store
  BY <1>0, <1>1 DEF FileFails, Moves, RebuildStates, StoreStates
<1>4. StampsBehind' /\ (SaysCurrent' => IndexIsCurrent)
  BY <1>0, <1>1, <1>3 DEF StampsBehind, SaysCurrent, StoreStates
<1> QED
  BY <1>0, <1>1, <1>2, <1>3, <1>4, RebuildMoves

LEMMA WritesStampKeeps == ASSUME ChatInv, NEW clean \in BOOLEAN, WritesStamp(clean) PROVE ChatInv'
<1>0. /\ chat \in ChatStates /\ document \in DocumentStates /\ rebuild \in RebuildStates /\ store \in StoreStates
      /\ config \in Configs /\ Apart /\ StampsBehind /\ (SaysCurrent => IndexIsCurrent)
  BY RebuildParts
<1>1. UNCHANGED <<chat, others, config>> /\ rebuild.at = "stamp"
  BY DEF WritesStamp, Moves, others
<1>2. NobodyIndexes
  BY <1>0, <1>1, NobodyBeside
<1>3. /\ rebuild' \in RebuildStates /\ store' \in StoreStates /\ UNCHANGED document
      /\ rebuild'.at = "clear" /\ store'.marker = store.marker /\ store'.fits = store.fits
      /\ store'.stamp = store.stamp \/ (~rebuild.failed /\ store'.stamp = config)
  BY <1>0, <1>1 DEF WritesStamp, Moves, RebuildStates, StoreStates
<1>4. StampsBehind' /\ (SaysCurrent' => IndexIsCurrent)
  BY <1>0, <1>1, <1>3 DEF StampsBehind, SaysCurrent, StoreStates
<1> QED
  BY <1>0, <1>1, <1>2, <1>3, <1>4, RebuildMoves

LEMMA ClearsMarkerKeeps == ASSUME ChatInv, ClearsMarker PROVE ChatInv'
<1>0. /\ chat \in ChatStates /\ document \in DocumentStates /\ rebuild \in RebuildStates /\ store \in StoreStates
      /\ config \in Configs /\ Apart /\ StampsBehind /\ (SaysCurrent => IndexIsCurrent)
  BY RebuildParts
<1>1. UNCHANGED <<chat, others, config>> /\ rebuild.at = "clear"
  BY DEF ClearsMarker, Moves, others
<1>2. NobodyIndexes
  BY <1>0, <1>1, NobodyBeside
<1>3. /\ rebuild' \in RebuildStates /\ store' \in StoreStates /\ UNCHANGED document
      /\ rebuild'.at = "off" /\ store'.marker = 0 /\ store'.fits = store.fits /\ store'.stamp = store.stamp
  BY <1>0, <1>1 DEF ClearsMarker, Moves, RebuildStates, StoreStates
<1>4. StampsBehind' /\ (SaysCurrent' => IndexIsCurrent)
  BY <1>0, <1>1, <1>3 DEF StampsBehind, SaysCurrent, StoreStates
<1> QED
  BY <1>0, <1>1, <1>2, <1>3, <1>4, RebuildMoves

LEMMA RebuildErrsKeeps == ASSUME ChatInv, RebuildErrs PROVE ChatInv'
<1>0. /\ chat \in ChatStates /\ document \in DocumentStates /\ rebuild \in RebuildStates /\ store \in StoreStates
      /\ config \in Configs /\ Apart /\ StampsBehind /\ (SaysCurrent => IndexIsCurrent)
  BY RebuildParts
<1>1. UNCHANGED <<chat, others, config>> /\ rebuild.at \in {"wipe", "resize", "walk", "stamp"}
  BY DEF RebuildErrs, Moves, others
<1>2. NobodyIndexes
  BY <1>0, <1>1, NobodyBeside
<1>3. /\ rebuild' \in RebuildStates /\ store' \in StoreStates /\ UNCHANGED document
      /\ rebuild'.at = "off" /\ UNCHANGED store
  BY <1>0, <1>1 DEF RebuildErrs, Moves, RebuildStates, StoreStates
<1>4. StampsBehind' /\ (SaysCurrent' => IndexIsCurrent)
  BY <1>0, <1>1, <1>3 DEF StampsBehind, SaysCurrent, StoreStates
<1> QED
  BY <1>0, <1>1, <1>2, <1>3, <1>4, RebuildMoves

-----------------------------------------------------------------------------
(* The chat is deleted, another model chosen, PM stopped and started. *)

LEMMA DeletesChatKeeps == ASSUME ChatInv, NEW unlinked \in BOOLEAN, DeletesChat(unlinked) PROVE ChatInv'
<1>0. /\ chat \in ChatStates /\ document \in DocumentStates
      /\ transcript \in [there : BOOLEAN, turns : SUBSET AllTurns] /\ Contents
  BY TypesOfParts, RebuildParts DEF ChatInv
<1>1. /\ UNCHANGED <<recording, indexing, rebuild, store, config>>
      /\ ~chat'.there /\ chat'.said = 0 /\ chat'.small = {} /\ chat'.cursor = 0 /\ ~chat'.document
  BY DEF DeletesChat, elsewhere
<1>2. chat' \in ChatStates
  BY ChatAssumption DEF DeletesChat, ChatStates
<1>3. /\ document' \in DocumentStates /\ document'.chunks = <<>> /\ ~document'.there /\ Landed' = {}
      /\ document' = document \/ ~document'.done
  BY <1>0 DEF DeletesChat, DocumentStates, Contents, ChatRows, NoOrphan, Landed
<1>4. /\ transcript' \in [there : BOOLEAN, turns : SUBSET AllTurns]
      /\ transcript' = transcript \/ (~transcript'.there /\ transcript'.turns = {})
  BY <1>0 DEF DeletesChat
<1>5. Substantive(chat.cursor)' = {}
  BY <1>1 DEF Substantive
<1>6. Contents'
  BY <1>0, <1>1, <1>3, <1>4, <1>5 DEF Contents, ChatRows, NoOrphan, InOrder, ChunksLand, FileHoldsIndexed
<1>7. IndexIsCurrent'
  BY <1>3, <1>5 DEF IndexIsCurrent
<1>8. InHand'
  BY <1>1 DEF ChatInv, InHand, AloneInside, CopyHolds, TurnInHand, GoesOn
<1>9. MadeAsNow' /\ StampsBehind' /\ Apart'
  BY <1>1 DEF ChatInv, Claims, MadeAsNow, StampsBehind, Apart
<1>t. ChatTypeOK'
  <2>1. ChatTypeOK
    BY DEF ChatInv
  <2> QED
    BY <1>1, <1>2, <1>3, <1>4, <2>1 DEF ChatTypeOK, ChatStates, DocumentStates
<1> QED
  BY <1>6, <1>7, <1>8, <1>9, <1>t DEF ChatInv, Claims

LEMMA ChoosesModelKeeps == ASSUME ChatInv, ~Gaps, ChoosesModel PROVE ChatInv'
<1>0. rebuild \in RebuildStates /\ store \in StoreStates /\ StampsBehind /\ ChatTypeOK
  BY RebuildParts DEF ChatInv
<1>1. /\ UNCHANGED <<chat, document, transcript, recording, indexing, rebuild>>
      /\ config = 1 /\ config' = 2 /\ rebuild.at \in {"off", "woken"}
      /\ store'.marker = store.marker /\ store'.stamp = store.stamp /\ ~store'.fits /\ store' \in StoreStates
  BY <1>0 DEF ChoosesModel, StoreStates
<1>2. store.stamp = 1 /\ store.marker \in 0..1
  BY <1>0, <1>1 DEF StampsBehind, StoreStates
<1>t. ChatTypeOK'
  BY <1>0, <1>1 DEF ChatTypeOK, StoreStates
<1>3. ~SaysCurrent'
  BY <1>1, <1>2 DEF SaysCurrent
<1>4. StampsBehind'
  BY <1>1, <1>2 DEF StampsBehind
<1>5. MadeAsNow'
  <2>1. \A w \in Indexers : indexing[w].at = "commit" => indexing[w].config \in Configs /\ w = "sweep"
    BY <1>1 DEF ChatInv, Claims, MadeAsNow, Apart
  <2> QED
    BY <1>1, <1>2, <2>1 DEF MadeAsNow
<1>6. Apart'
  BY <1>1 DEF ChatInv, Apart
<1> QED
  BY <1>1, <1>t, <1>3, <1>4, <1>5, <1>6, ContentsStay, InHandStays DEF ChatInv, Claims

LEMMA StopsAndStartsKeeps == ASSUME ChatInv, NEW updated \in BOOLEAN, StopsAndStarts(updated) PROVE ChatInv'
<1>0. /\ store \in StoreStates /\ config \in Configs /\ StampsBehind /\ ChatTypeOK
      /\ (SaysCurrent => IndexIsCurrent)
  BY RebuildParts DEF ChatInv
<1>1. /\ UNCHANGED <<chat, document, transcript, store>> /\ recording' = NoRecording
      /\ \A w \in Indexers : indexing'[w] = NoIndexing
      /\ rebuild'.at \in {"off", "woken"} /\ config' \in {config, 2}
  BY DEF StopsAndStarts
<1>t. ChatTypeOK'
  <2>1. /\ recording' \in [at : {"idle", "read", "write", "row"}, turn : 0..MaxTurns, copy : SUBSET AllTurns]
        /\ indexing' \in [Indexers -> IndexingStates] /\ rebuild' \in RebuildStates /\ config' \in Configs
    BY <1>0, <1>1, NoneTyped, ChatAssumption DEF StopsAndStarts, RebuildStates
  <2> QED
    BY <1>0, <1>1, <2>1 DEF ChatTypeOK, IndexingStates, RebuildStates
<1>2. SaysCurrent' => config' = config /\ SaysCurrent
  BY <1>0, <1>1 DEF SaysCurrent, StampsBehind, StoreStates
<1>3. SaysCurrent' => IndexIsCurrent'
  BY <1>0, <1>1, <1>2, CurrentStays DEF Substantive
<1>4. StampsBehind'
  BY <1>0, <1>1 DEF StampsBehind, StoreStates
<1>5. InHand' /\ MadeAsNow' /\ Apart'
  BY <1>1 DEF InHand, AloneInside, CopyHolds, TurnInHand, GoesOn, MadeAsNow, Apart
<1> QED
  BY <1>1, <1>t, <1>3, <1>4, <1>5, ContentsStay DEF ChatInv, Claims

-----------------------------------------------------------------------------
(* The invariant, and what it says of the index. *)

LEMMA ChatInvAtFirst == ChatInit => ChatInv
<1> SUFFICES ASSUME ChatInit PROVE ChatInv
  OBVIOUS
<1>1. /\ chat \in ChatStates /\ document \in DocumentStates /\ indexing \in [Indexers -> IndexingStates]
      /\ rebuild \in RebuildStates /\ store \in StoreStates /\ config \in Configs
      /\ transcript \in [there : BOOLEAN, turns : SUBSET AllTurns]
      /\ recording \in [at : {"idle", "read", "write", "row"}, turn : 0..MaxTurns, copy : SUBSET AllTurns]
  BY ChatAssumption, NoneTyped DEF ChatInit, ChatStates, DocumentStates, RebuildStates, StoreStates
<1>2. ChatTypeOK
  BY <1>1, TypesOfParts
<1>3. Landed = {} /\ Substantive(chat.cursor) = {} /\ chat.cursor = 0 /\ chat.said = 0
  BY DEF ChatInit, Landed, Substantive
<1>4. Contents
  BY <1>3 DEF ChatInit, Contents, ChatRows, NoOrphan, InOrder, ChunksLand, FileHoldsIndexed
<1>5. InHand /\ Apart
  BY DEF ChatInit, InHand, AloneInside, CopyHolds, TurnInHand, GoesOn, Apart
<1>6. IndexIsCurrent
  BY <1>3 DEF IndexIsCurrent
<1>7. Claims
  BY <1>6 DEF ChatInit, Claims, MadeAsNow, StampsBehind
<1> QED
  BY <1>2, <1>4, <1>5, <1>7 DEF ChatInv

LEMMA ChatInvKept == ChatInv /\ ~Gaps /\ [ChatNext]_chatVars => ChatInv'
<1> SUFFICES ASSUME ChatInv, ~Gaps, [ChatNext]_chatVars PROVE ChatInv'
  OBVIOUS
<1>1. CASE UNCHANGED chatVars
  <2>1. UNCHANGED <<chat, document, transcript, recording, indexing, rebuild, store, config>>
    BY <1>1 DEF chatVars
  <2> QED
    BY <2>1, ContentsStay, InHandStays, ClaimsStay DEF ChatInv, ChatTypeOK, Apart
<1>2. CASE ChatNext
  <2>1. CASE \E small \in BOOLEAN : Says(small)
    BY <2>1, SaysKeeps
  <2>2. CASE ReadsFile \/ WritesFile \/ EnsuresSession \/ RecordFails \/ SweepBegins
    BY <2>2, ReadsFileKeeps, WritesFileKeeps, EnsuresSessionKeeps, RecordFailsKeeps, SweepBeginsKeeps
  <2>3. CASE \E w \in Indexers :
               ReconcileReads(w) \/ ReconcileWrites(w) \/ Resolves(w) \/ Commits(w) \/ IndexingFails(w)
    BY <2>3, ReconcileReadsKeeps, ReconcileWritesKeeps, ResolvesKeeps, CommitsKeeps, IndexingFailsKeeps
  <2>4. CASE RebuildAsked \/ Resumed \/ WipeDocuments \/ ResizeVectors \/ WalkVault
    BY <2>4, RebuildAskedKeeps, ResumedKeeps, WipeDocumentsKeeps, ResizeVectorsKeeps, WalkVaultKeeps
  <2>5. CASE SkipsFile \/ ClearsChat \/ IndexesChat \/ SettlesChat \/ FileFails
    BY <2>5, SkipsFileKeeps, ClearsChatKeeps, IndexesChatKeeps, SettlesChatKeeps, FileFailsKeeps
  <2>6. CASE (\E clean \in BOOLEAN : WritesStamp(clean)) \/ ClearsMarker \/ RebuildErrs
    BY <2>6, WritesStampKeeps, ClearsMarkerKeeps, RebuildErrsKeeps
  <2>7. CASE \/ \E unlinked \in BOOLEAN : DeletesChat(unlinked)
             \/ ChoosesModel
             \/ \E updated \in BOOLEAN : StopsAndStarts(updated)
    BY <2>7, DeletesChatKeeps, ChoosesModelKeeps, StopsAndStartsKeeps
  <2> QED
    BY <1>2, <2>1, <2>2, <2>3, <2>4, <2>5, <2>6, <2>7 DEF ChatNext
<1> QED
  BY <1>1, <1>2

(* Without the four gaps the invariant holds at every step. *)
THEOREM ChatInvariant == ASSUME ~Gaps PROVE ChatSpec => []ChatInv
  BY ChatInvAtFirst, ChatInvKept, PTL DEF ChatSpec

(* A chat's index matches the chat at every step of a turn's recording, a   *)
(* sweep, a rebuild, a delete and a crash, for a chat of any length.        *)
THEOREM IndexMatchesSafe == ASSUME ~Gaps PROVE ChatSpec => []IndexMatches
<1>1. ChatInv => IndexMatches
  BY DEF ChatInv, Contents, Claims, IndexMatches, StampIsTrue, SaysCurrent
<1> QED
  BY <1>1, ChatInvariant, PTL
=============================================================================
