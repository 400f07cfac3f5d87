--------------------------- MODULE CalendarMirror ---------------------------
(***************************************************************************)
(* One Google event and its row in PM's mirror: the saves of PM's that a   *)
(* fetch must not undo (calendar_write/reconcile.rs), the change check     *)
(* that says when a fetch is due (calendar_fresh.rs), the past, which is   *)
(* fetched apart (calendar_history.rs), and the passes that do it          *)
(* (commands/calendars.rs).                                                *)
(*                                                                         *)
(* Versions are numbered as Google makes them: a later one has a later     *)
(* "updated" and another etag.  A list of Google's may lag behind, by less *)
(* than the Lag PM allows it.  How long PM backs off, iCal feeds, Outlook, *)
(* the months loaded ahead and the event's own ageing out of the live band *)
(* are left out; a failed request is a pass that ends there.               *)
(***************************************************************************)
EXTENDS Integers, Sequences

CONSTANTS
  Lag,        \* calendar_fresh::lag, in ticks
  Drops,      \* an incomplete listing drops a row that is back after PM deleted it
  MaxTime,    \* bound: when the clock stops
  MaxEvents   \* bound: the changes of the event (its making by PM among them),
              \* the requests that fail or come back incomplete and the
              \* restarts, together

ASSUME MirrorAssumption ==
  /\ Lag \in Nat /\ Drops \in BOOLEAN
  /\ MaxTime \in Nat /\ MaxEvents \in Nat \ {0}

VARIABLES
  log,     \* Google: each version's time and where it is
  listed,  \* the version Google's lists show
  now,     \* Google's clock
  mirror,  \* the version of the row PM holds; 0: no row
  entry,   \* RecentWrites' entry for the row
  landing, \* what Google has answered to a save, and PM has not recorded
  since,   \* CalendarFresh.since
  absorbed,\* CalendarFresh.absorbed
  history, \* HistoryState, of its time what the next check counts from
  due,     \* a full sync has left the past to a job of its own
  pass,    \* who holds the sync lock, and how far it is
  fails    \* events that changed nothing at Google, and the making

mirrorVars == <<log, listed, now, mirror, entry, landing, since, absorbed, history, due, pass, fails>>
google == <<log, listed, now>>
books == <<since, absorbed, history, due>>

Bands == {"live", "past"}
Never == -1
Version == 0..MaxEvents + 1
Time == 0..MaxTime

Where(v) == IF v = 0 THEN "gone" ELSE log[v].where
Latest == Len(log)
Current == IF Where(Latest) = "gone" THEN 0 ELSE Latest

Saved == {"upsert", "create"}
Happens == Latest - 1 + fails < MaxEvents
NoEntry == [kind |-> "none", v |-> 0]
Idle == [who |-> "none", step |-> "idle", band |-> "live", older |-> FALSE, marked |-> FALSE,
         stale |-> FALSE, saw |-> 0, whole |-> TRUE, at |-> 0, items |-> {}]

MirrorTypeOK ==
  /\ log \in Seq([at : Time, where : Bands \cup {"gone"}]) /\ Latest \in Version
  /\ listed \in Version /\ now \in Time /\ mirror \in Version
  /\ entry \in [kind : {"none", "upsert", "create", "delete"}, v : Version]
  /\ landing \in [kind : {"none", "upsert", "create", "delete", "mark"}, v : Version]
  /\ since \in Time \cup {Never} /\ absorbed \subseteq Version
  /\ history \in [from : Time \cup {Never}, stale : BOOLEAN]
  /\ due \in BOOLEAN /\ fails \in 0..MaxEvents
  /\ pass \in [who : {"none", "full", "check", "job"}, band : Bands,
               step : {"idle", "ask", "judge", "read", "write", "note"},
               older : BOOLEAN, marked : BOOLEAN, stale : BOOLEAN, whole : BOOLEAN,
               saw : Version, at : Time, items : SUBSET Version]

(* PM has just started.  The event is there, or PM is just making it (a     *)
(* split's new series), which no list shows yet.                            *)
MirrorInit ==
  /\ now = 0
  /\ \/ \E where \in Bands : log = <<[at |-> 0, where |-> where]>>
        /\ listed = 1 /\ landing = NoEntry /\ fails = 0
     \/ log = <<[at |-> 0, where |-> "live"]>>
        /\ listed = 0 /\ landing = [kind |-> "create", v |-> 1] /\ fails = 1
  /\ mirror = 0 /\ entry = NoEntry
  /\ since = Never /\ absorbed = {} /\ history = [from |-> Never, stale |-> FALSE]
  /\ due = FALSE /\ pass = Idle

-----------------------------------------------------------------------------
(* Google.  The lists catch up with a change before Lag is over.  Bound: so *)
(* does a pass of PM's, and the answer to a save: times are asked of Google *)
(* before what they stand for is listed, so a pass that takes longer counts *)
(* from an earlier time.                                                    *)
Answered == landing.kind = "none" /\ pass.step = "idle"
Tick ==
  /\ now < MaxTime /\ now' = now + 1 /\ Answered
  /\ \A v \in listed + 1..Latest : log[v].at >= now' - Lag
  /\ UNCHANGED <<log, listed, mirror, entry, landing, books, pass, fails>>
CatchesUp ==
  /\ listed < Latest /\ listed' \in listed + 1..Latest
  /\ UNCHANGED <<log, now, mirror, entry, landing, books, pass, fails>>
Changes(where) ==
  /\ Happens /\ log' = Append(log, [at |-> now, where |-> where])
  /\ UNCHANGED <<listed, now>>
OtherChanges(where) ==
  /\ Changes(where) /\ (where = "gone" => Current # 0)
  /\ UNCHANGED <<mirror, entry, landing, books, pass, fails>>

(* A save of PM's: Google answers, then PM records what it answered, in the *)
(* mirror and for the next fetches (record), or fails to.                   *)
Saves(kind, v) == landing.kind = "none" /\ landing' = [kind |-> kind, v |-> v] /\ UNCHANGED <<mirror, entry, books, pass, fails>>
PmSaves == \E where \in Bands : mirror # 0 /\ Current # 0 /\ Changes(where) /\ Saves("upsert", Latest + 1)
PmDeletes == mirror # 0 /\ Current # 0 /\ Changes("gone") /\ Saves("delete", Latest)
(* Every occurrence of a series changed: only the live ones are landed, the *)
(* past ones, of which this is one, are marked (history_behind).            *)
PmChangesPast ==
  /\ mirror # 0 /\ Where(Latest) = "past" /\ Changes("past") /\ Saves("mark", Latest + 1)

(* Mutant: a mark is remembered as a saved row. *)
RecordedAlways ==
  /\ landing.kind # "none"
  /\ mirror' = landing.v /\ entry' = landing
  /\ pass' = [pass EXCEPT !.older = pass.step \in {"read", "write"}]
  /\ UNCHANGED history

Entered == IF landing.kind = "upsert" /\ entry.kind = "create" THEN "create" ELSE landing.kind
Recorded ==
  /\ landing.kind \in {"upsert", "create", "delete"}
  /\ mirror' = IF landing.kind = "delete" THEN 0 ELSE landing.v
  /\ entry' = [kind |-> Entered, v |-> landing.v]
  /\ pass' = [pass EXCEPT !.older = pass.step \in {"read", "write"}]
  /\ UNCHANGED history
Marked ==
  /\ landing.kind = "mark"
  /\ history' = [history EXCEPT !.stale = history.from # Never]
  /\ pass' = [pass EXCEPT !.marked = pass.who = "job" \/ pass.step = "judge" \/ pass.band = "past"]
  /\ UNCHANGED <<mirror, entry>>
Unrecorded == landing.kind # "none" /\ UNCHANGED <<mirror, entry, pass, history>>
Lands ==
  /\ Recorded \/ Marked \/ Unrecorded
  /\ landing' = NoEntry
  /\ UNCHANGED <<google, since, absorbed, due, fails>>

(* Ten minutes, by either clock. *)
Expires ==
  /\ entry.kind # "none" /\ entry' = NoEntry
  /\ UNCHANGED <<google, mirror, landing, books, pass, fails>>

-----------------------------------------------------------------------------
(* merge_band and replace_band, for a listing that shows version v (0: not  *)
(* the event) of a band.                                                    *)
Holds(band, v) == Where(v) = band

(* Mutant: a fetch that began before the save settles it. *)
SettlesAlways(older) == TRUE

Settles(older) == ~older

Merged(v, band, whole, older) ==
  LET stays(row) == [row |-> row, drop |-> FALSE, settled |-> FALSE]
      wins(row)  == [row |-> row, drop |-> FALSE, settled |-> Settles(older)]
      hidden     == [row |-> 0, drop |-> ~whole, settled |-> FALSE]
  IN CASE entry.kind = "none"                        -> stays(v)
       [] entry.kind = "delete" /\ v > entry.v       -> wins(v)
       [] entry.kind = "delete" /\ v <= entry.v      -> hidden
       [] entry.kind \in Saved /\ v >= entry.v       -> wins(v)
       [] entry.kind \in Saved /\ v \in 1..entry.v-1 -> stays(entry.v)
       [] entry.kind \in Saved /\ v = 0 /\ ~Holds(band, entry.v) -> stays(0)
       [] entry.kind = "upsert" /\ v = 0 /\ Holds(band, entry.v) /\ whole /\ Settles(older) -> wins(0)
       [] OTHER                                      -> stays(entry.v)
Replaced(row, band, whole) ==
  IF row # 0 THEN row ELSE IF whole /\ Holds(band, mirror) THEN 0 ELSE mirror

Goes(p) == pass' = p
Fetches(who, band, items) ==
  [Idle EXCEPT !.who = who, !.step = "read", !.band = band, !.items = items,
               !.stale = pass.stale, !.marked = band = "past" /\ pass.marked]
Incomplete == pass.band = "live" /\ Happens /\ (Drops \/ mirror = 0 \/ entry.kind # "delete")
Read ==
  /\ pass.step = "read"
  /\ \E whole \in IF Incomplete THEN BOOLEAN ELSE {TRUE} :
       /\ fails' = IF whole THEN fails ELSE fails + 1
       /\ \E shows \in {listed} \cup (IF whole THEN {} ELSE {0}) :
            Goes([pass EXCEPT !.step = "write", !.whole = whole, !.at = now,
                              !.saw = shows])
  /\ UNCHANGED <<google, mirror, entry, landing, books>>
Write ==
  LET shown == IF Holds(pass.band, pass.saw) THEN pass.saw ELSE 0
      m     == Merged(shown, pass.band, pass.whole, pass.older)
  IN
  /\ pass.step = "write" /\ Goes([pass EXCEPT !.step = "note", !.saw = 0, !.older = FALSE])
  /\ mirror' = IF m.drop THEN 0 ELSE Replaced(m.row, pass.band, pass.whole)
  /\ entry' = IF m.settled THEN NoEntry ELSE entry
  /\ UNCHANGED <<google, landing, books, fails>>

-----------------------------------------------------------------------------
(* calendar_fresh: H moves up to Google's time, less the lag.               *)
(* Mutant: the next check counts from Google's time itself. *)
BackNone(t) == t

Back(t) == IF t < Lag THEN 0 ELSE t - Lag
Pruned(seen, h) == {v \in seen : v # 0 /\ log[v].at >= h}
FetchedAt(t, items) == since' = Back(t) /\ absorbed' = Pruned(absorbed \cup items, Back(t))
Later(t) == IF Back(t) > since THEN Back(t) ELSE since
UnchangedAt(t) == since' = Later(t) /\ absorbed' = Pruned(absorbed, Later(t))

ListedSince(h) == IF listed > 0 /\ log[listed].at >= h THEN {listed} ELSE {}

(* sync_history: the past is fetched when it is stale, or a change reaches  *)
(* it, as the mirror holds the event.                                       *)
Reaches(v) == (Where(mirror) = "past" /\ mirror # v) \/ (mirror = 0 /\ Where(v) # "gone")
CheckedHistory(t) == history' = [from |-> Back(t), stale |-> pass.marked]

FullBegins ==
  /\ pass.step = "idle" /\ Goes(Fetches("full", "live", {}))
  /\ UNCHANGED <<google, mirror, entry, landing, books, fails>>
NoteFull ==
  /\ pass.step = "note" /\ pass.who = "full" /\ Goes(Idle)
  /\ IF pass.whole THEN FetchedAt(pass.at, {}) /\ due' = TRUE ELSE UNCHANGED <<since, absorbed, due>>
  /\ UNCHANGED <<google, mirror, entry, landing, history, fails>>

JobBegins ==
  /\ pass.step = "idle" /\ due /\ due' = FALSE
  /\ Goes(IF history.from = Never \/ history.stale
            THEN Fetches("job", "past", {}) ELSE [Idle EXCEPT !.who = "job", !.step = "ask"])
  /\ UNCHANGED <<google, mirror, entry, landing, since, absorbed, history, fails>>
JobAsks ==
  /\ pass.step = "ask" /\ pass.who = "job"
  /\ Goes([pass EXCEPT !.step = "judge", !.at = now, !.items = ListedSince(history.from)])
  /\ UNCHANGED <<google, mirror, entry, landing, books, fails>>

CheckBegins ==
  /\ pass.step = "idle"
  /\ Goes([IF since = Never THEN Fetches("check", "live", {})
                            ELSE [Idle EXCEPT !.who = "check", !.step = "ask"]
          EXCEPT !.stale = history.stale])
  /\ UNCHANGED <<google, mirror, entry, landing, books, fails>>
CheckAsks ==
  LET items == ListedSince(since) IN
  /\ pass.step = "ask" /\ pass.who = "check"
  /\ IF items \subseteq absorbed
       THEN /\ UnchangedAt(now)
            /\ Goes(IF pass.stale THEN [Fetches("check", "past", {}) EXCEPT !.marked = FALSE] ELSE Idle)
       ELSE Goes(Fetches("check", "live", items)) /\ UNCHANGED <<since, absorbed>>
  /\ UNCHANGED <<google, mirror, entry, landing, history, due, fails>>
NoteCheck ==
  /\ pass.step = "note" /\ pass.who = "check" /\ pass.band = "live"
  /\ IF pass.whole
       THEN /\ FetchedAt(pass.at, pass.items)
            /\ Goes(IF history.from # Never /\ (pass.stale \/ pass.items # {})
                      THEN [Idle EXCEPT !.who = "check", !.step = "judge", !.items = pass.items] ELSE Idle)
       ELSE UNCHANGED <<since, absorbed>> /\ Goes(Idle)
  /\ UNCHANGED <<google, mirror, entry, landing, history, due, fails>>

Judge ==
  /\ pass.step = "judge"
  /\ IF (pass.who = "check" /\ history.stale) \/ \E v \in pass.items : Reaches(v)
       THEN Goes(Fetches(pass.who, "past", {})) /\ UNCHANGED history
       ELSE Goes(Idle) /\ (IF pass.who = "job" THEN CheckedHistory(pass.at) ELSE UNCHANGED history)
  /\ UNCHANGED <<google, mirror, entry, landing, since, absorbed, due, fails>>
NotePast ==
  /\ pass.step = "note" /\ pass.band = "past"
  /\ CheckedHistory(pass.at) /\ Goes(Idle)
  /\ UNCHANGED <<google, mirror, entry, landing, since, absorbed, due, fails>>

PassFails ==
  /\ pass.step \in {"ask", "read"} /\ Happens /\ fails' = fails + 1 /\ Goes(Idle)
  /\ UNCHANGED <<google, mirror, entry, landing, books>>
Restarts ==
  /\ Happens /\ fails' = fails + 1 /\ Goes(Idle)
  /\ entry' = NoEntry /\ landing' = NoEntry /\ due' = FALSE
  /\ since' = Never /\ absorbed' = {}
  /\ UNCHANGED <<google, mirror, history>>

Steps == JobAsks \/ CheckAsks \/ Judge \/ Read \/ Write \/ NoteFull \/ NoteCheck \/ NotePast
MirrorNext ==
  \/ Tick \/ CatchesUp \/ \E where \in Bands \cup {"gone"} : OtherChanges(where)
  \/ PmSaves \/ PmDeletes \/ PmChangesPast \/ Lands \/ Expires
  \/ FullBegins \/ JobBegins \/ CheckBegins \/ Steps \/ PassFails \/ Restarts
MirrorFairness ==
  /\ WF_mirrorVars(CatchesUp) /\ WF_mirrorVars(Lands) /\ WF_mirrorVars(Expires)
  /\ SF_mirrorVars(FullBegins) /\ SF_mirrorVars(JobBegins) /\ WF_mirrorVars(Steps)
MirrorSpec == MirrorInit /\ [][MirrorNext]_mirrorVars /\ MirrorFairness
-----------------------------------------------------------------------------
(* While a save is remembered, a fetch never shows an older version than    *)
(* the one saved, nor brings back the version PM deleted; and it takes the  *)
(* saved row away, or forgets the save, only when its listing was as new as *)
(* the save, or began after it and lists the event outside the band: a list *)
(* that lags behind a move reads so (merge_band, against record, which does *)
(* not wait for the fetch in hand).                                         *)
Undoes ==
  \/ entry.kind \in Saved /\ mirror' \in 1..entry.v - 1
  \/ entry.kind = "delete" /\ mirror' \in 1..entry.v
  \/ /\ entry.kind \in Saved /\ (entry' = NoEntry \/ (mirror # 0 /\ mirror' = 0))
     /\ pass.saw < entry.v /\ (pass.older \/ Holds(pass.band, pass.saw))
SavedStays == [][~(pass.step = "write" /\ pass'.step = "note" /\ Undoes)]_mirrorVars

(* A change of an old event that the mirror lacks is never behind the time  *)
(* the next history check counts from, so it will be listed: set_history_   *)
(* checked moves that time on only past what the mirror has.  Of an event   *)
(* that never was in the live band; see EverythingShows for the others.     *)
StillListed ==
  /\ \A v \in 1..Latest : Where(v) \in {"past", "gone"}
  /\ mirror # Current /\ history.from # Never
  => history.stale \/ log[Latest].at >= history.from

(* When Google stops changing, the mirror comes to show what Google has,    *)
(* with full syncs going on (the poll) and no window on screen to check in  *)
(* between.  The code does not keep this for an event moved into the past   *)
(* between the listing of the live band and the history check.              *)
EverythingShows == <>[](mirror = Current)
=============================================================================
