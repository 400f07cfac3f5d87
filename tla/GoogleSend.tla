----------------------------- MODULE GoogleSend -----------------------------
(***************************************************************************)
(* One write sent to Google, and what its sender makes of the answer:      *)
(* google_io::send (commands/calendar_edit.rs), which retries a request    *)
(* once where classify::should_retry lets it, no_answer, and answer_of.    *)
(*                                                                         *)
(* The caller's machine hears one answer per request: [kind, v, maybe,     *)
(* body].                                                                  *)
(*   kind   unsent, lost, or a reply                                       *)
(*   v      what the reply means (classify.rs).  refused stands for every  *)
(*          verdict final before anything is applied, rate limits included *)
(*   maybe  maybe_applied of a reply, retried of a lost one                *)
(*   body   whether a 2xx came with Google's copy, which is then the       *)
(*          event as this step leaves it                                   *)
(***************************************************************************)
EXTENDS GoogleCalendar

VARIABLE out   \* the write that is out, with the sender's attempts; else Idle

Request(e, op, t) == [e |-> e, op |-> op, tag |-> t, attempt |-> 1, maybe |-> FALSE]
RequestType == [e : Steps, op : Ops, tag : Nat, attempt : {1, 2}, maybe : BOOLEAN]
Idle == Request(1, Plan[1], 0)
CopyOf(r) == [e |-> r.e, op |-> r.op, tag |-> r.tag]

Unsent == [kind |-> "unsent", v |-> "none", maybe |-> FALSE, body |-> FALSE]
Lost(retried) == [kind |-> "lost", v |-> "none", maybe |-> retried, body |-> FALSE]
Reply(v, maybe) == [kind |-> "reply", v |-> v, maybe |-> maybe, body |-> v = "ok"]
NoBody(a) == [a EXCEPT !.body = FALSE]

Verdicts == {"ok", "conflict", "gone", "duplicate", "refused", "server_error", "other"}
Replies == {Reply(v, m) : v \in Verdicts, m \in BOOLEAN}
Answers == {Unsent, Lost(TRUE), Lost(FALSE)} \cup Replies
             \cup {NoBody(Reply("ok", m)) : m \in BOOLEAN}

(* A copy Google may have taken without PM knowing. *)
MayLand == flight' = flight \cup {CopyOf(out)} /\ UNCHANGED <<ev, edits, deleted>>

(* No sign-in, or no connection: this attempt never went, though one before *)
(* it may have been taken.                                                  *)
NeverSent(a) ==
  /\ a = IF out.maybe THEN Lost(FALSE) ELSE Unsent
  /\ UNCHANGED google

LostAnswer(a) == a = Lost(out.maybe) /\ MayLand

(* A server error, and no retry left or allowed. *)
ServerError(a) ==
  /\ out.op \in Inserts \/ out.attempt = 2
  /\ a = Reply("server_error", TRUE)
  /\ MayLand

Refused(a) == a = Reply("refused", out.maybe) /\ UNCHANGED google

(* An answer classify can't read. *)
Unreadable(a) == a = Reply("other", out.maybe) /\ MayLand

(* An insert's calendar is not there for this account. *)
NoCalendar(a) ==
  /\ out.op \in Inserts
  /\ a = Reply("gone", out.maybe)
  /\ UNCHANGED google

Taken(a) ==
  /\ \/ a = Reply("ok", out.maybe)
     \/ "unreadable" \in Faults /\ a = NoBody(Reply("ok", out.maybe))
  /\ Accepts(out)
  /\ \E e \in Effects(out.op, ev[out.e]) : ev' = [ev EXCEPT ![out.e] = e]
  /\ UNCHANGED <<flight, edits, deleted>>

Rejected(a) ==
  /\ ~Accepts(out)
  /\ \E v \in Refusals(out) : a = Reply(v, out.maybe)
  /\ UNCHANGED google

(* The sender has an answer for its caller. *)
Attempt(a) ==
  \/ NeverSent(a) \/ LostAnswer(a) \/ ServerError(a) \/ Refused(a)
  \/ Unreadable(a) \/ NoCalendar(a) \/ Taken(a) \/ Rejected(a)

(* It tries once more: after a server error, which may have been applied,   *)
(* only where an If-Match makes a second copy harmless; after a rate limit, *)
(* refused before Google reads it, whatever the request.                    *)
TriesAgain ==
  /\ out.attempt = 1
  /\ \/ /\ out.op \notin Inserts
        /\ out' = [out EXCEPT !.attempt = 2, !.maybe = TRUE]
        /\ MayLand
     \/ /\ out' = [out EXCEPT !.attempt = 2]
        /\ UNCHANGED google

(* Whether the attempt that brought the answer reached Google's calendar. *)
Reached(a) ==
  /\ a # Unsent
  /\ a.v # "refused"
  /\ ~(out.maybe /\ a = Lost(FALSE))
=============================================================================
