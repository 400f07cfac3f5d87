------------------------------- MODULE MCPlans -------------------------------
(***************************************************************************)
(* The other calendar writes.  The other plans the code builds, each on an *)
(* instance of its own: the run of a shape is SeriesRun with that shape's  *)
(* constants.  And the writes to an event that does not repeat, of no plan *)
(* (OneWrites), which share nothing with a run.                            *)
(***************************************************************************)
EXTENDS OneWrites

VARIABLES
  shape, ev, flight, edits, deleted,
  at, phase, ends, tag, copies, out, why, rollback, outcome, count

runVars == <<ev, flight, edits, deleted,
             at, phase, ends, tag, copies, out, why, rollback, outcome, count>>
all == <<shape, runVars, writesVars>>

Of(s) == INSTANCE SeriesRun WITH
           Plan <- s.plan, MaxEdits <- s.edits, Faults <- s.faults, Touched <- s.touched,
           Deletable <- s.deletable, Retry <- s.retry, CountCap <- 8

AllFaults == {"ignores", "halves", "unreadable", "bare"}
OneStep(kind) ==
  [plan |-> <<kind>>, edits |-> 2, faults |-> AllFaults, touched |-> {1}, deletable |-> {1},
   retry |-> FALSE]

Shapes ==
  {OneStep("retime"), OneStep("delete"), OneStep("create"), OneStep("cancel"),
   [OneStep("create") EXCEPT !.retry = TRUE],
   [OneStep("cut") EXCEPT !.plan = <<"cut", "cancel">>, !.edits = 1],
   [plan |-> <<"insert", "cut">>, edits |-> 1, faults |-> AllFaults,
    touched |-> {1, 2}, deletable |-> {1, 2}, retry |-> FALSE],
   [plan |-> <<"insert", "cut", "carry", "cancel">>, edits |-> 1, faults |-> {"ignores"},
    touched |-> {4}, deletable |-> {3}, retry |-> FALSE]}

\* a plan of no shape, which is not run
NoPlan == OneStep("cut")

Init == WritesInit /\ \E s \in Shapes \cup {NoPlan} : shape = s /\ Of(s)!Init

Next ==
  /\ \/ \E s \in Shapes : shape = s /\ Of(s)!Next /\ UNCHANGED writesVars
     \/ shape = NoPlan /\ WritesNext /\ UNCHANGED runVars
  /\ UNCHANGED shape

Spec == Init /\ [][Next]_all

(* NotDoneIsProof, of every shape: a step reported not done is not in       *)
(* Google and no copy of it can come to be.                                 *)
NotDoneIsProofOfAll ==
  \A s \in Shapes : shape = s => Of(s)!NotDoneIsProof

(* FewCopies, of every shape: the requests and copies of one step stay      *)
(* within what run.rs promises.                                             *)
FewCopiesOfAll ==
  \A s \in Shapes : shape = s => Of(s)!FewCopies

(* CarriedFirst, of every shape: an occurrence of the original is cancelled *)
(* only once its change is in the new series.                               *)
CarriedFirstOfAll ==
  \A s \in Shapes : shape = s => Of(s)!CarriedFirst

(* NothingOverwritten, of every shape: PM's own change lands only on what   *)
(* the plan was made on.                                                    *)
NothingOverwrittenOfAll ==
  [][\A s \in Shapes : shape = s => \A i \in DOMAIN s.plan : Of(s)!OverwritesNothing(i)]_all
=============================================================================
