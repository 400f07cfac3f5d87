------------------------------ MODULE MCFilings ------------------------------
(***************************************************************************)
(* Instances of VaultWrites for TLC.  Everything that can happen beside a  *)
(* pass is too much at once, so a behaviour has one of five mixtures, each *)
(* with bounds of its own: the cfg's; `Promoted`, passes beside            *)
(* promotions; `Rebuilt`, a pass beside promotions and rebuilds without a  *)
(* crash, and `Restarted`, those and syncs with a crash and without a      *)
(* pass; and `Unread`, a pass beside syncs and rebuilds and a crash, with  *)
(* a manifest that cannot always be read.  Nothing tells the documents     *)
(* apart.                                                                  *)
(***************************************************************************)
EXTENDS VaultWrites, TLC

VARIABLE which

Promoted == INSTANCE VaultWrites WITH
  MaxPasses <- 2, MaxSeen <- 1, Beside <- {"promote"}
Rebuilt == INSTANCE VaultWrites WITH
  MaxPasses <- 1, MaxSeen <- 1, MaxCrashes <- 0, Beside <- {"promote", "rebuild"}
Restarted == INSTANCE VaultWrites WITH
  MaxPasses <- 0, MaxSeen <- 1, Beside <- {"sync", "promote", "rebuild"}
Unread == INSTANCE VaultWrites WITH
  MaxPasses <- 1, MaxSeen <- 1, Beside <- {"sync", "rebuild", "unread"}

mixtureVars == <<which, filingVars>>

Alike == Permutations(Docs)

MixtureInit ==
  which \in {"filings", "promotions", "rebuilds", "restarts", "unread"} /\ FilingInit
MixtureNext ==
  /\ \/ which = "filings" /\ FilingNext
     \/ which = "promotions" /\ Promoted!FilingNext
     \/ which = "rebuilds" /\ Rebuilt!FilingNext
     \/ which = "restarts" /\ Restarted!FilingNext
     \/ which = "unread" /\ Unread!FilingNext
  /\ UNCHANGED which
MixtureSpec == MixtureInit /\ [][MixtureNext]_mixtureVars

=============================================================================
