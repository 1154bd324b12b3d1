----------------------------- MODULE ExternalJoin -----------------------------
(***************************************************************************)
(* What the spec (section 4.4.1) promises about joining a group by an      *)
(* external commit, seen from the joining client's durable state: the      *)
(* group is unknown, PendingExternalCommit, or Stable at an epoch that     *)
(* only moves forward.                                                     *)
(***************************************************************************)
EXTENDS Naturals

CONSTANT MaxEpoch

VARIABLES
    phase,   \* "none", "pending" or "stable"
    epoch    \* the epoch the pending commit was built at, or the Stable epoch

Init == phase = "none" /\ epoch = 0

\* join_by_external_commit: a (new) pending commit built at any epoch.
Join == /\ phase \in {"none", "pending"}
        /\ phase' = "pending"
        /\ epoch' \in 0..MaxEpoch

\* merge_pending_group_from_external_commit: Stable one epoch above the commit's.
Merge == /\ phase = "pending"
         /\ phase' = "stable"
         /\ epoch' = epoch + 1

\* clear_pending_group_from_external_commit
Clear == /\ phase = "pending"
         /\ phase' = "none"
         /\ epoch' = 0

\* Commits of the group advance a Stable group by one epoch.
Advance == /\ phase = "stable"
           /\ epoch' = epoch + 1
           /\ UNCHANGED phase

Next == Join \/ Merge \/ Clear \/ Advance

Spec == Init /\ [][Next]_<<phase, epoch>>
=============================================================================
