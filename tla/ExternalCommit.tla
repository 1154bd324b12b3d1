---------------------------- MODULE ExternalCommit ----------------------------
(***************************************************************************)
(* Joining a group by external commit (src/crypto/src/mls/external_commit. *)
(* rs): the joining client's pending-group partition and group partition   *)
(* in the keystore, its in-memory group store, the host that calls join,   *)
(* merge and clear on the Delivery Service's answers, crashes of the       *)
(* joining process, and an existing member that validates the external     *)
(* commit with the host's authorization callbacks.                         *)
(*                                                                         *)
(* A joiner's group is abstracted to the attempt (external commit) it was  *)
(* built from and its epoch.                                               *)
(***************************************************************************)
EXTENDS Naturals

CONSTANTS
    MaxEpoch,     \* bound on the DS epoch
    MaxAttempts,  \* bound on join_by_external_commit calls
    MaxCrashes,   \* bound on crashes of the joining process
    None,         \* no pending row
    NoGroup       \* no group row / no group in memory

VARIABLES
    dsEpoch,     \* the group's epoch at the DS
    dsJoined,    \* the attempt whose external commit the DS accepted (0: none)
    sent,        \* external commits in flight to the DS
    pendingRow,  \* the pending-group partition row for this group
    groupRow,    \* the group partition row (mls_group_persist)
    mem,         \* MlsCentral.mls_groups entry
    attempts,    \* join_by_external_commit calls so far
    resp,        \* what the host has heard about its latest attempt
    pc,          \* "idle", or "delete" inside merge after the insert
    crashes,     \* crashes so far
    cbSet,       \* callbacks installed on the member's MlsCentral
    existing,    \* the host's client_is_existing_group_user answer
    authorize,   \* the host's user_authorize answer
    memberView,  \* the member's outcome for the accepted external commit
    memberSender \* what the member validated with: callbacks installed, a sender client id

vars == <<dsEpoch, dsJoined, sent, pendingRow, groupRow, mem, attempts, resp, pc,
          crashes, cbSet, existing, authorize, memberView, memberSender>>

State == [att: 1..MaxAttempts, epoch: 0..MaxEpoch]
Commit == [att: 1..MaxAttempts, epoch: 0..MaxEpoch]

TypeOK ==
    /\ dsEpoch \in 0..MaxEpoch /\ dsJoined \in 0..MaxAttempts
    /\ sent \subseteq Commit
    /\ pendingRow \in Commit \cup {None}
    /\ groupRow \in State \cup {NoGroup} /\ mem \in State \cup {NoGroup}
    /\ attempts \in 0..MaxAttempts
    /\ resp \in {"idle", "waiting", "accepted", "rejected", "timeout", "merged"}
    /\ pc \in {"idle", "delete"} /\ crashes \in 0..MaxCrashes
    /\ cbSet \in BOOLEAN /\ existing \in BOOLEAN /\ authorize \in BOOLEAN
    /\ memberView \in {"none", "admitted", "CallbacksNotSet", "UnauthorizedExternalCommit"}
    /\ memberSender \in [cb: BOOLEAN, sender: BOOLEAN]

Init ==
    /\ dsEpoch = 0 /\ dsJoined = 0 /\ sent = {}
    /\ pendingRow = None /\ groupRow = NoGroup /\ mem = NoGroup
    /\ attempts = 0 /\ resp = "idle" /\ pc = "idle" /\ crashes = 0
    /\ cbSet \in BOOLEAN /\ existing \in BOOLEAN /\ authorize \in BOOLEAN
    /\ memberView = "none" /\ memberSender = [cb |-> FALSE, sender |-> FALSE]
-----------------------------------------------------------------------------
(***************************************************************************)
(* join_by_external_commit from a public group state of epoch e (possibly  *)
(* stale): the group is saved to the pending partition, overwriting any   *)
(* earlier attempt, and the commit goes to the DS.  The host joins a group *)
(* it does not hold and retries only once it heard nothing or a refusal.  *)
(***************************************************************************)
\* Variant: the pending row is written only when none exists.
JoinByExternalCommit_KeepPending(e) ==
    /\ mem = NoGroup /\ pc = "idle"
    /\ resp \in {"idle", "rejected", "timeout"}
    /\ attempts < MaxAttempts /\ e <= dsEpoch
    /\ attempts' = attempts + 1
    /\ pendingRow' = IF pendingRow = None THEN [att |-> attempts + 1, epoch |-> e] ELSE pendingRow
    /\ sent' = sent \cup {[att |-> attempts + 1, epoch |-> e]}
    /\ resp' = "waiting"
    /\ UNCHANGED <<dsEpoch, dsJoined, groupRow, mem, pc, crashes, cbSet, existing,
                   authorize, memberView, memberSender>>

JoinByExternalCommit(e) ==
    /\ mem = NoGroup /\ pc = "idle"
    /\ resp \in {"idle", "rejected", "timeout"}
    /\ attempts < MaxAttempts /\ e <= dsEpoch
    /\ attempts' = attempts + 1
    /\ pendingRow' = [att |-> attempts + 1, epoch |-> e]
    /\ sent' = sent \cup {[att |-> attempts + 1, epoch |-> e]}
    /\ resp' = "waiting"
    /\ UNCHANGED <<dsEpoch, dsJoined, groupRow, mem, pc, crashes, cbSet, existing,
                   authorize, memberView, memberSender>>

\* The host stops waiting; the request may still reach the DS.
Timeout ==
    /\ resp = "waiting"
    /\ resp' = "timeout"
    /\ UNCHANGED <<dsEpoch, dsJoined, sent, pendingRow, groupRow, mem, attempts, pc,
                   crashes, cbSet, existing, authorize, memberView, memberSender>>

(***************************************************************************)
(* merge_pending_group_from_external_commit, up to the insert: load the    *)
(* pending row (MissingKeyInStore if there is none), merge_pending_commit, *)
(* from_mls_group persists the group, the store takes it.  The host calls *)
(* it once the DS accepted its latest attempt.                             *)
(***************************************************************************)
\* Variant: the group is stored at the epoch of the pending commit itself.
MergePendingGroup_SameEpoch ==
    LET g == [att |-> pendingRow.att, epoch |-> pendingRow.epoch]
    IN
    /\ pc = "idle" /\ resp = "accepted"
    /\ pendingRow # None
    /\ groupRow' = g
    /\ mem' = g
    /\ pc' = "delete"
    /\ UNCHANGED <<dsEpoch, dsJoined, sent, pendingRow, attempts, resp, crashes, cbSet,
                   existing, authorize, memberView, memberSender>>

MergePendingGroup ==
    LET g == [att |-> pendingRow.att, epoch |-> pendingRow.epoch + 1]
    IN
    /\ pc = "idle" /\ resp = "accepted"
    /\ pendingRow # None
    /\ groupRow' = g
    /\ mem' = g
    /\ pc' = "delete"
    /\ UNCHANGED <<dsEpoch, dsJoined, sent, pendingRow, attempts, resp, crashes, cbSet,
                   existing, authorize, memberView, memberSender>>

\* Variant: the pending row is never deleted.
DeletePendingGroup_KeepRow ==
    /\ pc = "delete"
    /\ pc' = "idle"
    /\ resp' = "merged"
    /\ UNCHANGED <<dsEpoch, dsJoined, sent, pendingRow, groupRow, mem, attempts, crashes, cbSet,
                   existing, authorize, memberView, memberSender>>

\* The rest of the merge: mls_pending_groups_delete, in a separate keystore call.
DeletePendingGroup ==
    /\ pc = "delete"
    /\ pendingRow' = None
    /\ pc' = "idle"
    /\ resp' = "merged"
    /\ UNCHANGED <<dsEpoch, dsJoined, sent, groupRow, mem, attempts, crashes, cbSet,
                   existing, authorize, memberView, memberSender>>

\* clear_pending_group_from_external_commit, when the host gives up.
ClearPendingGroup ==
    /\ pc = "idle" /\ resp \in {"rejected", "timeout"}
    /\ pendingRow' = None
    /\ resp' = "idle"
    /\ UNCHANGED <<dsEpoch, dsJoined, sent, groupRow, mem, attempts, pc, crashes, cbSet,
                   existing, authorize, memberView, memberSender>>

(***************************************************************************)
(* Once joined, decrypt_message merges the group's next commit and         *)
(* persists it (conversation.rs); a group built from another attempt       *)
(* than the accepted one cannot stage it.                                  *)
(***************************************************************************)
DecryptCommit ==
    /\ pc = "idle"
    /\ mem # NoGroup /\ mem.att = dsJoined /\ mem.epoch < dsEpoch
    /\ mem' = [mem EXCEPT !.epoch = @ + 1]
    /\ groupRow' = [mem EXCEPT !.epoch = @ + 1]
    /\ UNCHANGED <<dsEpoch, dsJoined, sent, pendingRow, attempts, resp, pc, crashes, cbSet,
                   existing, authorize, memberView, memberSender>>

\* A crash of the joining process; restore_groups reloads the group partition.
Crash ==
    /\ crashes < MaxCrashes
    /\ crashes' = crashes + 1
    /\ mem' = groupRow
    /\ pc' = "idle"
    /\ UNCHANGED <<dsEpoch, dsJoined, sent, pendingRow, groupRow, attempts, resp, cbSet,
                   existing, authorize, memberView, memberSender>>
-----------------------------------------------------------------------------
(***************************************************************************)
(* The DS accepts a commit for its current epoch and refuses the others;   *)
(* the answer reaches the host only for its latest attempt (the request of *)
(* an earlier one has timed out).  Members commit and advance the epoch.   *)
(***************************************************************************)
DSAccept(x) ==
    /\ x.epoch = dsEpoch /\ dsEpoch < MaxEpoch /\ dsJoined = 0
    /\ dsEpoch' = dsEpoch + 1
    /\ dsJoined' = x.att
    /\ sent' = sent \ {x}
    /\ resp' = IF x.att = attempts /\ resp = "waiting" THEN "accepted" ELSE resp
    /\ UNCHANGED <<pendingRow, groupRow, mem, attempts, pc, crashes, cbSet, existing,
                   authorize, memberView, memberSender>>

DSReject(x) ==
    /\ x.epoch # dsEpoch \/ dsJoined # 0
    /\ sent' = sent \ {x}
    /\ resp' = IF x.att = attempts /\ resp = "waiting" THEN "rejected" ELSE resp
    /\ UNCHANGED <<dsEpoch, dsJoined, pendingRow, groupRow, mem, attempts, pc, crashes,
                   cbSet, existing, authorize, memberView, memberSender>>

MemberCommit ==
    /\ dsEpoch < MaxEpoch
    /\ dsEpoch' = dsEpoch + 1
    /\ UNCHANGED <<dsJoined, sent, pendingRow, groupRow, mem, attempts, resp, pc, crashes,
                   cbSet, existing, authorize, memberView, memberSender>>

\* MlsCentral::callbacks installs the host's authorization callbacks.
SetCallbacks ==
    /\ ~cbSet
    /\ cbSet' = TRUE
    /\ UNCHANGED <<dsEpoch, dsJoined, sent, pendingRow, groupRow, mem, attempts, resp, pc,
                   crashes, existing, authorize, memberView, memberSender>>

(***************************************************************************)
(* validate_external_commit: an external-init commit needs callbacks       *)
(* (CallbacksNotSet), a known sender, then client_is_existing_group_user   *)
(* and user_authorize, each refusal being UnauthorizedExternalCommit.      *)
(***************************************************************************)
\* Variant: a refusal of client_is_existing_group_user is reported as CallbacksNotSet.
ValidateExternalCommit_WrongError(isExternalInit, senderKnown) ==
    CASE ~isExternalInit -> "Ok"
      [] ~cbSet          -> "CallbacksNotSet"
      [] ~senderKnown    -> "UnauthorizedExternalCommit"
      [] ~existing       -> "CallbacksNotSet"
      [] ~authorize      -> "UnauthorizedExternalCommit"
      [] OTHER           -> "Ok"

\* Variant: the user_authorize (role) check is missing.
ValidateExternalCommit_NoRoleCheck(isExternalInit, senderKnown) ==
    CASE ~isExternalInit -> "Ok"
      [] ~cbSet          -> "CallbacksNotSet"
      [] ~senderKnown    -> "UnauthorizedExternalCommit"
      [] ~existing       -> "UnauthorizedExternalCommit"
      [] OTHER           -> "Ok"

ValidateExternalCommit(isExternalInit, senderKnown) ==
    CASE ~isExternalInit -> "Ok"
      [] ~cbSet          -> "CallbacksNotSet"
      [] ~senderKnown    -> "UnauthorizedExternalCommit"
      [] ~existing       -> "UnauthorizedExternalCommit"
      [] ~authorize      -> "UnauthorizedExternalCommit"
      [] OTHER           -> "Ok"

(* The tests of external_commit.rs in which Alice decrypts Bob's external  *)
(* commit: the host's callback answers and Alice's outcome.  A refusal     *)
(* test sets one answer false and leaves the other at its default, so it   *)
(* holds for either default.                                                *)
\* join_by_external_commit_should_succeed: passes only with callbacks answering true.
TestJoinSucceeds ==
    {[host |-> [cb |-> TRUE, existing |-> TRUE, authorize |-> TRUE], expect |-> "admitted"]}
\* join_by_external_commit_should_fail_when_sender_user_not_in_group.
TestSenderNotInGroup ==
    {[host |-> [cb |-> TRUE, existing |-> FALSE, authorize |-> a], expect |-> "UnauthorizedExternalCommit"]
        : a \in BOOLEAN}
\* join_by_external_commit_should_fail_when_sender_lacks_role.
TestSenderLacksRole ==
    {[host |-> [cb |-> TRUE, existing |-> e, authorize |-> FALSE], expect |-> "UnauthorizedExternalCommit"]
        : e \in BOOLEAN}
ValidationTests == TestJoinSucceeds \cup TestSenderNotInGroup \cup TestSenderLacksRole

\* An existing member processes the accepted external commit.
MemberProcessExternalCommit(senderKnown) ==
    LET r == ValidateExternalCommit(TRUE, senderKnown)
    IN
    /\ dsJoined # 0 /\ memberView = "none"
    /\ memberView' = IF r = "Ok" THEN "admitted" ELSE r
    /\ memberSender' = [cb |-> cbSet, sender |-> senderKnown]
    /\ UNCHANGED <<dsEpoch, dsJoined, sent, pendingRow, groupRow, mem, attempts, resp, pc,
                   crashes, cbSet, existing, authorize>>
-----------------------------------------------------------------------------
Next ==
    \/ \E e \in 0..MaxEpoch : JoinByExternalCommit(e)
    \/ Timeout \/ MergePendingGroup \/ DeletePendingGroup \/ ClearPendingGroup
    \/ DecryptCommit \/ Crash \/ MemberCommit \/ SetCallbacks
    \/ \E x \in sent : DSAccept(x) \/ DSReject(x)
    \/ \E s \in BOOLEAN : MemberProcessExternalCommit(s)

Spec == Init /\ [][Next]_vars

(***************************************************************************)
(* The host calls merge_pending_group_from_external_commit once the DS     *)
(* accepted its attempt, and the merge is one async call: its insert and   *)
(* its delete of the pending row are weakly fair.  Nothing else is forced: *)
(* the DS, members, retries and clears may stop at any time.               *)
(***************************************************************************)
FairSpec == Spec /\ WF_vars(MergePendingGroup) /\ WF_vars(DeletePendingGroup)
-----------------------------------------------------------------------------
(***************************************************************************)
(* The joiner only ever holds the group of the attempt the DS accepted:    *)
(* join_by_external_commit overwrites the pending row on every retry and  *)
(* the host merges only on the answer to its latest attempt, while earlier *)
(* attempts may still be in flight.                                        *)
(***************************************************************************)
MergedIsAccepted == mem # NoGroup => mem.att = dsJoined

(***************************************************************************)
(* validate_external_commit admits a joiner only when callbacks are        *)
(* installed and both client_is_existing_group_user and user_authorize     *)
(* answered true (spec 4.4.3 step 3).                                      *)
(***************************************************************************)
AdmittedOnlyIfAuthorized == memberView = "admitted" => cbSet /\ existing /\ authorize

(***************************************************************************)
(* validate_external_commit answers Bob's external commit as the tests of  *)
(* external_commit.rs assert: admitted when the callbacks accept, and      *)
(* UnauthorizedExternalCommit (not another error) when the sender is not a *)
(* group user or lacks the role.                                           *)
(***************************************************************************)
AgreesWithValidationTests ==
    (memberView # "none" /\ memberSender.sender) =>
        \A t \in ValidationTests :
            t.host = [cb |-> memberSender.cb, existing |-> existing, authorize |-> authorize] =>
                memberView = t.expect

(***************************************************************************)
(* Once the DS accepted the host's attempt, the joiner eventually holds    *)
(* the group and the pending partition no longer has its row, even when    *)
(* the process crashes between the insert and the delete of the merge and *)
(* the merge is called again on the surviving pending row.                 *)
(***************************************************************************)
AcceptedJoinCompletes == resp = "accepted" ~> (mem # NoGroup /\ pendingRow = None)

(***************************************************************************)
(* The keystore rows implement the spec's external-join state machine      *)
(* (section 4.4.1): the group partition's row means Stable at its epoch,   *)
(* otherwise a pending row means PendingExternalCommit; the Stable epoch   *)
(* never moves backwards and merge moves pending to main "in one           *)
(* transaction".                                                           *)
(***************************************************************************)
JoinPhase ==
    IF groupRow # NoGroup THEN "stable" ELSE IF pendingRow # None THEN "pending" ELSE "none"
JoinEpoch ==
    IF groupRow # NoGroup THEN groupRow.epoch
    ELSE IF pendingRow # None THEN pendingRow.epoch ELSE 0

Abstract == INSTANCE ExternalJoin WITH phase <- JoinPhase, epoch <- JoinEpoch

ImplementsExternalJoin == Abstract!Spec
=============================================================================
