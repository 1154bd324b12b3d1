------------------------------ MODULE E2eiState ------------------------------
(***************************************************************************)
(* MlsConversation::e2ei_conversation_state (src/crypto/src/e2e_identity/  *)
(* state.rs): the fold over the group's members that classifies a         *)
(* conversation as Verified, Degraded or NotEnabled, checked against the   *)
(* classification rule of the spec (section 4.5) over every member list    *)
(* of up to MaxMembers leaves, while members join and leave and            *)
(* certificates run out of their validity window.                          *)
(***************************************************************************)
EXTENDS Naturals, Sequences, SequencesExt

CONSTANT MaxMembers   \* bound on the group size

ASSUME MaxMembers \in Nat \ {0}

VARIABLE leaves       \* the leaf credential of each member, in group.members() order

(***************************************************************************)
(* A leaf credential, abstracted to what the fold looks at:                *)
(*   "basic"         a Basic credential (parse_leaf_cert gives Ok(None))   *)
(*   "unparsable"    an X.509 credential whose leaf fails to parse (Err)   *)
(*   "valid"         parses, extract_identity Ok, is_time_valid Ok(true)   *)
(*   "expired"       parses, identity Ok, is_time_valid Ok(false) or Err   *)
(*   "badId"         parses, extract_identity Err, time-valid              *)
(*   "badIdExpired"  parses, extract_identity Err, not time-valid          *)
(***************************************************************************)
Leaf == {"basic", "unparsable", "valid", "expired", "badId", "badIdExpired"}
States == {"Verified", "Degraded", "NotEnabled"}

ParsesLeafCert(l) == l \in {"valid", "expired", "badId", "badIdExpired"}
InvalidIdentity(l) == l \in {"badId", "badIdExpired"}
IsTimeValid(l) == l \in {"valid", "badId"}

\* Variant: the identity extraction result is not looked at.
FoldStep_NoIdentityCheck(acc, l) ==
    IF ParsesLeafCert(l)
    THEN LET isInvalid == ~IsTimeValid(l)
         IN  [state       |-> IF isInvalid THEN "Degraded" ELSE acc.state,
              one_valid   |-> acc.one_valid \/ ~isInvalid,
              all_expired |-> acc.all_expired /\ ~IsTimeValid(l)]
    ELSE [state |-> "Degraded", one_valid |-> acc.one_valid, all_expired |-> FALSE]

\* One step of the fold: the accumulator is (state, one_valid, all_expired).
FoldStep(acc, l) ==
    IF ParsesLeafCert(l)
    THEN LET isInvalid == InvalidIdentity(l) \/ ~IsTimeValid(l)
         IN  [state       |-> IF isInvalid THEN "Degraded" ELSE acc.state,
              one_valid   |-> acc.one_valid \/ ~isInvalid,
              all_expired |-> acc.all_expired /\ ~IsTimeValid(l)]
    ELSE [state |-> "Degraded", one_valid |-> acc.one_valid, all_expired |-> FALSE]

\* Variant: the all-expired arm of the final match is missing.
Conclude_NoAllExpired(acc) ==
    CASE ~acc.one_valid -> "NotEnabled"
      [] OTHER          -> acc.state

\* The final match on (one_valid, all_expired).
Conclude(acc) ==
    CASE ~acc.one_valid /\ acc.all_expired -> "Degraded"
      [] ~acc.one_valid                    -> "NotEnabled"
      [] OTHER                             -> acc.state

e2ei_conversation_state(ls) ==
    Conclude(FoldLeft(FoldStep,
                      [state |-> "Verified", one_valid |-> FALSE, all_expired |-> TRUE],
                      ls))

(***************************************************************************)
(* The rule of the spec: each member is valid, invalid (an X.509 leaf      *)
(* whose identity extraction fails or that is outside its validity         *)
(* window) or basic (any other leaf); the group is Verified when all are   *)
(* valid, NotEnabled when all are basic, and Degraded otherwise.           *)
(***************************************************************************)
SpecClass(l) ==
    IF l = "valid" THEN "valid"
    ELSE IF ParsesLeafCert(l) THEN "invalid" ELSE "basic"

SpecState(ls) ==
    LET classes == {SpecClass(ls[i]) : i \in DOMAIN ls}
    IN  CASE classes = {"valid"} -> "Verified"
          [] classes = {"basic"} -> "NotEnabled"
          [] OTHER               -> "Degraded"

(***************************************************************************)
(* The unit tests of state.rs, each run for a Basic and an X.509 case: the *)
(* group's leaves in members() order (the creator first) and the state the *)
(* test asserts.                                                           *)
(***************************************************************************)
\* uniform_conversation_should_be_degraded_when_basic: both members share the case's type.
TestUniform ==
    {[members |-> <<"basic", "basic">>, expect |-> "NotEnabled"],
     [members |-> <<"valid", "valid">>, expect |-> "Verified"]}
\* heterogeneous_conversation_should_be_degraded: the creator takes the other type.
TestHeterogeneous ==
    {[members |-> <<"valid", "basic">>, expect |-> "Degraded"],
     [members |-> <<"basic", "valid">>, expect |-> "Degraded"]}
\* should_be_degraded_when_one_expired (X.509 only): the creator rotates to a certificate that expires.
TestOneExpired == {[members |-> <<"expired", "valid">>, expect |-> "Degraded"]}
\* should_be_degraded_when_all_expired (X.509 only): the lone creator's rotated certificate expires.
TestAllExpired == {[members |-> <<"expired">>, expect |-> "Degraded"]}

UnitTests == TestUniform \cup TestHeterogeneous \cup TestOneExpired \cup TestAllExpired

Groups == UNION {[1..n -> Leaf] : n \in 1..MaxMembers}

TypeOK == leaves \in Groups

\* A group starts with its creator, whatever its credential.
Init == \E l \in Leaf : leaves = <<l>>

\* A client joins with any kind of credential (add_members, welcome, external commit).
Join(l) ==
    /\ Len(leaves) < MaxMembers
    /\ leaves' = Append(leaves, l)

\* A member is removed; the group keeps at least its local client.
Leave(i) ==
    /\ Len(leaves) > 1
    /\ leaves' = [j \in 1..Len(leaves) - 1 |-> IF j < i THEN leaves[j] ELSE leaves[j + 1]]

\* A certificate leaves its validity window as the clock advances.
Expire(i) ==
    /\ leaves[i] \in {"valid", "badId"}
    /\ leaves' = [leaves EXCEPT ![i] = IF @ = "valid" THEN "expired" ELSE "badIdExpired"]

Next ==
    \/ \E l \in Leaf : Join(l)
    \/ \E i \in DOMAIN leaves : Leave(i) \/ Expire(i)

Spec == Init /\ [][Next]_leaves
-----------------------------------------------------------------------------
(***************************************************************************)
(* e2ei_conversation_state agrees with the spec's rule on every group with *)
(* a valid member (Verified exactly when all are valid, Degraded when a    *)
(* Basic, unparsable, expired or identity-less leaf sits next to a valid   *)
(* one) and on every group with no X.509 leaf that parses (NotEnabled),    *)
(* whatever order group.members() yields the leaves in.                    *)
(***************************************************************************)
AgreesUnlessNoneValid ==
    (SpecState(leaves) = "NotEnabled" \/ \E i \in DOMAIN leaves : leaves[i] = "valid") =>
        e2ei_conversation_state(leaves) = SpecState(leaves)

(***************************************************************************)
(* Whenever joins, leaves and expiries bring the group to the composition *)
(* of a unit test of state.rs, the classifier gives the state that test    *)
(* asserts: NotEnabled for an all-Basic group, Verified for an all-valid   *)
(* one, Degraded for a mixed group, for one expired member next to a valid *)
(* one and for a group whose only member has expired.                      *)
(***************************************************************************)
AgreesWithUnitTests ==
    \A t \in UnitTests : leaves = t.members => e2ei_conversation_state(leaves) = t.expect

(***************************************************************************)
(* The doc comment of E2eiConversationState and spec section 4.5: the      *)
(* state is NotEnabled only when every member is still Basic; a group with *)
(* an invalid certificate and no valid one is Degraded.                    *)
(***************************************************************************)
NotEnabledOnlyIfAllBasic ==
    e2ei_conversation_state(leaves) = "NotEnabled" => SpecState(leaves) = "NotEnabled"
=============================================================================
