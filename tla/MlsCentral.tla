------------------------------ MODULE MlsCentral ------------------------------
(***************************************************************************)
(* MlsCentral (src/crypto/src/mls/mod.rs): the process-wide owner of the   *)
(* MLS client, the in-memory group store and the keystore handle.  Two     *)
(* instances run over ONE keystore, the main app and its extension (the    *)
(* scenario of restore_from_disk's doc comment and of the mirror test).    *)
(* Spec section 5: the instances may not use the keystore at the same time *)
(* and the host hands it over; restore_from_disk "has to be used to        *)
(* synchronize instances".                                                  *)
(*                                                                         *)
(* A group's state is abstracted to its epoch.  Every mutating conversation *)
(* operation persists its result (spec section 5), so it is one step that  *)
(* writes the in-memory group and its row.                                 *)
(***************************************************************************)
EXTENDS Naturals, FiniteSets

CONSTANTS
    Instances,     \* MlsCentral objects sharing the keystore (app, extension)
    Convs,         \* conversation ids
    ClientIds,     \* client ids mls_init may be given
    MaxEpoch,      \* bound on a group's epoch
    HostRestores,  \* the host calls restore_from_disk on taking the keystore over
    Configurations, \* the MlsCentralConfiguration::try_new inputs the host may pass (a subset of Configuration)
    Keystore,      \* the shared on-disk keystore
    InMemory,      \* the instances the host may build with try_new_in_memory
    None

ASSUME MaxEpoch \in Nat /\ HostRestores \in BOOLEAN /\ InMemory \subseteq Instances

VARIABLES
    live,       \* live[i]: MlsCentral i was built by try_new and not yet closed or wiped
    client,     \* client[i]: mls_client, None before mls_init (deferred init)
    groups,     \* groups[i][c]: the epoch of c in i's group store, None if absent
    callbacks,  \* callbacks[i]: authorization callbacks installed
    inMem,      \* inMem[i]: i was built by try_new_in_memory over a private volatile keystore
    disk,       \* disk[s][c]: the epoch of c's group row in keystore s, None if there is none
    holder,     \* the instance the host lets use the keystore
    stale,      \* the holder was handed the keystore and has not reloaded it
    lastTry     \* the MlsCentralConfiguration::try_new the last step made: its input and result, None for any other step

vars == <<live, client, groups, callbacks, inMem, disk, holder, stale, lastTry>>

Epochs == 0..MaxEpoch
\* The shared keystore and one volatile keystore per instance.
Stores == Instances \cup {Keystore}
NoGroups == [c \in Convs |-> None]

(***************************************************************************)
(* MlsCentralConfiguration::try_new.  A string is abstracted to what its   *)
(* checks tell apart: empty, whitespace only, or text; the client id to    *)
(* absent, empty or given; the entropy seed to its length against          *)
(* EntropySeed::EXPECTED_LEN.  The ciphersuites are not checked (an empty  *)
(* list is accepted) and are left out.                                     *)
(***************************************************************************)
Text == {"empty", "blank", "text"}
Configuration ==
    [store_path: Text, identity_key: Text,
     client_id: {"none", "empty", "given"}, entropy: {"none", "short", "exact", "long"}]
Results == {"Ok", "MalformedIdentifier(store_path)", "MalformedIdentifier(identity_key)",
            "MalformedIdentifier(client_id)", "panic"}
ASSUME Configurations \subseteq Configuration

\* Variant: the fields are tested with is_empty, without trim.
ConfigurationTryNew_NoTrim(cfg) ==
    IF cfg.store_path = "empty" THEN "MalformedIdentifier(store_path)"
    ELSE IF cfg.identity_key = "empty" THEN "MalformedIdentifier(identity_key)"
    ELSE IF cfg.client_id = "empty" THEN "MalformedIdentifier(client_id)"
    ELSE IF cfg.entropy = "short" THEN "panic"
    ELSE "Ok"

\* The early returns in order; &seed[..EXPECTED_LEN] panics on a short seed and truncates a long one.
ConfigurationTryNew(cfg) ==
    IF cfg.store_path # "text" THEN "MalformedIdentifier(store_path)"
    ELSE IF cfg.identity_key # "text" THEN "MalformedIdentifier(identity_key)"
    ELSE IF cfg.client_id = "empty" THEN "MalformedIdentifier(client_id)"
    ELSE IF cfg.entropy = "short" THEN "panic"
    ELSE "Ok"

\* The client ids MlsCentral::try_new may load for an accepted configuration.
ConfiguredIds(cfg) == IF cfg.client_id = "given" THEN ClientIds ELSE {None}

(* The configuration tests of mod.rs and the doc tests of try_new: the     *)
(* input and the results the test accepts.                                 *)
\* can_create_from_valid_configuration and the doc test that should work.
TestValid == [cfg |-> [store_path |-> "text", identity_key |-> "text", client_id |-> "given", entropy |-> "none"],
              expect |-> {"Ok"}]
\* store_path_should_not_be_empty_nor_blank: the path is " ".
TestBlankStorePath == [cfg |-> [TestValid.cfg EXCEPT !.store_path = "blank"],
                       expect |-> {"MalformedIdentifier(store_path)"}]
\* identity_key_should_not_be_empty_nor_blank: the key is " ".
TestBlankIdentityKey == [cfg |-> [TestValid.cfg EXCEPT !.identity_key = "blank"],
                         expect |-> {"MalformedIdentifier(identity_key)"}]
\* client_id_should_not_be_empty: the id is "".
TestEmptyClientId == [cfg |-> [TestValid.cfg EXCEPT !.client_id = "empty"],
                      expect |-> {"MalformedIdentifier(client_id)"}]
\* The doc test that should fail: every string empty, any MalformedIdentifier.
TestAllEmpty == [cfg |-> [store_path |-> "empty", identity_key |-> "empty", client_id |-> "empty", entropy |-> "none"],
                 expect |-> {"MalformedIdentifier(store_path)", "MalformedIdentifier(identity_key)",
                             "MalformedIdentifier(client_id)"}]
ConfigTests == {TestValid, TestBlankStorePath, TestBlankIdentityKey, TestEmptyClientId, TestAllEmpty}

TypeOK ==
    /\ live \in [Instances -> BOOLEAN]
    /\ client \in [Instances -> ClientIds \cup {None}]
    /\ groups \in [Instances -> [Convs -> Epochs \cup {None}]]
    /\ callbacks \in [Instances -> BOOLEAN]
    /\ inMem \in [Instances -> BOOLEAN]
    /\ disk \in [Stores -> [Convs -> Epochs \cup {None}]]
    /\ holder \in Instances
    /\ stale \in BOOLEAN
    /\ lastTry \in [cfg: Configurations, result: Results] \cup {None}

Init ==
    /\ live = [i \in Instances |-> FALSE]
    /\ client = [i \in Instances |-> None]
    /\ groups = [i \in Instances |-> NoGroups]
    /\ callbacks = [i \in Instances |-> FALSE]
    /\ inMem = [i \in Instances |-> FALSE]
    /\ disk = [s \in Stores |-> NoGroups]
    /\ holder \in Instances
    /\ stale = FALSE
    /\ lastTry = None

(***************************************************************************)
(* restore_groups: a fresh store filled from mls_groups_restore; the loop  *)
(* breaks on the first failed try_insert.  The map's iteration order is    *)
(* arbitrary and GroupStore is outside this repository, so the groups     *)
(* loaded are any subset of the rows.                                      *)
(***************************************************************************)
RestoreGroups(s, loaded) == [c \in Convs |-> IF c \in loaded THEN disk[s][c] ELSE None]
Rows(s) == {c \in Convs : disk[s][c] # None}

\* The keystore MlsCryptoProvider opened for i: its own volatile one when in_memory is set.
Store(i) == IF inMem[i] THEN i ELSE Keystore

\* The host only calls into an instance that holds the shared keystore, once it
\* is in sync; an in-memory instance shares nothing and is always usable.
Ready(i) == live[i] /\ (inMem[i] \/ (holder = i /\ ~stale))

\* GroupStore::get_fetch: the in-memory group, else the row hydrated from the keystore.
Lookup(i, c) == IF groups[i][c] # None THEN groups[i][c] ELSE disk[Store(i)][c]

\* MlsCentralConfiguration::try_new refuses the configuration (or panics): nothing is opened.
ConfigRejected(i) ==
    /\ ~live[i]
    /\ \E cfg \in Configurations :
          /\ ConfigurationTryNew(cfg) # "Ok"
          /\ lastTry' = [cfg |-> cfg, result |-> ConfigurationTryNew(cfg)]
    /\ UNCHANGED <<live, client, groups, callbacks, inMem, disk, holder, stale>>

\* try_new / try_new_in_memory on an accepted configuration: the keystore s is
\* opened, the client loaded if an id is configured, the groups restored.
Open(i, s) ==
    /\ \E cfg \in Configurations, loaded \in SUBSET Rows(s) :
          /\ ConfigurationTryNew(cfg) = "Ok"
          /\ lastTry' = [cfg |-> cfg, result |-> "Ok"]
          /\ \E id \in ConfiguredIds(cfg) : client' = [client EXCEPT ![i] = id]
          /\ groups' = [groups EXCEPT ![i] = RestoreGroups(s, loaded)]
    /\ live' = [live EXCEPT ![i] = TRUE]
    /\ callbacks' = [callbacks EXCEPT ![i] = FALSE]
    /\ inMem' = [inMem EXCEPT ![i] = (s = i)]

TryNew(i) ==
    /\ ~live[i] /\ holder = i
    /\ Open(i, Keystore)
    /\ stale' = FALSE
    /\ UNCHANGED <<disk, holder>>

\* The volatile store is new, so restore_groups finds no row.
TryNewInMemory(i) ==
    /\ ~live[i] /\ i \in InMemory
    /\ Open(i, i)
    /\ UNCHANGED <<disk, holder, stale>>

\* mls_init / mls_init_with_client_id: only when no client exists (ImplementationError otherwise).
InitClient(i, id) ==
    /\ Ready(i) /\ client[i] = None
    /\ client' = [client EXCEPT ![i] = id]
    /\ lastTry' = None /\ UNCHANGED <<inMem, live, groups, callbacks, disk, holder, stale>>
MlsInit(i) == \E id \in ClientIds : InitClient(i, id)
MlsInitWithClientId(i) == \E id \in ClientIds : InitClient(i, id)

\* Variant: the rows are restored into the existing store, whose try_insert
\* refuses ids it already holds, so groups already in memory are kept.
RestoreFromDisk_IntoExisting(i) ==
    /\ live[i] /\ (inMem[i] \/ holder = i)
    /\ \E loaded \in SUBSET Rows(Store(i)) :
          groups' = [groups EXCEPT ![i] = [c \in Convs |-> IF groups[i][c] = None THEN RestoreGroups(Store(i), loaded)[c] ELSE groups[i][c]]]
    /\ stale' = (stale /\ inMem[i])
    /\ lastTry' = None /\ UNCHANGED <<inMem, live, client, callbacks, disk, holder>>

\* restore_from_disk: the whole store is replaced by a freshly restored one.
RestoreFromDisk(i) ==
    /\ live[i] /\ (inMem[i] \/ holder = i)
    /\ \E loaded \in SUBSET Rows(Store(i)) : groups' = [groups EXCEPT ![i] = RestoreGroups(Store(i), loaded)]
    \* only a reload of the shared keystore resynchronises the holder
    /\ stale' = (stale /\ inMem[i])
    /\ lastTry' = None /\ UNCHANGED <<inMem, live, client, callbacks, disk, holder>>

SetCallbacks(i) ==
    /\ Ready(i)
    /\ callbacks' = [callbacks EXCEPT ![i] = TRUE]
    /\ lastTry' = None /\ UNCHANGED <<inMem, live, client, groups, disk, holder, stale>>

\* new_conversation: MlsNotInitialized without a client; create persists the
\* group at epoch 0, then the store insert is last-writer-wins.  The host
\* creates only ids conversation_exists does not know (spec 4.5).
NewConversation(i, c) ==
    /\ Ready(i) /\ client[i] # None
    /\ Lookup(i, c) = None
    /\ groups' = [groups EXCEPT ![i][c] = 0]
    /\ disk' = [disk EXCEPT ![Store(i)][c] = 0]
    /\ lastTry' = None /\ UNCHANGED <<inMem, live, client, callbacks, holder, stale>>

\* conversation_exists / conversation_epoch: get_fetch hydrates a group that is only on disk.
Fetch(i, c) ==
    /\ Ready(i)
    /\ groups[i][c] = None /\ disk[Store(i)][c] # None
    /\ groups' = [groups EXCEPT ![i][c] = disk[Store(i)][c]]
    /\ lastTry' = None /\ UNCHANGED <<inMem, live, client, callbacks, disk, holder, stale>>

\* process_(raw_)welcome_message: from_welcome_message persists the group at the
\* welcome's epoch, then the insert replaces any group of that id.
ProcessWelcome(i, c) ==
    /\ Ready(i)
    /\ \E e \in Epochs :
          /\ groups' = [groups EXCEPT ![i][c] = e]
          /\ disk' = [disk EXCEPT ![Store(i)][c] = e]
    /\ lastTry' = None /\ UNCHANGED <<inMem, live, client, callbacks, holder, stale>>

\* A mutating conversation operation (commit, decrypt of a commit) on the group
\* get_fetch returns: the next epoch is merged and persisted.
GroupOp(i, c) ==
    /\ Ready(i)
    /\ Lookup(i, c) \in 0..(MaxEpoch - 1)
    /\ groups' = [groups EXCEPT ![i][c] = Lookup(i, c) + 1]
    /\ disk' = [disk EXCEPT ![Store(i)][c] = Lookup(i, c) + 1]
    /\ lastTry' = None /\ UNCHANGED <<inMem, live, client, callbacks, holder, stale>>

Drop(i) ==
    /\ live' = [live EXCEPT ![i] = FALSE]
    /\ client' = [client EXCEPT ![i] = None]
    /\ groups' = [groups EXCEPT ![i] = NoGroups]
    /\ callbacks' = [callbacks EXCEPT ![i] = FALSE]
    /\ inMem' = [inMem EXCEPT ![i] = FALSE]

\* close: consumes the instance and releases the keystore; a volatile one is gone with it.
Close(i) == Ready(i) /\ Drop(i) /\ disk' = [disk EXCEPT ![i] = NoGroups] /\ lastTry' = None /\ UNCHANGED <<holder, stale>>

\* wipe: consumes the instance and destroys every row of its keystore.
Wipe(i) == Ready(i) /\ Drop(i) /\ disk' = [disk EXCEPT ![Store(i)] = NoGroups] /\ lastTry' = None /\ UNCHANGED <<holder, stale>>

\* The host suspends one process and resumes the other on the keystore.
Handover(j) ==
    /\ holder # j
    /\ holder' = j
    /\ stale' = (HostRestores /\ live[j] /\ ~inMem[j])
    /\ lastTry' = None /\ UNCHANGED <<inMem, live, client, groups, callbacks, disk>>

Next ==
    \/ \E i \in Instances :
          \/ ConfigRejected(i) \/ TryNew(i) \/ TryNewInMemory(i) \/ MlsInit(i) \/ MlsInitWithClientId(i) \/ RestoreFromDisk(i)
          \/ SetCallbacks(i) \/ Close(i) \/ Wipe(i) \/ Handover(i)
          \/ \E c \in Convs : NewConversation(i, c) \/ Fetch(i, c) \/ ProcessWelcome(i, c) \/ GroupOp(i, c)

Spec == Init /\ [][Next]_vars

(***************************************************************************)
(* Properties                                                              *)
(***************************************************************************)

\* For every instance the host may call (the holder of the shared keystore
\* once resynchronised, or an in-memory one), what get_fetch
\* (conversation_exists, conversation_epoch, every conversation operation)
\* returns for each id is the group persisted in that instance's keystore:
\* neither the groups restore_groups skipped after its break, nor the other
\* instance's commits, welcomes and wipe, nor the rows of a closed volatile
\* store, leave it working on (and persisting over a newer row from) a stale
\* or deleted group.
HolderSeesDisk ==
    \A i \in Instances : Ready(i) => \A c \in Convs : Lookup(i, c) = disk[Store(i)][c]

\* MlsCentralConfiguration::try_new answers each configuration of the unit
\* tests and doc tests of mod.rs as the test asserts: blank or empty paths
\* and keys and an empty client id are refused, with the first failing
\* field named, and a valid configuration is accepted.
AgreesWithConfigTests ==
    \A t \in ConfigTests : lastTry # None /\ lastTry.cfg = t.cfg => lastTry.result \in t.expect

=============================================================================
