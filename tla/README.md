# TLA+ models of core-crypto

This directory holds TLA+ models of the core-crypto library (`src/`), the TLC configurations that check them, and `PROJECT.json`. `PROJECT.json` maps every model definition to the source lines it translates. It also lists the runs, their mutants, the findings and the hazards.

## 1. The system and its parts

| Part | Source | State | Operations | Interacts with |
|---|---|---|---|---|
| C4 MLS conversation | `crypto/src/conversation.rs` | The `MlsGroup` behind an `RwLock` (epoch, members, pending commit, `state_changed` flag) and the group row in the keystore. | `create`, `from_welcome_message`, `from_serialized_state`, `add_members`, `remove_members`, `decrypt_message`, `encrypt_message`, `reinit` | The Delivery Service (DS), which orders commits; the keystore; MLS central. |
| C5 MLS central | `crypto/src/mls/mod.rs` | An optional client identity, the group store (id → conversation), the callbacks and the backend. | `try_new`, `mls_init*`, `restore_groups`, `restore_from_disk`, `new_conversation`, `process_welcome_message`, `conversation_epoch`, `close`, `wipe` | The conversations; the keystore, which other instances such as app extensions may also write. |
| External commit | `crypto/src/mls/external_commit.rs` | The pending-group partition of the keystore next to the group partition. | `join_by_external_commit`, `merge_pending_group_from_external_commit`, `clear_pending_group_from_external_commit`, `validate_external_commit` | The host's authorization callbacks; the DS. |
| E2EI classifier | `crypto/src/e2e_identity/state.rs` | None (a pure fold over the members). | `e2ei_conversation_state` | Member credentials. |
| C6 Proteus central | `crypto/src/proteus.rs` | The identity, the in-memory sessions, and the keystore rows for sessions, prekeys and identity. | `session_from_prekey`, `session_from_message`, `session_save`, `session_delete`, `encrypt`, `decrypt`, `encrypt_batched`, `new_prekey`, `cryptobox_migrate` | The keystore; the remote peers. |
| Keystore Proteus identity | `keystore/.../generic/proteus/identity.rs` | At most one identity row. | `save` (a no-op when a row exists), `find_one`, `delete` | Proteus central. |
| Keystore wasm entities, errors, member key packages, test helpers, FFI root, interop client | (see `PROJECT.json`) | CRUD or type definitions only | (none modelled) | (none) |

**Hard behaviours.** These are what make the code hard to test:
- `add_members`/`remove_members` merge their commit before the DS has accepted it.
- Their save and persist run after the write lock is released, so they can interleave with `decrypt_message` on another thread.
- A crash can come between a merge and the persist that follows it.
- A welcome replaces an existing group (last-writer-wins).
- Two keystore partitions are updated non-transactionally by the external-commit merge.
- Proteus sessions change in memory, and the keystore copy is written only when the caller asks.

## 2. Plan

Modules are ordered by importance.

1. **`MlsConversation`** (done). It models C4 for several clients sharing one conversation, with the DS as the environment, and includes welcome processing and restore from C5.
2. **`E2eiState`** (done). It models the classifier fold and checks it against the spec's rule over bounded member lists, and against the unit tests of `state.rs`.
3. **`ExternalCommit`** with **`ExternalJoin`** (done). `ExternalCommit` models the pending and main partitions, the callbacks, and crashes between the persist and the delete. `ExternalJoin` is the abstract spec: the table of states in spec 4.4.1 (PendingExternalCommit → Stable). `ExternalCommit` is shown to implement it through `INSTANCE ... WITH`.
4. **`ProteusCentral`** (done). It models sessions in memory and in the keystore, prekey consumption, re-initialisation and crashes, batched encryption, the legacy import and the identity row (`identity.rs`).
5. **`MlsCentral`** (done). It models two instances over one keystore (`restore_from_disk`), the `break` in `restore_groups`, `get_fetch` hydration the `mls_init` guards, configuration validation and `try_new_in_memory`.
6. **Liveness for `MlsConversation`** (done). `CatchUp` checks that a client on the DS chain catches up with it.

## 3. `MlsConversation.tla`

**State.** Per client `c`:

| Variable | Models |
|---|---|
| `mem[c]` | The `RwLock<MlsGroup>`, as a record of `hist` (the merged commits; the epoch is its length), `members` and `pending`. |
| `changed[c]` | openmls `state_changed() == Changed`. |
| `disk[c]` | The row written by `mls_group_persist`. |
| `pc[c][t]`, `buf[c][t]` | For each caller thread `t` in `Threads`, the position of its `add_members`/`remove_members` call in the tail: `"check"` is before line 236 and `"persist"` is between lines 238 and 239. `buf[c][t]` holds the saved bytes. |
| `detached[c][t]` | The conversation object `t`'s call holds after a welcome inserted a new one for the id (`mod.rs:506`): its group and its own `state_changed` flag. `None` while the call works on the object in the map. |
| `cursor[c]` | The DS feed position. |
| `used[c]` | The welcomes already consumed (their key package is deleted). |
| `out[c][t]` | The commit the caller's `add_members`/`remove_members` will return (`Ok(MlsConversationCreationMessage)`); it reaches the DS (`sent`) only when the call returns, and a restart loses it. |
| `made[c]` | The number of commits `c` has built. A commit carries it as `gen`: the fresh key material of every openmls commit, so that two commits built alike are still different. |

Shared:

| Variable | Models |
|---|---|
| `ds` | The DS-accepted chain. |
| `sent` | Commits handed to the DS and not yet accepted or rejected. |

A commit records the history it was built on (`base`). An openmls member stages a commit only if another member built it on its own state; it refuses its own commit when the DS echoes it. This is how a fork becomes visible. Adopting an accepted commit of one's own is `commit_accepted`, which is not part of this code, so no action models it.

**Actions and code.**

| Action | Code it models |
|---|---|
| `Create` | `create`: with extra members, an add commit is merged at once; the group is then persisted. |
| `AddMembers` / `RemoveMembers` (via `LocalCommit`) | Lines 229–234: build the commit, `merge_pending_commit`, drop the lock. `remove_members` keeps only the listed clients that are members. |
| `SaveAfterCommit` | Lines 236–238: re-check `state_changed` and save, on the object the call holds (`CallGroup`, `CallChanged`, `ClearChanged`). Two calls that hold the same replaced object share its flag. |
| `PersistAfterCommit` | Line 239: persist without the lock. |
| `DecryptMessage` | Lines 285–318: atomic under the lock; the merge and persist happen together. |
| `Reinit` | `self_update`: the commit stays pending and is not persisted. |
| `FromWelcome` | `from_welcome_message` and `process_welcome_message`: persist, then insert a new object (replacing the group). Calls in flight keep the old object (`Detach`). |
| `Restart` | A crash, then `restore_groups` / `from_serialized_state`. Calls in flight are lost, with any commit they had not returned. |
| `Return` | Line 242: the call returns its commit, which the host sends to the DS. |
| `DSAccept` | The environment: the DS accepts the first commit for its current epoch. It checks only the epoch. |

`Concurrent` says whether the host may call the same conversation from several threads. The `&self` API and the `RwLock` allow this, including two `add_members`/`remove_members` calls at once (`Threads = {1, 2}`). The sequential run has `Concurrent = FALSE` and `Threads = {1}`: one call per client at a time.

**Bounds.**

| Bound | Value | Why it is enough |
|---|---|---|
| Clients | 3 (the creator `a`, plus `b` and `c`, which are symmetric) | Enough for the fork and the persist race. |
| Clients, sequential run | 2 | The liveness check has no symmetry reduction. |
| `Threads` | 1–2 | Two threads reach both concurrent races in one epoch each; the sequential run needs one. |
| `MaxEpoch` | 2–3 | The persist-race run uses 3, so that the welcome route (an add, a second add of a member that already holds the group, and a commit in the tail) is reachable as well as the two-thread one. The sequential run uses 2: the add of `b`, then two members committing concurrently in epoch 1. With 3 it holds as well but takes 16 minutes. |
| `MaxRestarts` | 0–2 | The sequential run allows two, so that a restart can come both before and after a welcome or a reinit. |

**Liveness.** The sequential run checks `CatchUp` under `FairSpec`. `FairSpec` is weak fairness on three things:
- `DecryptMessage`: the host hands every DS message to `decrypt_message`, as spec 4.4.3 asks.
- `SaveAfterCommit` and `PersistAfterCommit`: a started `add_members`/`remove_members` call runs to its end.

Users, the DS and restarts are owed nothing.

`CatchUp`: a member on the accepted chain (`Chain`) eventually holds the whole chain, unless it leaves the chain or the chain's next commit is its own (`OwnCommitNext`). `Chain` is the longest prefix of the DS log whose commits each build on the one before. The DS checks only the epoch, so after a fork it may accept a commit built on a history it never saw.

The exception `OwnCommitNext` is needed, because `decrypt_message` never merges a commit of the member's own. Three cases reach it:
- a reinit's self-update the DS accepted, which stays pending;
- an add/remove commit that a restart took out of memory;
- an add/remove commit that a welcome for a group the client already holds replaced (spec 4.5: last-writer-wins).

Only `commit_accepted`, which is not in this repository, could merge such a commit. With the exception, the run shows that `decrypt_message` catches a member up on every commit of the others: across failed decrypts of its own echoes, restarts and welcomes. The `DecryptMessage_NoMerge` mutant (the staged commit is never merged) breaks it.

`CHECK_DEADLOCK FALSE` is used because a group may legitimately go idle: no call is ever forced.

## 4. `E2eiState.tla`

`FoldStep` and `Conclude` translate the closure and the final `match` of `e2ei_conversation_state`. A leaf is abstracted to the outcomes of `parse_leaf_cert`, `extract_identity` and `is_time_valid`. `SpecState` is the rule of spec 4.5.

The variable `leaves` evolves as the group does:
- members join with any credential;
- members leave;
- certificates expire.

Starting from one member and allowing up to `MaxMembers = 3`, the run reaches every member list of up to three leaves.

**Unit tests as reference cases.** The four tests of `state.rs` (uniform, heterogeneous, one expired, all expired) are written down as `TestUniform`, `TestHeterogeneous`, `TestOneExpired` and `TestAllExpired`. Each test is a member list in `members()` order, with the creator first, plus the state the test asserts. `AgreesWithUnitTests` says that whenever the group's leaves are a test's list, the classifier returns the test's state. The one-expired and all-expired tests are the only place the repository pins down the `all_expired` arm of the final `match`. A `Conclude` without that arm fails the check in the initial state.

## 4b. `ExternalCommit.tla` and `ExternalJoin.tla`

`ExternalCommit` models one joining client and one group.

**State.**

| Variable | Models |
|---|---|
| `pendingRow` | The pending partition. |
| `groupRow` | The group partition. |
| `mem` | The `MlsCentral` group store. |
| `pc` | `"delete"` marks the point inside `merge_pending_group_from_external_commit` after the insert and before `mls_pending_groups_delete`. |
| `attempts`, `resp` | The host's attempts and what it has heard back. |
| `dsEpoch`, `dsJoined`, `sent` | The DS. |
| `cbSet`, `existing`, `authorize` | The callbacks and the host's two predicates, which are fixed per behaviour. |
| `memberView` | What an existing member concluded about the external commit. |
| `memberSender` | What that member validated with: whether callbacks were installed and whether the commit named a sender client id. |

A joiner's group is abstracted to the attempt it was built from, plus its epoch.

**Actions and code.**

| Action | Code it models |
|---|---|
| `JoinByExternalCommit` | Lines 76–116, which overwrite the pending row. |
| `MergePendingGroup` | Lines 126–144: load, merge, persist and insert. |
| `DeletePendingGroup` | Lines 146–149. |
| `ClearPendingGroup` | `clear_pending_group_from_external_commit`. |
| `ValidateExternalCommit` / `MemberProcessExternalCommit` | Lines 166–201. |
| `SetCallbacks` | `MlsCentral::callbacks`. |
| `DecryptCommit` | `decrypt_message` merging and persisting the next commit. |
| `Crash` | A crash followed by `restore_groups`. |

The host behaves as the doc comments ask:
- it joins a group it does not hold;
- it retries after a timeout or a refusal;
- it merges on the DS's acceptance of its latest attempt;
- it clears when it gives up.

Because a request can time out and still reach the DS, an earlier attempt can be accepted while the pending row already holds a later one. The host then never hears that acceptance.

**Reference cases.** `TestJoinSucceeds`, `TestSenderNotInGroup` and `TestSenderLacksRole` record the three validation tests at the end of `external_commit.rs`. Each records the host's callbacks and answers and the outcome the test asserts. `AgreesWithValidationTests` checks that every member verdict matches the test with the same host.

**Liveness.** `FairSpec` adds weak fairness on `MergePendingGroup` and `DeletePendingGroup`. This is justified because the host merges as soon as the DS accepts (the doc comment of `merge_pending_group_from_external_commit`), and the merge is one async call that runs to its end unless the process crashes. `AcceptedJoinCompletes` says that once the host has heard an acceptance, the joiner eventually holds the group and the pending partition is empty. A crash before the delete is covered: the host retries the merge on the surviving row.

**Refinement.** The refinement mapping sends:
- a group row to `Stable` at the row's epoch;
- otherwise, a pending row to `PendingExternalCommit` at the pending row's epoch;
- otherwise, to `none`.

**Bounds.** `MaxEpoch = 3`, `MaxAttempts = 3`, and `MaxCrashes` of 0 or 1. These are enough for:
- a stale group info;
- a retry while an earlier attempt is still in flight;
- the crash between the two keystore writes of the merge, followed by one more commit.

## 4c. `ProteusCentral.tla`

`ProteusCentral` models one local client, two peers, the prekey server and an optional legacy Cryptobox store.

**Abstraction.** A pairwise session is abstracted to three things:
- `hs`, the handshake it was built from;
- `lk`, the local identity it was built with;
- `init`, whether the local client initiated it.

The ratchet inside a session is not modelled. `decrypt` only advances it, so it is no action here. A peer's session records:
- the identity it encrypts to;
- the prekey id and version it was built on;
- whether it has heard back from the local client.

Until it hears back, a peer keeps sending PreKeyMessages, as the Proteus library does.

**State.**

| Variable | Models |
|---|---|
| `ident`, `sess` | `CoreCrypto.proteus`: the identity and `proteus_sessions`. |
| `idRows` | The `proteus_identities` table. |
| `sessRow` | The `ProteusSession` rows. |
| `prekeys` | The `ProteusPrekey` rows, as a version per id, so that `new_prekey` reusing an id replaces the key. |
| `legacyId`, `legacySess`, `legacyPre` | The legacy Cryptobox store. |
| `bundles` | The prekey bundles on the server. |
| `peerSess` | The peers' sessions. |

The history variables are:
- `accepts`: the local sessions built per handshake;
- `held`: the responder session the host last built per peer;
- `everInit`;
- `migrated`.

**Actions and code.**

| Action | Code it models |
|---|---|
| `ProteusInit` | `proteus_init` / `try_new`: `load_or_create_identity`, `create_identity` and `restore_sessions`. A session that does not deserialise with the identity fails the call after the identity was saved. |
| `NewPrekey` | `new_prekey`. |
| `SessionFromPrekey` | `session_from_prekey`. |
| `SessionFromMessage` | `session_from_message`. `Session::init_from_message` removes a one-time prekey (not the last-resort one) from the keystore. The session itself goes into memory only. |
| `Encrypt` / `EncryptBatched` | `encrypt` / `encrypt_batched`, with the message delivered to the peer (`Receive`). |
| `SessionSave` | `session_save`. |
| `SessionDelete` | `session_delete`. Its two disjuncts are a keystore remove that succeeds and one that fails. |
| `Migrate` | The native `cryptobox_migrate_impl`. It runs `MigrateImport`. On a fresh install it saves a new identity before `read_dir` of the missing sessions directory fails the call. |
| `MigrateWasm` | The wasm `cryptobox_migrate_impl`. Without a `"keys"` store it returns at once. Otherwise it takes the same steps over IndexedDB. `wasm` chooses the build. |
| `MigrateImport` | The shared steps: take the stored identity, else the legacy one, else create one. Import each legacy session that is absent and deserialises with it, then each absent prekey. |
| `Crash` | The process dies and loses `CoreCrypto.proteus`. |

`FindIdentity` and `IdentitySave` are `find_one` and `save` of `identity.rs`. `Initialized` is the `ProteusNotInitialized` guard of every `CoreCrypto::proteus_*` wrapper.

Two behaviours of the Proteus library are taken as given:
- `Session::deserialise` rejects a session saved under another local identity. This is the integrity check of the migration.
- `init_from_message` needs the stored prekey the message names.

**Host order.** `MigrateFirst` is the documented order: `cryptobox_migrate`, then `proteus_init`.

Two behaviours are modelled but no property asserts against them:
- **Migration after `proteus_init`.** It keeps the identity `proteus_init` created and silently drops the legacy sessions, which do not deserialise with that identity.
- **A second migration.** It re-imports a one-time prekey that was consumed in the meantime. It skips only what is present, as spec 4.6 says.

The hazards in `PROJECT.json` say why each is left to tests or to the spec's wording.

When the keystore remove of `session_delete` fails, the call returns `Ok` and keeps the session in memory as well. `StoredInMemory` checks the consequence of that order: once initialised, every session row is also in memory. So neither a failed delete nor a re-initialisation brings back a session the running client had dropped.

`ImportedAsInTest` records what `can_import_cryptobox` asserts after `cryptobox_migrate` and `try_new`. The identity is the legacy one, each legacy session is loaded and each legacy prekey is stored. `ImportAsTested` checks this on the first `proteus_init` after a migration of a legacy store.

**Bounds.**

| Bound | Value | Why it is enough |
|---|---|---|
| Peers | 2 (`p1` may have a legacy session) | |
| Identity keys | 3 | The legacy key and two that `IdentityKeyPair::new` may return. |
| Prekey ids | `{1, 65535}` | A one-time id and the last-resort id. |
| `MaxHandshakes` | 4 | A legacy session, two peer-initiated handshakes and a local one. |
| `MaxPrekeys` | 2 | Prekey generations, enough for an id to be reused. |
| `MaxCrashes` | 1 | |

Together these reach re-initialisation with and without a crash, the re-use of a prekey id, and a replay of a PreKeyMessage after the session was lost or deleted.

## 4d. `MlsCentral.tla`

`MlsCentral` models the orchestrator of `mls/mod.rs` for two instances, `app` and `ext`, over one keystore. This is the main app and its extension, as in the doc of `restore_from_disk` and the mirror test `can_restore_group_from_db` (lines 795–868). A group is abstracted to its epoch.

**State.**

| Variable | Models |
|---|---|
| `live[i]` | Instance `i` was built by `try_new` or `try_new_in_memory` and not yet consumed by `close`/`wipe`. |
| `inMem[i]` | `i` was built by `try_new_in_memory`, over a private volatile keystore. |
| `client[i]` | `mls_client` (`None` before the deferred `mls_init`). |
| `groups[i]` | The `GroupStore`. |
| `callbacks[i]` | The installed callbacks. |
| `disk[s]` | The group rows of keystore `s`: the shared one (`Keystore`) or an instance's volatile one. |
| `holder`, `stale` | The host: which process may use the shared keystore, and whether it has yet to resynchronise after taking over. |
| `lastTry` | The input and result of the `MlsCentralConfiguration::try_new` call made by the last step, or `None` after any other step. |

**Actions and code.**

| Action | Code it models |
|---|---|
| `ConfigurationTryNew` | `MlsCentralConfiguration::try_new` (lines 127–160). The early returns are kept in order: a blank or empty `store_path`, then `identity_key` (both trimmed), then an empty client id. `&seed[..EXPECTED_LEN]` panics on a short entropy seed and truncates a long one. A string is abstracted to empty, blank or text. The ciphersuite list is never checked, so it is left out. |
| `ConfigRejected` | A refused configuration (or a panic): nothing is opened. |
| `TryNew`, `TryNewInMemory` (`Open`) | `try_new` / `try_new_in_memory` on an accepted configuration: the client if an id is configured, then `restore_groups` on the shared keystore or on a new, empty volatile one. |
| `MlsInit`, `MlsInitWithClientId` | These fail with `ImplementationError` when a client exists. |
| `RestoreFromDisk` | It replaces the store with a fresh `restore_groups`. |
| `RestoreGroups` | The loop breaks on the first failed `try_insert`. `GroupStore` is outside the repository and the row order is arbitrary, so any subset of the rows may be loaded. |
| `NewConversation` | `MlsNotInitialized` without a client. `create` persists, then the insert is last-writer-wins. |
| `Fetch` | `conversation_exists`/`conversation_epoch`: `get_fetch` hydrates a group found only on disk. |
| `ProcessWelcome` | `process_(raw_)welcome_message`. |
| `GroupOp` | Any conversation operation that merges and persists a new epoch. |
| `Close`, `Wipe` | Both consume the instance; a volatile keystore goes with it. `Wipe` also destroys every row of the instance's keystore. |
| `Handover` | The host. |

**Host.** `HostRestores`: the host calls `restore_from_disk` when an instance takes the keystore over, as the doc comment asks. `HolderSeesDisk` says that `get_fetch` then returns the persisted group for every id. It holds despite the `break` in `restore_groups`: a skipped group is hydrated on the next lookup. With `HostRestores = FALSE` it fails at once, which is the "unsafe" use the mirror test warns about.

**Configuration tests.** `TestValid`, `TestBlankStorePath`, `TestBlankIdentityKey`, `TestEmptyClientId` and `TestAllEmpty` are the four configuration tests of `mod.rs` (lines 668–748) and the doc test that should fail (lines 107–113). `AgreesWithConfigTests` says that every `try_new` of a test's configuration gives a result the test accepts. Checking the fields with `is_empty` instead of after `trim` accepts `" "` and fails it.

**Bounds.** Two instances, two conversations (symmetric), one client id and `MaxEpoch = 2`. Only `ext` may be built in memory (`InMemory = {ext}`): the app must share the keystore for the handover to matter, and letting both be volatile multiplies the states without a new case. The configurations are the tests' inputs, plus one input for each other branch (no client id; an exact, short and long seed). One instance can advance a group twice while the other holds epoch 0, and one conversation can be restored while the other is skipped.

## 5. Runs

| Run | Expect | What it shows |
|---|---|---|
| `conversation_sequential` | pass | With one call at a time per client, the row equals memory whenever no call is in flight (`PersistedWhenIdle`). This covers crashes, welcomes and other clients' commits. Under `FairSpec`, a member on the chain catches up with the commits of others, unless the chain's next commit is its own (`CatchUp`). |
| `conversation_concurrent` | violation | `SkipSaveIsSafe`: two `add_members` calls on one object. The first one's save clears `state_changed`; the second skips its save and reports its commit while the row still holds the epoch before both (5 states). |
| `conversation_fork` | violation | `NoFork`: members commit concurrently, and the one whose commit the DS rejected has already merged its own. The histories fork in 4 steps. |
| `conversation_persist_race` | violation | `PersistedWhenIdle` with concurrent calls: the first of two `add_members` calls on one object persists its older save last (8 states). With one thread the same happens when a welcome replaced the object during a call's tail: the old call persists the replaced group over the welcome's row. |
| `e2ei_classifier` | pass | `AgreesUnlessNoneValid`: the code agrees with the spec's rule on every group that has a valid member or no parsable certificate. `AgreesWithUnitTests`: on the member lists of the `state.rs` tests, the classifier returns what the tests assert. |
| `external_commit` | pass | With retries, stale group infos, late answers and one crash, the joiner only holds the accepted attempt's group (`MergedIsAccepted`). A member admits the joiner only with callbacks installed and both answers true (`AdmittedOnlyIfAuthorized`). Its verdict is the one the validation tests assert (`AgreesWithValidationTests`). Under `FairSpec`, a join the DS accepted completes and empties the pending partition (`AcceptedJoinCompletes`). |
| `external_join_refinement` | pass | Without crashes, the two partitions implement `ExternalJoin` (`ImplementsExternalJoin`). |
| `external_merge_crash` | violation | A crash between the persist and the delete of the merge, then a `decrypt_message`, then a retried merge: the stored group moves back one epoch. The refinement is violated. |
| `proteus_central` | pass | With the documented host order, the stored identity is the one in memory, in every bundle on the server and in every peer's session (`IdentityStable`). No handshake on a one-time prekey yields two local sessions (`OneTimePrekeyUsedOnce`). Every stored session is in memory once initialised (`StoredInMemory`). The first `proteus_init` after a migration leaves the client as `can_import_cryptobox` asserts (`ImportAsTested`). This holds across crashes, re-initialisation, failed deletes and prekey-id reuse. |
| `proteus_responder_lost` | violation | `ResponderSessionsSurvive`: `session_from_message` consumes the prekey but does not save the session. A second `proteus_init` (or a crash) before `session_save` leaves the peer's session undecryptable for good. Spec 4.6 says it persists. |
| `mls_central_instances` | pass | `HolderSeesDisk`: with the host resynchronising on every handover, the lookups of every usable instance return the group persisted in its keystore. This covers `try_new`, `try_new_in_memory`, the `restore_groups` break, welcomes, commits, `close` and `wipe` by either instance. `AgreesWithConfigTests`: `MlsCentralConfiguration::try_new` answers the configurations of the unit and doc tests as they assert. |
| `e2ei_not_enabled` | violation | `NotEnabledOnlyIfAllBasic` fails: a lone member with a time-valid certificate whose identity cannot be extracted gives `NotEnabled`. |

The findings are spelled out in `PROJECT.json`.

## 6. Not modelled, and why

- `encrypt_message` and application messages do not change group state.
- Proposals stored by `decrypt_message` are part of the commit content, which is abstracted away.
- openmls internals are library code outside this repository. Only the contract the code relies on is kept: a commit is stageable on its base state, a pending commit blocks new commits, and a removed member cannot commit.
- Keystore CRUD on wasm, the error types, the test helpers, the FFI root and the interop client contain no control logic worth modelling.
- The Proteus ratchet (message counters, replay detection) is library code. Without it, neither the replay after a crash (`decrypt` does not save the session) nor the partial failure of `encrypt_batched` can be stated.
- The entropy seed's length. `ConfigurationTryNew` keeps both outcomes: a short seed panics and a long one is truncated, where spec 6 asks for an error. No property states the spec's error, because no test or comment of the repository asserts it.
- Queries change nothing and are not actions: fingerprints, `session_exists`, `members`, `client_public_key`, key package counts, `export_public_group_state` and `random_bytes`.
- `member.rs` (`ConversationMember`) is dead code (`#![allow(dead_code)]`). It is an older copy: it lacks the `random_generate` that the tests of `conversation.rs` call. The conversations take key packages from the client, and `MlsConversation` abstracts them to the set of clients an add commit targets.
- About half of the source lines are `#[cfg(test)]` modules, `test_utils` and the interop client. The map covers the library code and the unit tests that the models replay as reference cases: those of `state.rs`, the configuration tests of `mod.rs`, the validation tests of `external_commit.rs` and `can_import_cryptobox` of `proteus.rs`. It leaves the rest out.
