---------------------------- MODULE ProteusCentral ----------------------------
(***************************************************************************)
(* ProteusCentral (src/crypto/src/proteus.rs) and the keystore's Proteus   *)
(* identity row (src/keystore/src/entities/platform/generic/proteus/       *)
(* identity.rs), for one local client and a few remote peers.              *)
(*                                                                         *)
(* The local client's identity, its sessions in memory and in the keystore,*)
(* its prekeys and the legacy Cryptobox store it may import are modelled;  *)
(* a pairwise session is abstracted to the handshake it was built from     *)
(* (hs), the local identity it was built with (lk) and whether the local   *)
(* client initiated it.  A peer keeps sending PreKeyMessages on a session  *)
(* it initiated until it has heard back from the local client.  The        *)
(* process may crash at any point, losing everything in memory.            *)
(***************************************************************************)
EXTENDS Naturals, Sequences, FiniteSets, Functions

CONSTANTS
    Peers,          \* remote clients, one session identifier each
    PrekeyIds,      \* the u16 prekey ids the host uses
    LastResort,     \* the last-resort prekey id (u16::MAX), never consumed
    Keys,           \* identity key pairs IdentityKeyPair::new can return
    LegacyKey,      \* the identity in the legacy Cryptobox store
    LegacyPeers,    \* peers with a session in the legacy store
    LegacyPrekeys,  \* prekey ids in the legacy store
    MigrateFirst,   \* the host runs cryptobox_migrate before proteus_init
    MaxHandshakes,  \* bound on sessions built
    MaxPrekeys,     \* bound on prekeys generated
    MaxCrashes,     \* bound on crashes
    None

ASSUME /\ LastResort \in PrekeyIds
       /\ LegacyKey \in Keys
       /\ LegacyPeers \subseteq Peers /\ LegacyPrekeys \subseteq PrekeyIds
       /\ MigrateFirst \in BOOLEAN

VARIABLES
    ident,       \* CoreCrypto.proteus: the in-memory identity, None before proteus_init
    sess,        \* ProteusCentral.proteus_sessions: peer -> session or None
    idRows,      \* the proteus_identities table, in rowid order
    sessRow,     \* the ProteusSession rows: peer -> session or None
    prekeys,     \* the ProteusPrekey rows: id -> version of the stored prekey, or None
    legacyId,    \* the legacy store's identity, or None
    legacySess,  \* the legacy store's sessions (never written)
    legacyPre,   \* the legacy store's prekeys: id -> version or None
    bundles,     \* prekey bundles published on the server: [id, ver, ik]
    peerSess,    \* each peer's session with the local client, or None
    nextHs,      \* next handshake number
    nextVer,     \* next prekey version
    usedKeys,    \* identity keys generated so far
    wasm,        \* the build is the wasm one (IndexedDB legacy store)
    accepts,     \* history: handshake -> number of sessions the local client built from it
    held,        \* history: peer -> handshake of the session the host last made for it
    everInit,    \* history: proteus_init has run
    migrated,    \* history: cryptobox_migrate has run
    crashes

mem == <<ident, sess>>
store == <<idRows, sessRow, prekeys>>
env == <<legacyId, legacySess, legacyPre, bundles, peerSess, nextHs, nextVer, usedKeys, wasm>>
hist == <<accepts, held, everInit, migrated, crashes>>
vars == <<mem, store, env, hist>>

Session == [hs : 1..MaxHandshakes, lk : Keys, init : BOOLEAN]
PeerSession == [hs : 1..MaxHandshakes, ik : Keys, pre : PrekeyIds \cup {None},
                ver : 0..MaxPrekeys, acked : BOOLEAN]
Bundle == [id : PrekeyIds, ver : 0..MaxPrekeys, ik : Keys]
NoSessions == [p \in Peers |-> None]

\* The guard of every CoreCrypto::proteus_* wrapper: ProteusNotInitialized otherwise.
Initialized == ident # None

\* IdentityKeyPair::new: a key pair never generated before.
Fresh == CHOOSE k \in Keys \ usedKeys : TRUE

\* ProteusIdentity::find_one: the first row by rowid.
FindIdentity == IF idRows = <<>> THEN None ELSE Head(idRows)

\* ProteusIdentity::save: a no-op when count() == 1, an insert otherwise.
IdentitySave(rows, k) == IF Len(rows) = 1 THEN rows ELSE Append(rows, k)

\* The handshakes of the legacy sessions, one per legacy peer.
LegacyHs == CHOOSE f \in Injection(LegacyPeers, 1..Cardinality(LegacyPeers)) : TRUE

\* Variant: a new identity whether or not one is stored.
LoadOrCreateIdentity_IgnoreStored == Fresh

\* load_or_create_identity: the stored identity, or a new one.
LoadOrCreateIdentity == IF FindIdentity # None THEN FindIdentity ELSE Fresh

-----------------------------------------------------------------------------
TypeOK ==
    /\ ident \in Keys \cup {None}
    /\ sess \in [Peers -> Session \cup {None}]
    /\ sessRow \in [Peers -> Session \cup {None}]
    /\ idRows \in Seq(Keys) /\ Len(idRows) <= 2
    /\ prekeys \in [PrekeyIds -> 0..MaxPrekeys \cup {None}]
    /\ bundles \subseteq Bundle
    /\ peerSess \in [Peers -> PeerSession \cup {None}]
    /\ accepts \in [1..MaxHandshakes -> 0..2]
    /\ wasm \in BOOLEAN

(***************************************************************************)
(* The legacy Cryptobox store is either absent (a fresh install) or holds  *)
(* LegacyKey, a session with each legacy peer and the legacy prekeys,      *)
(* whose bundles are on the server.  The build is the native or the wasm  *)
(* one.                                                                    *)
(***************************************************************************)
Init ==
    /\ ident = None /\ sess = NoSessions
    /\ idRows = <<>> /\ sessRow = NoSessions /\ prekeys = [i \in PrekeyIds |-> None]
    /\ \E legacy \in {LegacyPeers, {}} :
        /\ legacyId = IF legacy = {} THEN None ELSE LegacyKey
        /\ legacySess = [p \in Peers |-> IF p \in legacy
                                         THEN [hs |-> LegacyHs[p], lk |-> LegacyKey, init |-> FALSE]
                                         ELSE None]
        /\ legacyPre = [i \in PrekeyIds |-> IF legacy # {} /\ i \in LegacyPrekeys THEN 0 ELSE None]
        /\ bundles = {[id |-> i, ver |-> 0, ik |-> LegacyKey] : i \in IF legacy = {} THEN {} ELSE LegacyPrekeys}
        /\ peerSess = [p \in Peers |-> IF p \in legacy
                                       THEN [hs |-> LegacyHs[p], ik |-> LegacyKey, pre |-> None,
                                             ver |-> 0, acked |-> TRUE]
                                       ELSE None]
        /\ held = [p \in Peers |-> IF p \in legacy THEN LegacyHs[p] ELSE None]
    /\ nextHs = Cardinality(LegacyPeers) + 1 /\ nextVer = 1 /\ usedKeys = {LegacyKey}
    /\ wasm \in BOOLEAN
    /\ accepts = [h \in 1..MaxHandshakes |-> 0]
    /\ everInit = FALSE /\ migrated = FALSE /\ crashes = 0

(***************************************************************************)
(* proteus_init / ProteusCentral::try_new: load or create (and save) the   *)
(* identity, then deserialise every saved session with it; one session     *)
(* that does not deserialise fails the whole call after the identity was   *)
(* saved.  It replaces any ProteusCentral already in memory.               *)
(***************************************************************************)
ProteusInit ==
    /\ MigrateFirst => migrated
    /\ LET k == LoadOrCreateIdentity
       IN  /\ k # None
           /\ idRows' = IF FindIdentity # None THEN idRows ELSE IdentitySave(idRows, k)
           /\ usedKeys' = usedKeys \cup {k}
           /\ IF \A p \in Peers : sessRow[p] # None => sessRow[p].lk = k
              THEN ident' = k /\ sess' = sessRow
              ELSE UNCHANGED mem
    /\ everInit' = TRUE
    /\ UNCHANGED <<sessRow, prekeys, legacyId, legacySess, legacyPre, bundles, peerSess, nextHs, nextVer, wasm>>
    /\ UNCHANGED <<accepts, held, migrated, crashes>>

\* The process dies: CoreCrypto and every session in memory are gone.
Crash ==
    /\ crashes < MaxCrashes
    /\ ident' = None /\ sess' = NoSessions
    /\ crashes' = crashes + 1
    /\ UNCHANGED <<store, env, accepts, held, everInit, migrated>>

\* new_prekey(id): saves the prekey (replacing one with the same id); the host publishes the bundle.
NewPrekey(i) ==
    /\ Initialized /\ nextVer <= MaxPrekeys
    /\ prekeys' = [prekeys EXCEPT ![i] = nextVer]
    /\ bundles' = bundles \cup {[id |-> i, ver |-> nextVer, ik |-> ident]}
    /\ nextVer' = nextVer + 1
    /\ UNCHANGED <<mem, idRows, sessRow, legacyId, legacySess, legacyPre, peerSess, nextHs, usedKeys, wasm, hist>>

\* A peer fetches a published bundle (the server hands a one-time prekey out once) and initiates.
PeerInitFromPrekey(p, b) ==
    /\ nextHs <= MaxHandshakes
    /\ peerSess' = [peerSess EXCEPT ![p] = [hs |-> nextHs, ik |-> b.ik, pre |-> b.id,
                                           ver |-> b.ver, acked |-> FALSE]]
    /\ bundles' = IF b.id = LastResort THEN bundles ELSE bundles \ {b}
    /\ nextHs' = nextHs + 1
    /\ UNCHANGED <<mem, store, legacyId, legacySess, legacyPre, nextVer, usedKeys, wasm, hist>>

\* Session::init_from_message succeeds on p's PreKeyMessage: the prekey it names is stored
\* with the key the peer used, and it was encrypted to the local identity.
CanInitFromMessage(p) ==
    LET ps == peerSess[p]
    IN  ps # None /\ ~ps.acked /\ prekeys[ps.pre] = ps.ver /\ ps.ik = ident

(***************************************************************************)
(* session_from_message: Session::init_from_message decrypts the           *)
(* PreKeyMessage and removes the one-time prekey from the keystore; the    *)
(* session goes into memory only.  The host calls it for a PreKeyMessage   *)
(* it cannot decrypt in a session it already holds.                        *)
(***************************************************************************)
\* The local session for p is the one p sends on.
HoldsSession(p) == sess[p] # None /\ peerSess[p] # None /\ sess[p].hs = peerSess[p].hs

NewResponderSession(p) == [hs |-> peerSess[p].hs, lk |-> ident, init |-> FALSE]

\* One more session built from a one-time prekey's handshake.
CountAccept(h, pre) ==
    IF pre = LastResort THEN accepts ELSE [accepts EXCEPT ![h] = IF @ < 2 THEN @ + 1 ELSE @]

SessionFromMessage_KeepPrekey(p) ==
    /\ Initialized /\ CanInitFromMessage(p)
    /\ ~HoldsSession(p)
    /\ sess' = [sess EXCEPT ![p] = NewResponderSession(p)]
    /\ accepts' = CountAccept(peerSess[p].hs, peerSess[p].pre)
    /\ held' = [held EXCEPT ![p] = peerSess[p].hs]
    /\ UNCHANGED <<ident, idRows, sessRow, prekeys, env, everInit, migrated, crashes>>

SessionFromMessage(p) ==
    /\ Initialized /\ CanInitFromMessage(p)
    /\ ~HoldsSession(p)
    /\ sess' = [sess EXCEPT ![p] = NewResponderSession(p)]
    /\ prekeys' = IF peerSess[p].pre = LastResort THEN prekeys
                  ELSE [prekeys EXCEPT ![peerSess[p].pre] = None]
    /\ accepts' = CountAccept(peerSess[p].hs, peerSess[p].pre)
    /\ held' = [held EXCEPT ![p] = peerSess[p].hs]
    /\ UNCHANGED <<ident, idRows, sessRow, env, everInit, migrated, crashes>>

\* session_from_prekey: the local client initiates from p's bundle; in memory only.
SessionFromPrekey(p) ==
    /\ Initialized /\ nextHs <= MaxHandshakes
    /\ sess' = [sess EXCEPT ![p] = [hs |-> nextHs, lk |-> ident, init |-> TRUE]]
    /\ nextHs' = nextHs + 1
    /\ held' = [held EXCEPT ![p] = None]
    /\ UNCHANGED <<ident, store, legacyId, legacySess, legacyPre, bundles, peerSess, nextVer, usedKeys, wasm>>
    /\ UNCHANGED <<accepts, everInit, migrated, crashes>>

\* p receives a message of the local session: it hears back on its own session, or
\* adopts the session the local client initiated; any other message fails to decrypt.
Receive(p) ==
    LET s == sess[p]
        ps == peerSess[p]
    IN  CASE ps # None /\ ps.hs = s.hs -> [ps EXCEPT !.acked = TRUE]
          [] s.init -> [hs |-> s.hs, ik |-> s.lk, pre |-> None, ver |-> 0, acked |-> TRUE]
          [] OTHER -> ps

\* encrypt_batched: every listed session that exists encrypts, the others are skipped.
EncryptBatched(S) ==
    /\ Initialized
    /\ \E p \in S : sess[p] # None
    /\ peerSess' = [p \in Peers |-> IF p \in S /\ sess[p] # None THEN Receive(p) ELSE peerSess[p]]
    /\ UNCHANGED <<mem, store, legacyId, legacySess, legacyPre, bundles, nextHs, nextVer, usedKeys, wasm, hist>>

\* encrypt: ConversationNotFound when p has no session.
Encrypt(p) == sess[p] # None /\ EncryptBatched({p})

\* session_save: serialise the in-memory session into its row (a no-op without one).
SessionSave(p) ==
    /\ Initialized /\ sess[p] # None
    /\ sessRow' = [sessRow EXCEPT ![p] = sess[p]]
    /\ UNCHANGED <<mem, idRows, prekeys, env, hist>>

(***************************************************************************)
(* session_delete: remove the row; only if that succeeded, drop the        *)
(* session from memory; Ok(()) in both cases.                              *)
(***************************************************************************)
\* Variant: the memory entry is removed before (and whatever the outcome of) the keystore remove.
SessionDelete_MemoryFirst(p) ==
    /\ Initialized
    /\ \/ sessRow' = [sessRow EXCEPT ![p] = None] /\ sess' = [sess EXCEPT ![p] = None]
       \/ UNCHANGED sessRow /\ sess' = [sess EXCEPT ![p] = None]
    /\ held' = [held EXCEPT ![p] = None]
    /\ UNCHANGED <<ident, idRows, prekeys, env, accepts, everInit, migrated, crashes>>

SessionDelete(p) ==
    /\ Initialized
    /\ \/ sessRow' = [sessRow EXCEPT ![p] = None] /\ sess' = [sess EXCEPT ![p] = None]
       \/ UNCHANGED <<sessRow, sess>>
    /\ held' = [held EXCEPT ![p] = None]
    /\ UNCHANGED <<ident, idRows, prekeys, env, accepts, everInit, migrated, crashes>>

(***************************************************************************)
(* cryptobox_migrate_impl: the identity is the stored one if there is one, *)
(* else the legacy one, which is saved; every legacy session with no row  *)
(* and that deserialises with that identity is saved, and every legacy     *)
(* prekey whose id has no row.  Memory is not touched.  The host is told   *)
(* to run it before proteus_init.                                          *)
(***************************************************************************)
MigratedIdentity == CASE FindIdentity # None -> FindIdentity
                       [] legacyId # None    -> legacyId
                       [] OTHER              -> Fresh

\* Variant: the legacy sessions are not imported.
MigrateImport_NoSessions ==
    /\ LET k == MigratedIdentity
       IN  /\ idRows' = IF FindIdentity # None THEN idRows ELSE IdentitySave(idRows, k)
           /\ usedKeys' = usedKeys \cup {k}
    /\ prekeys' = [i \in PrekeyIds |-> IF prekeys[i] = None THEN legacyPre[i] ELSE prekeys[i]]
    /\ migrated' = TRUE
    /\ UNCHANGED <<mem, sessRow, legacyId, legacySess, legacyPre, bundles, peerSess, nextHs, nextVer, wasm>>
    /\ UNCHANGED <<accepts, held, everInit, crashes>>

MigrateImport ==
    /\ LET k == MigratedIdentity
       IN  /\ idRows' = IF FindIdentity # None THEN idRows ELSE IdentitySave(idRows, k)
           /\ usedKeys' = usedKeys \cup {k}
           /\ sessRow' = [p \in Peers |->
                            IF sessRow[p] = None /\ legacySess[p] # None /\ legacySess[p].lk = k
                            THEN legacySess[p] ELSE sessRow[p]]
    /\ prekeys' = [i \in PrekeyIds |-> IF prekeys[i] = None THEN legacyPre[i] ELSE prekeys[i]]
    /\ migrated' = TRUE
    /\ UNCHANGED <<mem, legacyId, legacySess, legacyPre, bundles, peerSess, nextHs, nextVer, wasm>>
    /\ UNCHANGED <<accepts, held, everInit, crashes>>

\* can_import_cryptobox: after cryptobox_migrate and try_new, the identity is
\* the Cryptobox one, each legacy session is loaded (with that identity) and
\* each legacy prekey is in the keystore.
ImportedAsInTest ==
    /\ ident = legacyId
    /\ \A p \in Peers : legacySess[p] # None => sess[p] = legacySess[p]
    /\ \A i \in PrekeyIds : legacyPre[i] # None => prekeys[i] = legacyPre[i]

\* Native build: on a fresh install the identity is created and saved before
\* read_dir of the missing sessions directory fails the call.
Migrate ==
    /\ ~wasm
    /\ MigrateFirst => ~everInit
    /\ MigrateImport

\* wasm build: an IndexedDB without the "keys" store means no migration at all.
MigrateWasm ==
    /\ wasm
    /\ MigrateFirst => ~everInit
    /\ \/ /\ legacyId = None
          /\ migrated' = TRUE
          /\ UNCHANGED <<mem, store, env, accepts, held, everInit, crashes>>
       \/ /\ legacyId # None
          /\ MigrateImport

Next ==
    \/ ProteusInit \/ Crash \/ Migrate \/ MigrateWasm
    \/ \E i \in PrekeyIds : NewPrekey(i)
    \/ \E p \in Peers, b \in bundles : PeerInitFromPrekey(p, b)
    \/ \E p \in Peers : \/ SessionFromMessage(p) \/ SessionFromPrekey(p)
                        \/ Encrypt(p) \/ SessionSave(p) \/ SessionDelete(p)
    \/ \E S \in SUBSET Peers : EncryptBatched(S)

Spec == Init /\ [][Next]_vars
-----------------------------------------------------------------------------
(***************************************************************************)
(* The client exposes one identity for good: once an identity is stored,   *)
(* the one in memory, every prekey bundle on the server and every peer's   *)
(* session are bound to it, across crashes, re-initialisation and the      *)
(* legacy import (load_or_create_identity, create_identity,                *)
(* ProteusIdentity::save, cryptobox_migrate).                              *)
(***************************************************************************)
IdentityStable ==
    FindIdentity # None =>
        /\ ident \in {None, FindIdentity}
        /\ \A b \in bundles : b.ik = FindIdentity
        /\ \A p \in Peers : peerSess[p] # None => peerSess[p].ik = FindIdentity

(***************************************************************************)
(* A one-time prekey is one-shot (spec, glossary): no peer handshake made  *)
(* on a one-time prekey yields more than one local session, whatever       *)
(* crashes, deletes, prekey regeneration and imports happen in between     *)
(* (session_from_message, new_prekey, cryptobox_migrate).                  *)
(***************************************************************************)
OneTimePrekeyUsedOnce == \A h \in DOMAIN accepts : accepts[h] <= 1

(***************************************************************************)
(* Spec 4.6: session_from_message persists on first decrypt.  So while a   *)
(* peer sends on the session the host last built from its PreKeyMessage,   *)
(* the initialised client can decrypt it: the session is in memory, or the *)
(* PreKeyMessage can still be turned into one.                             *)
(***************************************************************************)
ResponderSessionsSurvive ==
    \A p \in Peers :
        (Initialized /\ peerSess[p] # None /\ held[p] = peerSess[p].hs) =>
            HoldsSession(p) \/ CanInitFromMessage(p)
(***************************************************************************)
(* While the client is initialised, every session stored in the keystore   *)
(* is also in memory.  session_delete drops the memory entry only once the *)
(* keystore remove succeeded, proteus_init loads every row, and the        *)
(* migration writes rows only before proteus_init: so a failed remove      *)
(* keeps the session in both, and the next proteus_init (after a crash or  *)
(* a re-init) can never bring back a session the running client had        *)
(* already dropped.                                                        *)
(***************************************************************************)
StoredInMemory == Initialized => \A p \in Peers : sessRow[p] # None => sess[p] # None

(***************************************************************************)
(* The first proteus_init after cryptobox_migrate has imported a legacy    *)
(* store leaves the client as can_import_cryptobox asserts: the Cryptobox  *)
(* identity, every legacy session restored and every legacy prekey in the *)
(* keystore (cryptobox_migrate_impl, then try_new's restore_sessions).      *)
(***************************************************************************)
ImportAsTested ==
    [][(~everInit /\ everInit' /\ migrated /\ legacyId # None) => ImportedAsInTest']_vars
====
