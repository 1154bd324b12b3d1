--------------------------- MODULE MlsConversation ---------------------------
(***************************************************************************)
(* The per-group state machine of src/crypto/src/conversation.rs, run by   *)
(* several clients that share one ConversationId, with the Delivery        *)
(* Service (DS) as the environment that orders commits.                    *)
(*                                                                         *)
(* A group state is abstracted to its history of merged commits (the       *)
(* epoch is its length), its member set and the pending local commit of    *)
(* openmls.  A commit carries the history it was built on ("base"): an     *)
(* openmls member can only process a commit built on its own state, any    *)
(* other fails verification (WrongEpoch or a membership-tag failure).      *)
(*                                                                         *)
(* The methods take &self and guard the group with an RwLock, so a host    *)
(* may run several calls on one conversation object at once: each of the  *)
(* caller threads (Threads) may be inside add_members or remove_members,   *)
(* whose tail (state_changed check, save, persist) runs after the write    *)
(* lock was dropped, while decrypt_message holds the lock for its whole    *)
(* body.  A welcome inserts a new object for the id; a call in flight      *)
(* keeps the object it started on.                                         *)
(***************************************************************************)
EXTENDS Naturals, Sequences, FiniteSets, SequencesExt

CONSTANTS
    Clients,      \* client ids (model values)
    Threads,      \* caller threads of one client that may be inside add/remove
    Creator,      \* the client that calls MlsConversation::create
    MaxEpoch,     \* bound on the length of any history
    MaxRestarts,  \* bound on process crashes/restarts over a behaviour
    Concurrent,   \* TRUE: the host may call c's conversation from several threads
    NoGroup,      \* no group of this ConversationId in memory / in the keystore
    None          \* no pending commit, no in-flight buffer

ASSUME Threads # {} /\ Creator \in Clients /\ MaxEpoch \in Nat /\ MaxRestarts \in Nat /\ Concurrent \in BOOLEAN

VARIABLES
    mem,       \* mem[c]: c's MlsGroup in memory (the RwLock<MlsGroup>)
    changed,   \* changed[c]: openmls InnerState is Changed (not yet saved)
    disk,      \* disk[c]: the group row written by mls_group_persist
    pc,        \* pc[c][t]: where thread t's add/remove call is: "idle", "check", "persist"
    buf,       \* buf[c][t]: the bytes of group.save() awaiting mls_group_persist
    out,       \* out[c][t]: the commit add/remove will return to its caller
    detached,  \* detached[c][t]: the object t's call holds once a welcome replaced it
    ds,        \* commits accepted by the DS, in epoch order
    sent,      \* commits handed to the DS and not yet accepted or rejected
    cursor,    \* cursor[c]: number of ds entries already delivered to c
    used,      \* used[c]: ds positions whose welcome c has consumed (key package gone)
    restarts,  \* number of process restarts so far
    made       \* made[c]: number of commits c has built

vars == <<mem, changed, disk, pc, buf, out, detached, ds, sent, cursor, used, restarts, made>>

Ops == {"add", "remove", "update"}
Key == [author: Clients, op: Ops, targets: SUBSET Clients]
History == {h \in Seq(Key) : Len(h) <= MaxEpoch}
Commit == [key: Key, base: History, members: SUBSET Clients, gen: Nat]
Group == [hist: History, members: SUBSET Clients, pending: Commit \cup {None}]
\* An MlsConversation no longer in MlsCentral's map: its group and its flag.
Object == [group: Group, changed: BOOLEAN]

Epoch(g) == Len(g.hist)

Idle(c) == \A t \in Threads : pc[c][t] = "idle"

\* The methods take &self and guard the group with an RwLock, so a host may
\* run another call while add_members/remove_members is in its tail.
MayCall(c) == Concurrent \/ Idle(c)

\* The group and the state_changed flag of the object t's call works on.
CallGroup(c, t) == IF detached[c][t] = None THEN mem[c] ELSE detached[c][t].group
CallChanged(c, t) == IF detached[c][t] = None THEN changed[c] ELSE detached[c][t].changed

HasGroup(c) == mem[c] # NoGroup

\* The membership after a commit, as openmls computes it on merge.
Apply(members, k) ==
    CASE k.op = "add"    -> members \cup k.targets
      [] k.op = "remove" -> members \ k.targets
      [] k.op = "update" -> members

\* Build the commit a member creates on its current state.  Its fresh key
\* material tells it apart from every other commit of the author (gen).
NewCommit(g, author, op, targets) ==
    LET k == [author |-> author, op |-> op, targets |-> targets]
    IN  [key |-> k, base |-> g.hist, members |-> Apply(g.members, k), gen |-> made[author]]

\* openmls merge_pending_commit / merge_staged_commit: the commit becomes
\* the new epoch and any pending local commit is discarded.
Merge(g, m) == [hist |-> Append(g.hist, m.key), members |-> m.members, pending |-> None]

\* openmls refuses to build a commit when the group has a pending commit or
\* the caller is no longer a member (UseAfterEviction).
CanCommit(c) ==
    /\ HasGroup(c)
    /\ c \in mem[c].members
    /\ mem[c].pending = None
    /\ Epoch(mem[c]) < MaxEpoch

\* The DS fans commits out to every client but their author.
DSKeys == [i \in 1..Len(ds) |-> ds[i].key]

TypeOK ==
    /\ mem \in [Clients -> Group \cup {NoGroup}]
    /\ disk \in [Clients -> Group \cup {NoGroup}]
    /\ changed \in [Clients -> BOOLEAN]
    /\ pc \in [Clients -> [Threads -> {"idle", "check", "persist"}]]
    /\ buf \in [Clients -> [Threads -> Group \cup {None}]]
    /\ out \in [Clients -> [Threads -> Commit \cup {None}]]
    /\ detached \in [Clients -> [Threads -> Object \cup {None}]]
    /\ ds \in Seq(Commit) /\ Len(ds) <= MaxEpoch
    /\ sent \subseteq Commit
    /\ cursor \in [Clients -> 0..MaxEpoch]
    /\ used \in [Clients -> SUBSET (1..MaxEpoch)]
    /\ restarts \in 0..MaxRestarts
    /\ made \in [Clients -> Nat]

Init ==
    /\ mem = [c \in Clients |-> NoGroup]
    /\ disk = [c \in Clients |-> NoGroup]
    /\ changed = [c \in Clients |-> FALSE]
    /\ pc = [c \in Clients |-> [t \in Threads |-> "idle"]]
    /\ buf = [c \in Clients |-> [t \in Threads |-> None]]
    /\ out = [c \in Clients |-> [t \in Threads |-> None]]
    /\ detached = [c \in Clients |-> [t \in Threads |-> None]]
    /\ ds = <<>>
    /\ sent = {}
    /\ cursor = [c \in Clients |-> 0]
    /\ used = [c \in Clients |-> {}]
    /\ restarts = 0
    /\ made = [c \in Clients |-> 0]
-----------------------------------------------------------------------------
(***************************************************************************)
(* MlsConversation::create: a one-member group; with extra_members, one    *)
(* add commit is merged at once, sent with its welcome; the group is then *)
(* saved and persisted.  Nobody else is in the group at epoch 0, so the DS *)
(* can only accept this commit: it is put on the chain directly.          *)
(***************************************************************************)
Create(extra) ==
    LET g0 == [hist |-> <<>>, members |-> {Creator}, pending |-> None]
        m  == NewCommit(g0, Creator, "add", extra)
        g  == IF extra = {} THEN g0 ELSE Merge(g0, m)
    IN
    /\ ~HasGroup(Creator) /\ disk[Creator] = NoGroup /\ ds = <<>>
    /\ Idle(Creator)
    /\ mem' = [mem EXCEPT ![Creator] = g]
    /\ disk' = [disk EXCEPT ![Creator] = g]
    /\ ds' = IF extra = {} THEN ds ELSE <<m>>
    /\ UNCHANGED <<changed, pc, buf, out, detached, sent, cursor, used, restarts, made>>

(***************************************************************************)
(* add_members / remove_members, first part (under write_group): build the *)
(* commit, merge it at once with merge_pending_commit, drop the lock.  The *)
(* commit (and for an add its welcome) is returned to the caller, who     *)
(* hands it to the DS, when the call returns.  Neither the code nor openmls checks that an added *)
(* client is not a member already.  remove_members keeps only the listed  *)
(* clients that are members; an empty list is an openmls EmptyInput error.*)
(***************************************************************************)
LocalCommit(c, t, op, targets) ==
    LET m == NewCommit(mem[c], c, op, targets)
    IN
    /\ pc[c][t] = "idle" /\ MayCall(c)
    /\ CanCommit(c)
    /\ mem' = [mem EXCEPT ![c] = Merge(mem[c], m)]
    /\ changed' = [changed EXCEPT ![c] = TRUE]
    /\ pc' = [pc EXCEPT ![c][t] = "check"]
    /\ out' = [out EXCEPT ![c][t] = m]
    /\ made' = [made EXCEPT ![c] = @ + 1]
    /\ UNCHANGED <<disk, buf, detached, ds, sent, cursor, used, restarts>>

AddMembers(c, t, kps) ==
    /\ HasGroup(c)
    /\ kps # {}
    /\ LocalCommit(c, t, "add", kps)

RemoveMembers(c, t, clients) ==
    /\ HasGroup(c)
    /\ clients \cap mem[c].members # {}
    /\ LocalCommit(c, t, "remove", clients \cap mem[c].members)

(***************************************************************************)
(* Second part: `if read_group().state_changed() == Changed` then          *)
(* `write_group().save(&mut buf)`: each takes and releases the lock.       *)
(***************************************************************************)
\* The call returns: its commit goes to the DS.
Return(c, t) ==
    /\ pc' = [pc EXCEPT ![c][t] = "idle"]
    /\ out' = [out EXCEPT ![c][t] = None]
    /\ detached' = [detached EXCEPT ![c][t] = None]
    /\ sent' = sent \cup {out[c][t]}

\* save() resets the flag of the object the call holds: the one in the map,
\* or the replaced one it shares with every other call that still holds it.
ClearChanged(c, t) ==
    IF detached[c][t] = None
    THEN changed' = [changed EXCEPT ![c] = FALSE] /\ UNCHANGED detached
    ELSE /\ detached' = [detached EXCEPT ![c] =
                [u \in Threads |-> IF detached[c][u] = detached[c][t]
                                   THEN [detached[c][t] EXCEPT !.changed = FALSE]
                                   ELSE detached[c][u]]]
         /\ UNCHANGED changed

SaveAfterCommit(c, t) ==
    /\ pc[c][t] = "check"
    /\ \/ /\ CallChanged(c, t)
          /\ buf' = [buf EXCEPT ![c][t] = CallGroup(c, t)]
          /\ ClearChanged(c, t)
          /\ pc' = [pc EXCEPT ![c][t] = "persist"]
          /\ UNCHANGED <<out, sent>>
       \/ /\ ~CallChanged(c, t)
          /\ Return(c, t)
          /\ UNCHANGED <<buf, changed>>
    /\ UNCHANGED <<mem, disk, ds, cursor, used, restarts, made>>

\* Variant: the persist may run before the save has filled buf.
PersistAfterCommit_BeforeSave(c, t) ==
    /\ pc[c][t] \in {"check", "persist"}
    /\ disk' = [disk EXCEPT ![c] = buf[c][t]]
    /\ buf' = [buf EXCEPT ![c][t] = None]
    /\ Return(c, t)
    /\ UNCHANGED <<mem, changed, ds, cursor, used, restarts, made>>

\* Third part: mls_group_persist(&self.id, &buf), with no lock held.  The
\* row is keyed by the id, whichever object the call holds.
PersistAfterCommit(c, t) ==
    /\ pc[c][t] = "persist"
    /\ disk' = [disk EXCEPT ![c] = buf[c][t]]
    /\ buf' = [buf EXCEPT ![c][t] = None]
    /\ Return(c, t)
    /\ UNCHANGED <<mem, changed, ds, cursor, used, restarts, made>>

(***************************************************************************)
(* reinit: self_update builds a commit that stays pending in openmls; the  *)
(* code neither merges nor persists it.                                    *)
(***************************************************************************)
Reinit(c) ==
    LET m == NewCommit(mem[c], c, "update", {})
    IN
    /\ MayCall(c)
    /\ CanCommit(c)
    /\ mem' = [mem EXCEPT ![c].pending = m]
    /\ changed' = [changed EXCEPT ![c] = TRUE]
    /\ sent' = sent \cup {m}
    /\ made' = [made EXCEPT ![c] = @ + 1]
    /\ UNCHANGED <<disk, pc, buf, out, detached, ds, cursor, used, restarts>>

(***************************************************************************)
(* decrypt_message on the next commit the DS delivers to c (the DS echoes  *)
(* a commit to its author too), whole body under write_group: parse and    *)
(* process_unverified_message, merge_staged_commit, then save and persist  *)
(* while the lock is still held.  openmls stages a commit only if another  *)
(* member built it on c's state and c is a member; it refuses c's own      *)
(* commit, and any other fails (WrongEpoch or a verification error).       *)
(* Either way the caller has consumed the message.  An accepted commit of  *)
(* c's own is merged only by commit_accepted, which is not part of this    *)
(* code.  The DS only feeds clients that hold the conversation.            *)
(***************************************************************************)
CanStage(c, m) ==
    /\ HasGroup(c)
    /\ m.key.author # c
    /\ m.base = mem[c].hist
    /\ c \in mem[c].members

\* Variant: the staged commit is merged and saved but not persisted.
DecryptMessage_NoPersist(c) ==
    LET m == ds[cursor[c] + 1]
    IN
    /\ MayCall(c)
    /\ HasGroup(c)
    /\ cursor[c] < Len(ds)
    /\ cursor' = [cursor EXCEPT ![c] = @ + 1]
    /\ \/ /\ CanStage(c, m)
          /\ mem' = [mem EXCEPT ![c] = Merge(mem[c], m)]
          /\ changed' = [changed EXCEPT ![c] = FALSE]
       \/ /\ ~CanStage(c, m)
          /\ UNCHANGED <<mem, changed>>
    /\ UNCHANGED <<disk, pc, buf, out, detached, ds, sent, used, restarts, made>>

\* Variant: the commit is staged but merge_staged_commit is never called.
DecryptMessage_NoMerge(c) ==
    /\ MayCall(c)
    /\ HasGroup(c)
    /\ cursor[c] < Len(ds)
    /\ cursor' = [cursor EXCEPT ![c] = @ + 1]
    /\ UNCHANGED <<mem, disk, changed, pc, buf, out, detached, ds, sent, used, restarts, made>>

DecryptMessage(c) ==
    LET m == ds[cursor[c] + 1]
    IN
    /\ MayCall(c)
    /\ HasGroup(c)
    /\ cursor[c] < Len(ds)
    /\ cursor' = [cursor EXCEPT ![c] = @ + 1]
    /\ \/ /\ CanStage(c, m)
          /\ mem' = [mem EXCEPT ![c] = Merge(mem[c], m)]
          /\ disk' = [disk EXCEPT ![c] = Merge(mem[c], m)]
          /\ changed' = [changed EXCEPT ![c] = FALSE]
       \/ /\ ~CanStage(c, m)
          /\ UNCHANGED <<mem, disk, changed>>
    /\ UNCHANGED <<pc, buf, out, detached, ds, sent, used, restarts, made>>

(***************************************************************************)
(* from_welcome_message + MlsCentral::process_welcome_message: the group   *)
(* of the welcome (the author's state after its commit) is saved and       *)
(* persisted, and a new MlsConversation is inserted in the map, replacing  *)
(* any object of that id; nothing checks that c already holds the group.   *)
(* A call still in flight keeps the replaced object, with its group and    *)
(* its state_changed flag.  The welcome's key package is consumed.  The DS *)
(* hands the welcome out with the accepted commit; the client's message    *)
(* feed starts after that commit.                                          *)
(***************************************************************************)
\* The replaced object, for every call still in flight on the map's object.
Detach(c) ==
    [t \in Threads |->
        IF pc[c][t] # "idle" /\ detached[c][t] = None
        THEN [group |-> mem[c], changed |-> changed[c]]
        ELSE detached[c][t]]

FromWelcome(c, i) ==
    LET m == ds[i]
        g == [hist |-> Append(m.base, m.key), members |-> m.members, pending |-> None]
    IN
    /\ m.key.op = "add" /\ c \in m.key.targets
    /\ i \notin used[c]
    /\ MayCall(c)
    /\ mem' = [mem EXCEPT ![c] = g]
    /\ disk' = [disk EXCEPT ![c] = g]
    /\ changed' = [changed EXCEPT ![c] = FALSE]
    /\ detached' = [detached EXCEPT ![c] = Detach(c)]
    /\ cursor' = [cursor EXCEPT ![c] = i]
    /\ used' = [used EXCEPT ![c] = @ \cup {i}]
    /\ UNCHANGED <<pc, buf, out, ds, sent, restarts, made>>

(***************************************************************************)
(* Crash and restart of c's process: memory and in-flight calls are lost, *)
(* with any commit a call had not yet returned;                          *)
(* MlsCentral::restore_groups reloads the group row with                   *)
(* from_serialized_state.                                                  *)
(***************************************************************************)
Restart(c) ==
    /\ restarts < MaxRestarts
    /\ restarts' = restarts + 1
    /\ mem' = [mem EXCEPT ![c] = disk[c]]
    /\ changed' = [changed EXCEPT ![c] = FALSE]
    /\ pc' = [pc EXCEPT ![c] = [t \in Threads |-> "idle"]]
    /\ buf' = [buf EXCEPT ![c] = [t \in Threads |-> None]]
    /\ out' = [out EXCEPT ![c] = [t \in Threads |-> None]]
    /\ detached' = [detached EXCEPT ![c] = [t \in Threads |-> None]]
    /\ UNCHANGED <<disk, ds, sent, cursor, used, made>>

(***************************************************************************)
(* The Delivery Service accepts a commit when it is for the group's        *)
(* current epoch (it cannot see more of the sender's state); every other   *)
(* commit for that epoch is rejected.                                      *)
(***************************************************************************)
DSAccept(m) ==
    /\ Len(m.base) = Len(ds)
    /\ ds' = Append(ds, m)
    /\ sent' = {x \in sent : Len(x.base) > Len(ds)}
    /\ UNCHANGED <<mem, changed, disk, pc, buf, out, detached, cursor, used, restarts, made>>
-----------------------------------------------------------------------------
Next ==
    \/ \E extra \in SUBSET (Clients \ {Creator}) : Create(extra)
    \/ \E c \in Clients :
         \/ \E t \in Threads, s \in SUBSET (Clients \ {c}) :
              AddMembers(c, t, s) \/ RemoveMembers(c, t, s)
         \/ \E t \in Threads : SaveAfterCommit(c, t) \/ PersistAfterCommit(c, t)
         \/ Reinit(c)
         \/ DecryptMessage(c)
         \/ \E i \in 1..Len(ds) : FromWelcome(c, i)
         \/ Restart(c)
    \/ \E m \in sent : DSAccept(m)

Spec == Init /\ [][Next]_vars

(***************************************************************************)
(* The host passes every message the DS fans out to decrypt_message, and  *)
(* an add/remove call that has started runs to its end (the executor      *)
(* resumes it).  Users, other members and the DS owe nothing: no fairness *)
(* on commits, welcomes, reinit, DSAccept or restarts.                     *)
(***************************************************************************)
Fairness ==
    \A c \in Clients :
        /\ WF_vars(DecryptMessage(c))
        /\ \A t \in Threads : WF_vars(SaveAfterCommit(c, t)) /\ WF_vars(PersistAfterCommit(c, t))
FairSpec == Spec /\ Fairness
-----------------------------------------------------------------------------
(***************************************************************************)
(* Spec section 4.4.1: a commit a member creates leaves the group in       *)
(* PendingLocalCommit and is merged only once the DS accepted it, so all   *)
(* members see one chain of epochs.  Any two clients' merged histories    *)
(* are therefore comparable: one is a prefix of the other.  add_members   *)
(* and remove_members merge their commit at once.                          *)
(***************************************************************************)
NoFork ==
    \A c, d \in Clients :
        HasGroup(c) /\ HasGroup(d) =>
            IsPrefix(mem[c].hist, mem[d].hist) \/ IsPrefix(mem[d].hist, mem[c].hist)

(***************************************************************************)
(* Spec section 5 (persist before report): once no call of c is in flight, *)
(* the group row written by mls_group_persist is the group c holds in      *)
(* memory, so a restart resumes from the same epoch.                       *)
(***************************************************************************)
PersistedWhenIdle ==
    \A c \in Clients :
        Idle(c) /\ HasGroup(c) => disk[c] # NoGroup /\ disk[c].hist = mem[c].hist

(***************************************************************************)
(* add_members/remove_members skip the save when read_group().state_changed *)
(* is no longer Changed and then report their commit, trusting that       *)
(* whoever cleared the flag has persisted the group (spec section 5:       *)
(* persisted before reported): whenever a tail sees the flag clear, the    *)
(* row holds the history of the object the call works on.                 *)
(***************************************************************************)
SkipSaveIsSafe ==
    \A c \in Clients, t \in Threads :
        pc[c][t] = "check" /\ ~CallChanged(c, t) =>
            disk[c] # NoGroup /\ disk[c].hist = CallGroup(c, t).hist

\* The first n commits the DS accepted are each built on the ones before.
Consistent(n) == \A i \in 1..n : ds[i].base = SubSeq(DSKeys, 1, i - 1)

\* The DS only checks the epoch, so after a fork it can accept a commit
\* built on a history it never saw; the chain is the prefix before that.
Chain == LET n == CHOOSE n \in 0..Len(ds) :
                      Consistent(n) /\ \A k \in 0..Len(ds) : Consistent(k) => k <= n
         IN  SubSeq(DSKeys, 1, n)

\* c holds the group as a member and has merged nothing off the chain.
OnChain(c) == HasGroup(c) /\ c \in mem[c].members /\ IsPrefix(mem[c].hist, Chain)

\* The next commit of the chain is c's own: a reinit's self-update, or an
\* add/remove commit a restart or a welcome took out of memory.  openmls
\* refuses to process it, and only commit_accepted (not part of this code)
\* would merge it.
OwnCommitNext(c) ==
    \E i \in 1..Len(ds) : ds[i].key.author = c /\ ds[i].base = mem[c].hist

(***************************************************************************)
(* Catch-up (spec 4.4.3 steps 6-7): a member on the DS's chain eventually *)
(* holds every commit of the chain, by decrypt_message staging and merging *)
(* the commits of others, across failed decrypts of its own echoed        *)
(* commits, restarts and welcomes, unless it leaves the chain (it is      *)
(* removed, or merged a commit of its own the DS then rejected) or the    *)
(* next commit of the chain is its own, which decrypt_message cannot      *)
(* merge.                                                                 *)
(***************************************************************************)
CatchUp ==
    \A c \in Clients :
        OnChain(c) ~> (~OnChain(c) \/ mem[c].hist = Chain \/ OwnCommitNext(c))
=============================================================================
