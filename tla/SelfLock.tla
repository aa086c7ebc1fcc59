------------------------------ MODULE SelfLock ------------------------------
(***************************************************************************)
(* The resources sealed to the account's default identity ("self-lock"):   *)
(* how RunSync syncs them and recovers those sealed to a superseded key    *)
(* (runSelfLock of cloud/runsync.go), how a device that changes its        *)
(* default re-seals them (cloud/rekey.go), and the three-way sync of the   *)
(* settings (cloud/sync.go).                                               *)
(*                                                                         *)
(* Three resources: "contacts" is a snapshot and a log, "groups" a merged  *)
(* blob (the notifications are handled like it), "settings" one document.  *)
(* Devices have the entries of their lists from before; the lists are not  *)
(* edited here.  A pass over contacts, the compaction that ends it         *)
(* included, or over groups is one step: ContactsSync and GroupsSync have  *)
(* its parts.  An append is one op, whatever it holds.                     *)
(*                                                                         *)
(* The server is external: it accepts a PUT or a snapshot against the      *)
(* current version only, 0 meaning that there is none.                     *)
(***************************************************************************)
EXTENDS Integers, FiniteSets

CONSTANTS
    Device,                \* the account's devices
    Key,                   \* keys of default identities
    FirstKey,              \* the default's key to begin with
    Item,                  \* entries of the contact list and of the groups
    Value,                 \* contents of the settings
    Default,               \* the settings of a new device
    NoDigest,              \* SettingsDigest is "": the settings were never synced
    NoShadow,              \* there is no shadow file
    Mode,                  \* kinds of runs: [sel, background], what they select
    mergeBlobMaxAttempts,  \* PUTs of one reseal
    ContactsCompactThreshold,  \* ops past the snapshot that a pass leaves
    MaxEvents              \* bound: runs, re-keys, edits, failures and crashes

Resource == {"contacts", "groups", "settings"}

ASSUME SelfLockAssumption ==
    /\ FirstKey \in Key
    /\ Default \in Value
    /\ NoDigest \notin Value
    /\ \A S \in SUBSET Item : S # NoShadow
    /\ Mode \subseteq [sel : SUBSET Resource, background : BOOLEAN]
    /\ mergeBlobMaxAttempts \in Nat \ {0}
    /\ ContactsCompactThreshold \in Nat
    /\ MaxEvents \in Nat

VARIABLES
    blob,      \* server: blob[r]: [ver, key, data]
    through,   \* server: ThroughSeq of the contacts snapshot
    ops,       \* server: the log, a set of [seq, key, data]
    head,      \* server: MaxSeq of the log
    key,       \* key[d]: the key of d's default identity
    local,     \* local[d][r]: d's own copy
    shadow,    \* shadow[d]: the contacts of the last pass, or NoShadow
    saved,     \* saved[d]: the persisted SyncPositions
    pending,   \* pending[d]: the ResealPending d's user was shown
    run,       \* run[d]: the variables of d's RunSync or RekeySelfLock
    behind,    \* history: behind[d]: d's digest may not be that of what it uploaded
    events     \* number of events so far

server == <<blob, through, ops, head>>
vars   == <<server, key, local, shadow, saved, pending, run, behind, events>>

NoPos == [ver |-> 0, digest |-> NoDigest, seq |-> 0, snap |-> 0]

\* "at" is the version a PUT names, "src" the plaintext it seals.
NoRun == [pc |-> "idle", rekey |-> FALSE, todo |-> {}, probe |-> {}, approve |-> {},
          need |-> {}, ver |-> [r \in Resource |-> 0], through |-> 0, head |-> 0,
          pos |-> NoPos, cur |-> "none", src |-> {}, at |-> 0, tries |-> 0]

Copy(S) == [r \in Resource |-> IF r = "settings" THEN {Default} ELSE S]

\* The account is new, and devices may have entries from before; or all devices
\* are in sync, after a first upload and a reseal.
Init ==
    /\ \/ /\ blob = [r \in Resource |-> [ver |-> 0, key |-> FirstKey, data |-> {}]]
          /\ local \in [Device -> {Copy(S) : S \in SUBSET Item}]
          /\ shadow = [d \in Device |-> NoShadow]
          /\ saved = [d \in Device |-> NoPos]
       \/ /\ blob = [r \in Resource |-> [ver |-> 1, key |-> FirstKey, data |-> Copy(Item)[r]]]
          /\ local = [d \in Device |-> Copy(Item)]
          /\ shadow = [d \in Device |-> Item]
          /\ saved = [d \in Device |-> [ver |-> 1, digest |-> Default, seq |-> 0, snap |-> 1]]
    /\ through = 0
    /\ ops = {}
    /\ head = 0
    /\ key = [d \in Device |-> FirstKey]
    /\ pending = [d \in Device |-> {}]
    /\ run = [d \in Device |-> NoRun]
    /\ behind = [d \in Device |-> FALSE]
    /\ events = 0

Event == events < MaxEvents /\ events' = events + 1

-----------------------------------------------------------------------------
(* The user.                                                                *)

EditSettings(d, v) ==
    /\ Event
    /\ local[d]["settings"] # {v}
    /\ local' = [local EXCEPT ![d]["settings"] = {v}]
    /\ behind' = [behind EXCEPT ![d] = @ \/ run[d].pc \in {"push", "pull", "digest", "reseal"}]
    /\ UNCHANGED <<server, key, shadow, saved, pending, run>>

-----------------------------------------------------------------------------
(* RunSync, as far as runSelfLock goes.                                     *)

\* LoadPositions and FetchSyncState; runSelfLock needs contacts or settings.
Fetched(d) ==
    [NoRun EXCEPT !.ver = [r \in Resource |-> blob[r].ver],
                  !.through = through, !.head = head, !.pos = saved[d]]

\* Identity roaming, the first part of the run, may bring the default of e.
Start(d, e, mode, approve) ==
    /\ run[d].pc = "idle"
    /\ key' = [key EXCEPT ![d] = key[e]]
    /\ mode.sel \cap {"contacts", "settings"} # {}
    /\ approve \in {{}, pending[d]}
    /\ Event
    /\ run' = [run EXCEPT ![d] =
                 [Fetched(d) EXCEPT !.pc = "sync", !.todo = mode.sel, !.approve = approve,
                                    !.probe = IF mode.background THEN {} ELSE Resource \ mode.sel]]
    /\ pending' = [pending EXCEPT ![d] = {}]
    /\ UNCHANGED <<server, local, shadow, saved, behind>>

Order(r) == CASE r = "contacts" -> 1 [] r = "groups" -> 2 [] r = "settings" -> 3

\* d is about to sync r.
Turn(d, r) ==
    /\ run[d].pc = "sync"
    /\ ~run[d].rekey
    /\ r \in run[d].todo
    /\ \A q \in run[d].todo : Order(r) <= Order(q)

Openable(d, r) == blob[r].ver = 0 \/ blob[r].key = key[d]

\* The run goes on without r; what it knew of r is not used again.
Done(w, r) ==
    [w EXCEPT !.pc = "sync", !.todo = @ \ {r}, !.probe = @ \ {r}, !.approve = @ \ {r},
              !.ver[r] = 0, !.through = IF r = "contacts" THEN 0 ELSE @,
              !.head = IF r = "contacts" THEN 0 ELSE @,
              !.cur = "none", !.src = {}, !.at = 0, !.tries = 0]

\* localSourceHasData; canRecoverLocally.
HasData(r, data) == r = "settings" \/ data # {}

CanRecover(w, d, r) ==
    IF r = "settings" THEN w.pos.digest # NoDigest ELSE local[d][r] # {}

\* resealFromLocal and resealContacts load the local copy before their loop.
ToReseal(w, d, r) ==
    [w EXCEPT !.pc = "reseal", !.cur = r, !.src = local[d][r], !.at = w.ver[r], !.tries = 0]

\* Mutant of RecoverOrphan: the reseal does not wait for the user.
RecoverWithoutAsking(w, d, r) ==
    run' = [run EXCEPT ![d] = IF CanRecover(w, d, r) THEN ToReseal(w, d, r) ELSE Done(w, r)]

\* recoverOrphan: not without local data, not without approval.  w is the run as
\* the attempt left it.
RecoverOrphan(w, d, r) ==
    run' = [run EXCEPT ![d] =
              IF ~CanRecover(w, d, r) THEN Done(w, r)
              ELSE IF r \notin w.approve THEN [Done(w, r) EXCEPT !.need = w.need \cup {r}]
              ELSE ToReseal(w, d, r)]

-----------------------------------------------------------------------------
(* Contacts and groups: one pass.                                           *)

Known(d) == IF shadow[d] = NoShadow THEN {} ELSE shadow[d]

\* The local edits, by diffContacts.
Mine(d) == local[d]["contacts"] \ Known(d)

ContactsIdle(d) ==
    LET w == run[d] IN
    /\ w.ver["contacts"] = w.pos.snap
    /\ w.head = w.pos.seq
    /\ Mine(d) = {}
    /\ shadow[d] # NoShadow

\* A device behind the snapshot's through-seq, or without a shadow, starts from the
\* snapshot; others only record its version.
Bootstraps(d) ==
    LET w == run[d] IN
    /\ w.ver["contacts"] # w.pos.snap \/ shadow[d] = NoShadow
    /\ w.ver["contacts"] # 0
    /\ shadow[d] = NoShadow \/ w.pos.seq < w.through

FromSeq(d) == IF Bootstraps(d) THEN run[d].through ELSE run[d].pos.seq

\* Ops are fetched if the state GET showed some, or to fill the gap before an append.
Fetches(d) == run[d].head > FromSeq(d)

News(d) == IF Fetches(d) \/ Mine(d) # {} THEN {o \in ops : o.seq > FromSeq(d)} ELSE {}

Appended(d) ==
    IF Mine(d) = {} THEN ops
    ELSE ops \cup {[seq |-> head + 1, key |-> key[d], data |-> Mine(d)]}

NewHead(d) == IF Mine(d) = {} THEN head ELSE head + 1

SnapshotOpens(d) == Bootstraps(d) => Openable(d, "contacts")

\* The snapshot or an op is sealed to another key.  What the pass had read so far is
\* not saved, but the position has advanced over it; own ops are on the log if what
\* did not open was in the gap before them.
ContactsSealed(d) ==
    LET w    == run[d]
        read == {o \in News(d) : \A q \in News(d) : q.seq <= o.seq => q.key = key[d]}
    IN
    /\ ~ContactsIdle(d)
    /\ IF SnapshotOpens(d)
       THEN /\ \E o \in News(d) : o.key # key[d]
            /\ \E n \in {FromSeq(d)} \cup (IF Fetches(d) THEN {o.seq : o \in read} ELSE {}) :
                 /\ \A o \in read : Fetches(d) => o.seq <= n
                 /\ RecoverOrphan([w EXCEPT !.pos.seq = n, !.pos.snap = w.ver["contacts"]],
                                  d, "contacts")
            /\ ops' = IF Fetches(d) THEN ops ELSE Appended(d)
            /\ head' = IF Fetches(d) THEN head ELSE NewHead(d)
       ELSE RecoverOrphan(w, d, "contacts") /\ UNCHANGED <<ops, head>>
    /\ UNCHANGED <<blob, through, local, shadow>>

\* The pass succeeds; compactContacts ends it when the log past the snapshot is long,
\* whatever key the snapshot is sealed to.  A conflict means that there is a newer one.
ContactsMerged(d) ==
    LET w      == run[d]
        merged == (IF Bootstraps(d) THEN blob["contacts"].data ELSE Known(d))
                     \cup (UNION {o.data : o \in News(d)}) \cup Mine(d)
        last   == IF Mine(d) # {} \/ News(d) # {} THEN NewHead(d) ELSE FromSeq(d)
        compacts == /\ last - w.through > ContactsCompactThreshold
                    /\ w.ver["contacts"] = blob["contacts"].ver
    IN
    /\ ~ContactsIdle(d)
    /\ SnapshotOpens(d)
    /\ \A o \in News(d) : o.key = key[d]
    /\ head' = NewHead(d)
    /\ local' = [local EXCEPT ![d]["contacts"] = merged]
    /\ shadow' = [shadow EXCEPT ![d] = merged]
    /\ IF compacts
       THEN /\ blob' = [blob EXCEPT !["contacts"] =
                          [ver |-> @.ver + 1, key |-> key[d], data |-> merged]]
            /\ through' = last
            /\ ops' = {o \in Appended(d) : o.seq > last}
       ELSE ops' = Appended(d) /\ UNCHANGED <<blob, through>>
    /\ run' = [run EXCEPT ![d] =
                 [Done(@, "contacts") EXCEPT
                    !.pos.seq = last,
                    !.pos.snap = IF compacts THEN w.ver["contacts"] + 1 ELSE w.ver["contacts"]]]

\* SyncContactsOps.
SyncContacts(d) ==
    /\ Turn(d, "contacts")
    /\ \/ /\ ContactsIdle(d)
          /\ run' = [run EXCEPT ![d] = Done(@, "contacts")]
          /\ UNCHANGED <<blob, through, ops, head, local, shadow>>
       \/ ContactsSealed(d)
       \/ ContactsMerged(d)
    /\ UNCHANGED <<key, saved, pending, behind, events>>

\* syncGroupsBlob and NotificationStore.Sync.
SyncGroups(d) ==
    LET merged == local[d]["groups"] \cup blob["groups"].data IN
    /\ Turn(d, "groups")
    /\ IF Openable(d, "groups")
       THEN /\ local' = [local EXCEPT ![d]["groups"] = merged]
            /\ blob' = IF blob["groups"].ver # 0 /\ merged = blob["groups"].data THEN blob
                       ELSE [blob EXCEPT !["groups"] =
                               [ver |-> @.ver + 1, key |-> key[d], data |-> merged]]
            /\ run' = [run EXCEPT ![d] = Done(@, "groups")]
       ELSE RecoverOrphan(run[d], d, "groups") /\ UNCHANGED <<blob, local>>
    /\ UNCHANGED <<through, ops, head, key, shadow, saved, pending, behind, events>>

-----------------------------------------------------------------------------
(* Settings: SyncSettingsGated, SyncResource, pullResource.                 *)

\* The idle check: nothing moved on either side.
SettingsIdle(d) ==
    LET w == run[d] IN
    /\ w.ver["settings"] # 0
    /\ w.ver["settings"] = w.pos.ver
    /\ local[d]["settings"] = {w.pos.digest}

\* applyPulled, or equal copies: the local copy is the cloud's.
Adopt(d) ==
    /\ local' = [local EXCEPT ![d]["settings"] = blob["settings"].data]
    /\ run' = [run EXCEPT ![d].pc = "digest", ![d].pos.ver = blob["settings"].ver]

\* Mutant of SyncSettings: any local change is pushed.
SettingsPushAlways(d) ==
    LET b == blob["settings"] IN
    /\ Turn(d, "settings")
    /\ IF SettingsIdle(d)
       THEN run' = [run EXCEPT ![d] = Done(@, "settings")] /\ UNCHANGED local
       ELSE IF ~Openable(d, "settings") THEN RecoverOrphan(run[d], d, "settings") /\ UNCHANGED local
       ELSE IF b.ver = 0 \/ local[d]["settings"] # b.data
       THEN /\ run' = [run EXCEPT ![d].pc = "push", ![d].at = b.ver,
                                  ![d].src = local[d]["settings"]]
            /\ UNCHANGED local
       ELSE Adopt(d)
    /\ UNCHANGED <<server, key, shadow, saved, pending, behind, events>>

\* Pushed if there is no cloud copy or only the local one changed; else adopted.
SyncSettings(d) ==
    LET b == blob["settings"]
        last == run[d].pos.ver
    IN
    /\ Turn(d, "settings")
    /\ IF SettingsIdle(d)
       THEN run' = [run EXCEPT ![d] = Done(@, "settings")] /\ UNCHANGED local
       ELSE IF ~Openable(d, "settings") THEN RecoverOrphan(run[d], d, "settings") /\ UNCHANGED local
       ELSE IF b.ver = 0 \/ (local[d]["settings"] # b.data /\ last # 0 /\ b.ver = last)
       THEN /\ run' = [run EXCEPT ![d].pc = "push", ![d].at = b.ver,
                                  ![d].src = local[d]["settings"]]
            /\ UNCHANGED local
       ELSE Adopt(d)
    /\ UNCHANGED <<server, key, shadow, saved, pending, behind, events>>

\* Mutant of Push: a conflict counts as "already there" and its version is recorded.
PushTakesVersion(d) ==
    LET w == run[d] IN
    /\ w.pc = "push"
    /\ IF w.at = blob["settings"].ver
       THEN blob' = [blob EXCEPT !["settings"] =
                       [ver |-> @.ver + 1, key |-> key[d], data |-> w.src]]
       ELSE UNCHANGED blob
    /\ run' = [run EXCEPT ![d].pc = "digest", ![d].pos.ver = blob'["settings"].ver]
    /\ UNCHANGED <<through, ops, head, key, local, shadow, saved, pending, behind, events>>

\* A conflict of the first upload is an error; a later one falls back to pulling.
Push(d) ==
    LET w == run[d] IN
    /\ w.pc = "push"
    /\ IF w.at = blob["settings"].ver
       THEN /\ blob' = [blob EXCEPT !["settings"] =
                          [ver |-> @.ver + 1, key |-> key[d], data |-> w.src]]
            /\ run' = [run EXCEPT ![d].pc = "digest", ![d].pos.ver = w.at + 1]
       ELSE /\ run' = [run EXCEPT ![d] = IF w.at = 0 THEN Done(w, "settings")
                                                     ELSE [w EXCEPT !.pc = "pull"]]
            /\ UNCHANGED blob
    /\ UNCHANGED <<through, ops, head, key, local, shadow, saved, pending, behind, events>>

Pull(d) ==
    /\ run[d].pc = "pull"
    /\ IF Openable(d, "settings") THEN Adopt(d)
                                  ELSE RecoverOrphan(run[d], d, "settings") /\ UNCHANGED local
    /\ UNCHANGED <<server, key, shadow, saved, pending, behind, events>>

\* The digest is taken of what is on disk by now.
Redigest(d) ==
    /\ run[d].pc = "digest"
    /\ run' = [run EXCEPT ![d] =
                 [Done(@, "settings") EXCEPT
                    !.pos.digest = CHOOSE v \in Value : local[d]["settings"] = {v}]]
    /\ UNCHANGED <<server, key, local, shadow, saved, pending, behind, events>>

-----------------------------------------------------------------------------
(* Reseals.                                                                 *)

\* A resource that was not selected is only looked at: is it orphaned?
Probe(d, r) ==
    LET w == run[d] IN
    /\ w.pc = "sync" /\ ~w.rekey
    /\ w.todo = {}
    /\ r \in w.probe
    /\ \A q \in w.probe : Order(r) <= Order(q)
    /\ IF (w.ver[r] # 0 \/ (r = "contacts" /\ w.head # 0)) /\ ~Openable(d, r)
       THEN RecoverOrphan(w, d, r)
       ELSE run' = [run EXCEPT ![d] = Done(w, r)]
    /\ UNCHANGED <<server, key, local, shadow, saved, pending, behind, events>>

\* A device gets a default of its own making; RekeyDefaultSelfLock follows, or
\* cannot (no session).
NewDefault(d, k, online) ==
    /\ run[d].pc = "idle"
    /\ k \notin {key[e] : e \in Device} \cup {blob[r].key : r \in Resource} \cup {o.key : o \in ops}
    /\ k # FirstKey
    /\ key' = [key EXCEPT ![d] = k]
    /\ Event
    /\ run' = IF online
              THEN [run EXCEPT ![d] =
                      [Fetched(d) EXCEPT !.pc = "sync", !.rekey = TRUE,
                                         !.todo = IF saved[d].digest = NoDigest
                                                  THEN Resource \ {"settings"} ELSE Resource]]
              ELSE run
    /\ UNCHANGED <<server, local, shadow, saved, pending, behind>>

RekeyOrder(r) == CASE r = "settings" -> 1 [] r = "groups" -> 2 [] r = "contacts" -> 3

RekeyNext(d, r) ==
    LET w == run[d] IN
    /\ w.pc = "sync" /\ w.rekey
    /\ r \in w.todo
    /\ \A q \in w.todo : RekeyOrder(r) <= RekeyOrder(q)
    /\ run' = [run EXCEPT ![d] = ToReseal(w, d, r)]
    /\ UNCHANGED <<server, key, local, shadow, saved, pending, behind, events>>

\* Mutant of NothingToSeal: the guard is checked before the first PUT only.
NothingToSealAtFirst(w) ==
    w.tries = 0 /\ ~HasData(w.cur, w.src) /\ (w.at > 0 \/ (w.cur = "contacts" /\ w.head > 0))

\* ErrNoLocalToRecover: the cloud has something, this device has not.
NothingToSeal(w) ==
    ~HasData(w.cur, w.src) /\ (w.at > 0 \/ (w.cur = "contacts" /\ w.head > 0))

SkipReseal(d) ==
    /\ run[d].pc = "reseal"
    /\ run[d].tries < mergeBlobMaxAttempts
    /\ NothingToSeal(run[d])
    /\ run' = [run EXCEPT ![d] = Done(@, @.cur)]
    /\ UNCHANGED <<server, key, local, shadow, saved, pending, behind, events>>

\* resealBlob's PUT, or the CompactOps of resealContacts, which also drops the ops
\* up to the head the run fetched, and the shadow.
Reseal(d) ==
    LET w == run[d]
        r == w.cur
    IN
    /\ w.pc = "reseal"
    /\ w.tries < mergeBlobMaxAttempts
    /\ ~NothingToSeal(w)
    /\ w.at = blob[r].ver
    /\ blob' = [blob EXCEPT ![r] = [ver |-> @.ver + 1, key |-> key[d], data |-> w.src]]
    /\ IF r = "contacts"
       THEN /\ through' = w.head
            /\ ops' = {o \in ops : o.seq > w.head}
            /\ shadow' = [shadow EXCEPT ![d] = NoShadow]
            /\ run' = [run EXCEPT ![d] = [Done(w, r) EXCEPT !.pos.seq = w.head,
                                                            !.pos.snap = w.at + 1]]
       ELSE /\ run' = [run EXCEPT ![d] =
                         IF r = "settings" THEN [Done(w, r) EXCEPT !.pos.ver = w.at + 1]
                                           ELSE Done(w, r)]
            /\ UNCHANGED <<through, ops, shadow>>
    /\ behind' = [behind EXCEPT ![d] = @ \/ (r = "settings" /\ w.src # {w.pos.digest})]
    /\ UNCHANGED <<head, key, local, saved, pending, events>>

\* The version moved: read it again (contacts: the whole state) and retry.
ResealConflicts(d) ==
    LET w == run[d]
        r == w.cur
    IN
    /\ w.pc = "reseal"
    /\ w.tries < mergeBlobMaxAttempts
    /\ ~NothingToSeal(w)
    /\ w.at # blob[r].ver
    /\ run' = [run EXCEPT ![d].at = blob[r].ver, ![d].tries = @ + 1,
                          ![d].head = IF r = "contacts" THEN head ELSE @]
    /\ UNCHANGED <<server, key, local, shadow, saved, pending, behind, events>>

\* An error: a run goes on with the next resource, a re-key ends unsaved.
Failed(d) == IF run[d].rekey THEN NoRun
             ELSE Done(run[d], IF run[d].pc = "reseal" THEN run[d].cur ELSE "settings")

TooManyConflicts(d) ==
    /\ run[d].pc = "reseal"
    /\ run[d].tries = mergeBlobMaxAttempts
    /\ run' = [run EXCEPT ![d] = Failed(d)]
    /\ UNCHANGED <<server, key, local, shadow, saved, pending, behind, events>>

-----------------------------------------------------------------------------
(* The end of a run.                                                        *)

\* SavePositions; resources that need an approval are reported.
Finish(d) ==
    LET w == run[d] IN
    /\ w.pc = "sync"
    /\ w.todo = {} /\ w.probe = {}
    /\ saved' = [saved EXCEPT ![d] = w.pos]
    /\ pending' = [pending EXCEPT ![d] = w.need]
    /\ run' = [run EXCEPT ![d] = NoRun]
    /\ UNCHANGED <<server, key, local, shadow, behind, events>>

CallFails(d) ==
    /\ Event
    /\ run[d].pc \in {"push", "pull", "reseal"}
    /\ run' = [run EXCEPT ![d] = Failed(d)]
    /\ UNCHANGED <<server, key, local, shadow, saved, pending, behind>>

\* The process ends: what the run had learned is lost.
Crash(d) ==
    /\ Event
    /\ run[d].pc # "idle"
    /\ run' = [run EXCEPT ![d] = NoRun]
    /\ UNCHANGED <<server, key, local, shadow, saved, pending, behind>>

\* LogOut clears positions and shadow.
LogOut(d) ==
    /\ Event
    /\ run[d].pc = "idle"
    /\ saved' = [saved EXCEPT ![d] = NoPos]
    /\ shadow' = [shadow EXCEPT ![d] = NoShadow]
    /\ UNCHANGED <<server, key, local, pending, run, behind>>

-----------------------------------------------------------------------------

UserStep(d) ==
    \/ \E v \in Value : EditSettings(d, v)
    \/ \E k \in Key, online \in BOOLEAN : NewDefault(d, k, online)
    \/ \E e \in Device, mode \in Mode, approve \in SUBSET Resource : Start(d, e, mode, approve)

RunStep(d) ==
    \/ SyncContacts(d) \/ SyncGroups(d) \/ SyncSettings(d)
    \/ Push(d) \/ Pull(d) \/ Redigest(d)
    \/ \E r \in Resource : Probe(d, r) \/ RekeyNext(d, r)
    \/ SkipReseal(d) \/ Reseal(d) \/ ResealConflicts(d) \/ TooManyConflicts(d)
    \/ Finish(d)

Next ==
    \E d \in Device : UserStep(d) \/ RunStep(d) \/ CallFails(d) \/ Crash(d) \/ LogOut(d)

Spec == Init /\ [][Next]_vars

-----------------------------------------------------------------------------
(* Properties.                                                              *)

Data == SUBSET (Item \cup Value)

Pos == [ver : Nat, digest : Value \cup {NoDigest}, seq : Nat, snap : Nat]

Label == {"idle", "sync", "push", "pull", "digest", "reseal"}

\* Type invariant; every copy of the settings is one value, not none and not two.
TypeOK ==
    /\ blob \in [Resource -> [ver : Nat, key : Key, data : Data]]
    /\ through \in Nat
    /\ head \in Nat
    /\ ops \subseteq [seq : 1..head, key : Key, data : SUBSET Item]
    /\ key \in [Device -> Key]
    /\ local \in [Device -> [Resource -> Data]]
    /\ \A d \in Device : shadow[d] = NoShadow \/ shadow[d] \in SUBSET Item
    /\ saved \in [Device -> Pos]
    /\ pending \in [Device -> SUBSET Resource]
    /\ run \in [Device -> [pc : Label, rekey : BOOLEAN, todo : SUBSET Resource,
                           probe : SUBSET Resource, approve : SUBSET Resource,
                           need : SUBSET Resource, ver : [Resource -> Nat],
                           through : Nat, head : Nat, pos : Pos,
                           cur : Resource \cup {"none"}, src : Data, at : Nat,
                           tries : 0..mergeBlobMaxAttempts]]
    /\ behind \in [Device -> BOOLEAN]
    /\ events \in 0..MaxEvents
    /\ \A d \in Device : \E v \in Value : local[d]["settings"] = {v}

\* What the cloud holds of a list.
Stored(r) == blob[r].data \cup (IF r = "contacts" THEN UNION {o.data : o \in ops} ELSE {})

\* "an existing cloud blob must never be overwritten with an empty/default local
\* source": whatever is re-keyed, recovered, retried or synced at the same time, a
\* list the cloud has entries of is never emptied.
NeverWiped ==
    [][\A r \in {"contacts", "groups"} : Stored(r) # {} => Stored(r)' # {}]_vars

\* "a create/import re-key never clobbers another device's settings": the settings
\* in the cloud are replaced only by a device that has synced settings before.
FreshKeepsSettings ==
    [][\A d \in Device :
          (Push(d) \/ Reseal(d)) /\ blob["settings"].ver # 0 /\ blob["settings"] # blob'["settings"]
             => run[d].pos.digest # NoDigest \/ run[d].pos.ver # 0]_vars

\* d replaces the copy of r, which is sealed to another key, in a run.
ReplacesForeign(d, r) ==
    /\ RunStep(d)
    /\ blob[r].ver # 0
    /\ blob[r].key # key[d]
    /\ blob'[r] # blob[r]

Approved(d, r) == run[d].rekey \/ r \in run[d].approve

\* "overwrites the cloud copy ... Never automatic": a copy sealed to another key is
\* replaced only by a re-key of the device's own default or with the user's approval
\* of this resource, although versions move while the run waits.  The one exception
\* is a compaction by a device that has a shadow and is past the snapshot's
\* through-seq, which takes it to hold what the snapshot contains.
ForeignNeedsApproval ==
    [][\A d \in Device : \A r \in Resource :
          ReplacesForeign(d, r) =>
             \/ Approved(d, r)
             \/ /\ r = "contacts" /\ SyncContacts(d)
                /\ shadow[d] # NoShadow /\ run[d].pos.seq >= through]_vars

\* The same without the exception.  (The code does not keep this one: README, Findings.)
NeverAutomatic ==
    [][\A d \in Device : \A r \in Resource : ReplacesForeign(d, r) => Approved(d, r)]_vars

\* The idle check is right: a device whose saved version and digest say that
\* nothing moved has the settings the cloud has.  There are two exceptions: the
\* user edited the settings between their upload and the digest, or a reseal
\* uploaded settings that were not yet synced; it records the version only.
IdleMeansSame ==
    \A d \in Device :
        /\ blob["settings"].ver # 0
        /\ saved[d].ver = blob["settings"].ver
        /\ local[d]["settings"] = {saved[d].digest}
        => behind[d] \/ local[d]["settings"] = blob["settings"].data

\* "never from a device that lacks the data": the contacts that the account's log
\* and snapshot hold are still held after a recovery that the user approved.
\* (The code does not keep this one: README, Findings.)
ResealKeepsContacts ==
    [][\A d \in Device :
          Reseal(d) /\ ~run[d].rekey => Stored("contacts") \subseteq Stored("contacts")']_vars

=============================================================================
