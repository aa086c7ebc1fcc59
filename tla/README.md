# TLA+ verification of icfx

icfx is the Go library behind InstaCrypt's clients: it keeps identities, contacts
and groups on a device, encrypts and signs files, and synchronises the user's data
between devices through a zero-knowledge server.  This directory holds TLA+ models
of the parts in which several actors meet (devices, the server, the user interface,
a crash), the TLC configurations that check them and TLAPS proofs.

Paths below are relative to the repository; `PROJECT.json` maps every definition to
the lines it models.

## Inventory

| Part | State | Operations | What is hard |
|---|---|---|---|
| Contacts sync (`cloud/sync_contacts.go`, `cloud/ops.go`) | server: op log, snapshot blob with version and through-seq; device: `contacts.json`, `contacts_shadow.json`, position (seq, snapshot version) | one pass: state GET, plan gate, diff, bootstrap, pull, push, gap, save, shadow, compaction, save positions | two devices interleave at every call; a compaction truncates what another device still has to read; a pass fails or dies between any two writes |
| Contact store (`contacts/`) | contact list by alias | add, remove, connection state, key rotation | UI and sync write the same file |
| Groups (`groups/`, `cloud/envelope.go`, `cloud/blob.go`) | device: groups and tombstones; server: one versioned blob | add, edit, remove; read-merge-write loop with a bounded number of conflicts | lost updates, resurrected deletions, ties between clocks, endless pushing |
| Notifications (`cloud/notifications.go`) | rows, tombstones, per-device flags | reconcile with the share inbox and the pending inbox, dismiss, merged-blob sync | caps on rows and tombstones, edits during a sync |
| Identity roaming (`cloud/sync.go`, `cloud/identities.go`, `profile/identities.go`) | blob version and digest last seen; manifest with default pointer and fingerprints | digest, pull and merge, push, the two default-change gates | the push replaces the blob; gates look at one GET and act on another |
| Settings (`cloud/sync.go`) | version and digest last synced | three-way sync, last writer wins | edit between two loads |
| Re-key and recovery (`cloud/rekey.go`, `cloud/runsync.go`) | which key a blob is sealed to | probe, approve, reseal | must never overwrite a good cloud copy with an empty one |
| Orchestration (`cloud/runsync.go`) | positions of all resources | identities, self-lock resources, pending drain, save | partial failure: every resource is skipped on its own and positions are saved regardless |
| Session (`cloud/auth.go`, `cloud/client.go`, `cloud/session_store.go`, `cloud/enckey_store.go`, `cloud/events.go`) | tokens, account key, stored session | log in, second factor, refresh, log out, password change, event stream | single-use refresh tokens, refresh against log-out, password change in several steps |
| Pending inbox (`cloud/discovery.go`, `cloud/pending*.go`, `bundle/`) | items on the server, contacts | list, fetch, apply, acknowledge | at-least-once delivery |
| Identities on the device (`identity/`, `identity/handoff/`, `keystore/`) | index, key files, key chain entries, default | create, rotate, hand off, delete | sequences of local and cloud steps |
| Profile import (`profile/import.go`) | the whole installation | back up, replace, roll back | failure half-way |
| QR frames (`qr/frames.go`) | collected frames | add, complete, reset | repeated, reordered and foreign frames |
| Hardware keys (`hardware/`) | HID/PCSC device | challenge-response | polling, worker thread |
| Containers (`format/`, `encrypt/`, `decrypt/`, `crypto/`) | none | seal, open, verify | cryptography, out of reach here |
| Validation, configuration (`validate/`, `config/`) | settings file | get, set, check | stateless |

Components call each other in one direction: a host calls `RunSync`, which loads the
positions, makes one state GET and then runs identities, contacts, groups, settings
and notifications in turn, drains the pending inbox and saves the positions.  What
they share is the files on the device (which the UI writes too) and the server
(which all devices write).

## How the work is split

The order followed importance: first the sync engine (`ContactsSync`, `GroupsSync`,
`IdentityRoaming`), whose faults cost users data without a sign, then what the sync
engine rests on and feeds (`SelfLock`, `NotificationSync`, `PendingInbox`, `Session`),
then what happens on one device (`LocalInstall`, `FrameCollector`).

`GroupsSync` shows that the read-merge-write loop amounts to merging into the blob
once (`BlobIsMergedInto`); `NotificationSync` and `SelfLock` take that loop as one
step, so the refinement is what composes them.  `SelfLock` in turn takes a pass of the
contacts sync, with the compaction that ends it, as one step and looks at what
`ContactsSync` leaves out: which key the snapshot and the ops are sealed to.

Next: a run with all resources of `RunSync` together; the torn files of
`contacts_shadow.json` and the positions (`cloud/sync_contacts.go:387`,
`cloud/session_store.go:152`), which are written with `os.WriteFile`.

## Modules

| Module | Contents |
|---|---|
| `ContactsSync` | contacts sync; `MCContactsSync` its TLC instances, `ContactsSyncProofs` its theorems |
| `GroupMerge` | the pure merge of two group views |
| `GroupRegister` | abstract specification: a register that is only merged into |
| `GroupsSync` | the groups store and its sync; `MCGroupsSync`, `GroupsSyncProofs` |
| `IdentityRoaming` | identity keys roaming through the identities blob; `MCIdentityRoaming`, `IdentityRoamingProofs` |
| `SelfLock` | what is sealed to the default identity: settings sync, re-key, orphan recovery; `MCSelfLock`, `SelfLockProofs` |
| `NotificationSync` | the notification drawer, its merge and sync; `MCNotificationSync`, `NotificationSyncProofs` |
| `PendingInbox` | contact discovery between two accounts and the drain; `MCPendingInbox`, `PendingInboxProofs` |
| `Session` | credentials of one process, refresh, log-in and -out, password change, event stream; `MCSession`, `DeviceProofs` |
| `LocalInstall` | identities on one device: profile import with rollback, single import, deletion, key stores; `MCLocalInstall`, `LocalInstallProofs` |
| `FrameCollector` | animated QR frames; `MCFrameCollector`, `DeviceProofs` |

An operator whose comment begins with "Mutant" is a faulty variant of the definition
after it, used to see that a property would notice the fault.

### ContactsSync

A contact list is a function from aliases to a contact or `Absent`; an op is an alias
and the value it gives.  A pass (`pc[d]`) is cut at every call that another actor can
run ahead of: `Begin` (load positions, state GET), `PlanBlocks` / `UpToDate` /
`LoadLocal` (plan gate, idle check, diff), `OpenSnapshot` / `RecordVersion`, `Pull`,
`Push`, `Gap`, `SaveStore`, `SaveShadow`, `Compact`, `SavePositions`.  `st` is the
position that the code updates in place; `pos` is the persisted one.  The plan check,
the load of the shadow and the idle check are one step with the load of the store:
nothing but the pass itself writes the shadow.

The environment: `Edit` (any mutator of the store), `CallFails` (any call returns an
error before it has an effect), `DecryptFails` (an op in the middle of a fetch does
not open), `AppendAnswerLost`, `CompactAnswerLost`, `Crash`, `LogOut`.

The server is external.  It numbers ops 1, 2, ...; a compaction is accepted only
against the current snapshot version and deletes ops up to through-seq.  `log` keeps
deleted ops too, for the properties; the device reads only what `OldestSince` leaves.

Four Boolean constants say which hard cases a run includes: `CompactionRaces`,
`CallsFail`, `Crashes`, `EditsRace`.  They are switches because the code does not
survive the first, second and fourth (see Findings): the remaining properties are
checked without them, and `contacts_everything` checks with all of them on what holds
regardless.

Left out: encryption (an op that does not open is `DecryptFails`), paging inside
`FetchOpsSince` (one fetch is one step, as the ops are immutable), a malformed
contact inside a valid op (skipped by the code), re-key (in `SelfLock`).

### GroupMerge, GroupRegister, GroupsSync

A view is a function from group ids to a group or `NoGroup` and the set of tombstones.
Clock readings, names and sets of members are integers because merging only compares
them.  `order` is the order in which a copy lists its members: it is stored and
uploaded, but `canonical` sorts the members before it compares, so copies that differ in
it only tie and the merge keeps its first argument, the local one.  `SameCopy` and
`SameGroups` are equality up to that order.  `GroupsSync` models one sync as `Begin`
(`SyncBytes`), `OpenUpToDate` / `OpenAndMerge` (read and merge), `PutAccepted` /
`PutConflicts`, `GiveUp` and `ApplyMerged`, with `SyncFails` (error or crash) and
`PutAnswerLost`.  Every edit may carry any time: clocks are not assumed to agree.  Of
the blob's version only two things matter: whether there is a blob (`blob.made`) and
whether the version a device read is still the blob's (`current[d]`), which is what a
PUT is accepted on; without the number a system in which devices upload for ever is
finite.  `plain` records that the first upload is not in the form a merge writes, so the
byte comparison differs from equality of views.

`GroupRegister` is what the account promises to the devices: the blob only ever
changes by merging some tombstone-clean view into it.  `BlobIsMergedInto` says that
`GroupsSync` implements it with `reg <- blob.view`.

### IdentityRoaming

Keys are numbered in the order they are generated; a fingerprint is the number of its
key, 0 is none.  A device keeps key material (`keys`) and the index with fingerprints
(`index`) in different places, and the order in which a run writes them matters.  The
blob is a bundle: keys, and a manifest with fingerprints and the account's default.

A run follows `runIdentities`: `Begin` (positions and state GET), `GateBlocks` /
`GatePasses` (`defaultKeySwapGate`), `SyncIdentities` (digest and decision),
`PullIdentities`, `ImportOne` for each identity, `SaveIndex`, `Redigest`,
`PushIdentities` and `ReplaceBlob` (PUT as new, then PUT at the version the conflict
reports), `KeyMissing` and `EstablishEncKey` (the retry), `KeepDefault` /
`AdoptDefault` / `OfferDefault` (`maybeAdoptDefault`), `SavePositions`.  `ungated`
remembers that the gate let the run pass without having compared (`CannotCompare`): it
could not read the blob, or the default's entry in the device's index or in the blob's
manifest has no fingerprint, as the entries of older releases have (`legacy`,
`localIndexFingerprint`, `manifestFingerprint`).  `OldReleases` says whether clients
that write such entries take part.  The host may approve exactly the change that the
previous run returned.

The environment: users create, rotate, hand over and delete identities and set the
default between runs; `CallFails`, `PeekFails`, `PushAnswerLost`, `Crash`, `LoseKey`
(the account key is gone or outdated), `LogOut`.  An import that fails under a stored
account key counts as a stale key, as in `pullIdentitiesVersioned`, and leads to the
retry.  `removed` records, for the properties, which names a user deleted: deletions
do not travel, so a deleted identity may come back from another device.

`PassesOverlap` lets two devices run at once, `ImportsStop` lets a failure or a crash
fall between two imported identities.  `FingerprintsMatchKeys` fails with the second;
`GatedSwapApproved` fails with either; `CloudKeepsIdentities` fails with the first,
which the code's comment accepts (last writer wins).

Left out: the conversion of key material between unlike key stores (a passphrase file
landing in a keychain: the material differs, so the digests do), `Alias` of an index
entry (the import drops it), the stand-alone `PushIdentities` / `PullIdentities`, and
changes made while a run is under way.

### SelfLock

Contacts, groups and settings are sealed to the default identity.  A blob is its
version, the key it is sealed to and its data; the contacts log is a set of ops with
their keys.  A device runs `RunSync` (`Start` ... `Finish`) or, after the default
changed, `RekeySelfLock` (`NewDefault`, `RekeyNext`).  `SyncContacts` is a whole pass:
nothing to do (`ContactsIdle`), a snapshot or an op that does not open
(`ContactsSealed`: the position has moved over the ops before it, and a pass that fails
leaves it there), or a merge (`ContactsMerged`) with its append and, when more than
`ContactsCompactThreshold` ops are past the snapshot, the compaction that ends it.
`SyncGroups` and `SyncSettings` take the other resources; an answer that does not open
goes to `RecoverOrphan`, which gives up, asks, or reseals (`Reseal`, `ResealConflicts`,
`TooManyConflicts`, `SkipReseal`).  Settings are cut at `Push`, `Pull` and `Redigest`.
`Probe` is the look at orphans among the resources that a run in the foreground did not
select.  The versions a run acts on are those of its state GET.  Identity roaming, which
comes first in a run, may bring the default of any other device.  `behind` remembers
that the digest may not be that of what was uploaded.

### NotificationSync

A drawer is a set of rows with times and flags, and tombstones with places.  Every
mutator of the store is an action (`MarkAllSeen`, `Dismiss`, `MarkHandled`,
`SeedSelfShare`, `ReconcileShares`, `ReconcilePending`, `ApplyDrainReport`), and each
ends with the caps of `save`.  A sync is `Begin` (`SealSource`), `Exchange`
(`SyncMergedBlob` with `MergeNotifications`), `ApplyMerged`.  Share and pending inbox
are external: rows arrive and end there at any time.  Clocks agree, and no two rows
have the same time.

### PendingInbox

Two accounts; in the run one invites and the other rotates and revokes (so that each of
the two directions of the handshake has its half of the work), in the proofs both may.
An inbox is a set of items with ids, and a pass takes them by id.  A key is the number
of its rotation; a bundle carries the key, the key it revokes and whether its signature
is genuine.  A drain handles item by item: `List`, `Fetch`, then `SaveAccept` and
`MarkConnected`, or `LoadContacts` and `StoreContacts`, then `Ack`.  Between Load and
Save the user may add, accept and remove.  Faults: `Skip` (a fetch, an unlock or a parse
fails and the pass goes on), `PassFails` (an error ends it; the ack may have reached the
server), `Forgery` (an item nobody sent) and `Unasked` (an accept that nobody asked for:
its lock, the other account's or a stranger's own, is properly signed, which is all that
the drain checks of an accept).  They are counted apart (`MaxFaults`) from what the
users do (`MaxEvents`).  `upset` remembers what keeps an update from arriving:
it was not sent; it was skipped while a later one was not; a key was saved under which
the contact is not known, so that there are two entries and updates reach the first only
(`FindByID`); a request from before a rotation was accepted after that rotation had come
and found no contact; or an unasked accept was saved.

### Session

One process with a client, its stores, two threads that refresh and the user's thread.
Calls of the user are sequences of statements (`user.steps`), so that a refresh can fall
between any two.  A refresh is `Acquire` (the lock and the look at the tokens again),
`Post`, `Install` (memory), `Save` (store, which may fail or do half: `Outcome`).  A
log-out clears three things, and `store.Clear` may leave any of them: the client drops
its errors, `out.kept` records what stayed.  Token families and generations are the
server's view: posting an older generation ends the family and sets `tripped`.  `torn`
is set when the latest token cannot be known to the process, and `cause` when the
identities blob may be wrapped under another key than the account's: the properties say
there are no other ways.

### LocalInstall

Keys are files, keychain entries and hardware challenges; each half can be missing
or torn.  A profile import is `BeginImport` (archive), `ApplyImportedConfig`,
`WipeKeys` for each identity, `WipeFiles`, then for each identity of the bundle
`CheckKeys`, `StoreEncryptionIdentity`, `StoreSigningKey`, `WriteMeta`, then
`SaveIndex`, `FinishImport`; on failure `RestoreKeys` and `RestoreRest`.  A single
import ends with `PersistMeta` and `PersistEntry`, or with `Reconcile` when the keys
exist already.  A deletion hands the default over (`BeginDelete`, before the gate that
may still refuse), then `Unlist`, `ClearKeys`, `RemoveMeta`.  `StepFails` and `Killed` may
fall on any step and leave what an interrupted write or removal leaves: key files whose
halves differ or are missing (`Remains`), keychain entries cleared in the order of either
implementation (`ClearRemains`), a restore that reached some of the identities, and an
empty challenge (`ChallengeTorn`: `WriteChallenge` truncates the file first, and a device
can hold a challenge of that name already).  `hurt` records, by identity, what may have
cost it its keys: a killed or failed import, a restore that failed, keychain entries that
a rollback does not bring back, torn parts taken for a key, another bundle's challenge, or
a torn one.

### FrameCollector

Locks of given sizes are cut into chunks; a chunk is a range of bytes of its Lock, or
`Garbled`.  Each decoder reads a frame and makes the three calls `Add`, `Ask`
(`Complete`) and `Take` (`Bundle`) with anything in between.  `DecodeAnimatedQRGIF` is
the case of one decoder and no turns.  The 32-bit id is taken to identify its Lock.

## Runs

| Run | Bounds | Checks | Shows |
|---|---|---|---|
| `contacts_core` | 2 devices, 2 aliases, 2 edits, 1 fault, threshold 1, fairness | `ShadowCoversPosition`, `SnapshotIsTruncatedLog`, `MergedIsLogOutcome`, `LocalEditsSurvive`, `Convergence` | every pass saves the last-writer-wins outcome of the log, across crashes and log-outs, when calls succeed and compactions do not fall inside the other device's pass; devices converge |
| `contacts_everything` | 3 edits, threshold 0, plan of 1 contact, all four switches on | `VersionCoversTruncation`, `TruncationMovesForward` | what holds whatever fails or overlaps |
| `groups_sync` | 2 devices, 2 ids, 2 times, 2 sets of members in 2 orders, 2 attempts, 3 edits, 1 fault, fairness | `BlobIsMergedInto`, `ApplyKeepsLocal`, `DeletedStaysDeleted`, `Convergence` | the loop implements the register; deletions are final; devices converge up to the order of members |
| `roaming` | 2 devices, 2 names, 3 changes, 1 fault, one run at a time, old releases | `FingerprintsMatchKeys`, `UpToDateMeansSame`, `GatedSwapApproved`, `CloudKeepsIdentities` | a run whose gate compared fingerprints never replaces the default's keys unasked; "up to date" means the cloud's keys; no identity leaves the cloud unless deleted |
| `roaming_everything` | as above, 2 changes, overlapping runs, imports cut short, no old releases | `PushesAreEarned` | devices do not keep each other pushing, whatever fails or overlaps |
| `selflock` | 2 devices, 2 keys, 1 list entry, 2 values of the settings, 2 attempts, compaction threshold 0, 4 events | `IdleMeansSame`, `NeverWiped`, `FreshKeepsSettings`, `ForeignNeedsApproval` | no re-key, recovery, compaction or retry empties a list or lets a fresh device's settings win; a foreign copy is replaced with approval or by the compaction of a device past it |
| `notifications` | 2 devices, 3 ids, one perhaps dismissed before, caps of 2, 2 changes, 1 fault, fairness | `NoResurrection`, `FlagsStay`, `HandledStays`, `Convergence` | dismissed rows stay away below the caps; flags are kept; drawers become equal although the caps cut rows and tombstones |
| `inbox` | 2 accounts, 3 keys, 1 other contact, 4 events, 1 fault, fairness | `TypeOK`, `ContactKeysAreGenuine`, `AppliedOnce`, `ConnectedIsMutual`, `KeysConverge`, `UpdatesAreHandled` | an update brings only genuine keys, each once, and the last one arrives, the named causes aside; connected means that one of the two accepted, or that an accept came unasked; every update is handled in the end, unless it waits behind an accept with invalid labels |
| `session` | 2 refreshing threads, 4 events, fairness | `NoFalseTheft`, `LogOutClears`, `BlobOpens`, `StreamReconnects` | which overlaps and failures, and no others, can trip the reuse detection, outlive a log-out or leave the blob unreadable; the stream comes back |
| `install` | 2 identities (one hardware-protected), both back ends, 3 events | `IndexedIsUsable`, `KeysSurvive`, `RolledBack` | no key is lost and nothing unusable is indexed, the named causes aside |
| `install_reimport` | violation; as `install` | `ReimportSucceeds` | see Findings |
| `frames` | 2 Locks of 2 frames, 2 decoders, 1 turn, 1 misread frame, 1 reset, fairness | `OneLock`, `HandedOverWhole`, `ScanFinishes` | Locks are never mixed, handed over whole, and scanned in the end |

Why the bounds are enough: all races of the sync code are between two devices, or
between a device and its own UI.  Two aliases (ids) distinguish "the same entry" from
"another entry", which is all that last-writer-wins and the skip set tell apart.  Two
edits can be concurrent or follow each other; one fault can fall at any step.  A
compaction threshold of 0 or 1 makes every pass, or every second op, compact, so
snapshots, truncation and bootstrap all happen.  Two attempts make the merge loop both
retry and give up.  One group name makes `Add` reject a taken name.  Two identity names
are the default and another one; three changes allow a create, its rotation and a change
of the default.  In `selflock` four events allow a change of the default on one device,
a run on the other that finds the orphan, the approved run, and one failure; with a
threshold of 0 every pass that fetched or appended an op compacts.  In `notifications`
three rows exceed the cap of two on rows; the third one may have been dismissed before,
when the drawers agreed, so that two further dismissals, on one device or on two, exceed the cap of two on
tombstones, a save or a merge cuts one, and its row comes back while its share is still
in the inbox.  Below the caps a dismissal, a sync of each device and a look at the inboxes
fit.  In `inbox` three keys are two rotations, which is what a skipped item needs to
matter; four events allow an invitation, its acceptance, and two rotations or changes of
the list, and the fault, which may be an unasked or forged item, can fall anywhere.  In
`session` four events allow an expiry, a log-out, a log-in and a crash or store failure.
In `install` three events allow an import that is killed, another that fails, and the
failure of its rollback.  The two Locks of `frames` end inside a chunk and at its end.

`Convergence`, `UpdatesAreHandled`, `StreamReconnects` and `ScanFinishes` are liveness
properties; all other temporal ones are action properties.

Deadlock is checked for the sync modules, where a device can always begin another
sync.  It is not where a user is free to do nothing more (the runs of `SelfLock`,
`Session`, `PendingInbox`, `LocalInstall` and `FrameCollector`).

### Fairness

Clients sync on a timer and on every push event, so a pass is begun again and again
(`WF` of `Begin`), and a pass that is running goes on (`WF` of its steps).  Faults are
bounded and not fair.  In `ContactsSync` without `CompactionRaces`, `Compact` waits
for a moment at which no other device reads the log; such moments recur and the step
is strongly fair.  In `GroupsSync` nobody is promised to win a PUT: a device may lose
all its attempts and start again later.

In `PendingInbox` the drain is part of every `RunSync`, so its steps are weakly fair;
the user's are not.  In `Session` a thread in `Refresh` goes on, and one that waits for
the mutex gets it in the end (`sync.Mutex` hands over to a waiter that starves, hence
strong fairness of `Acquire`); the stream's loop runs until it is cancelled.  Users,
faults, expiry and the other devices are not fair.  In `FrameCollector` decoders make
their next call, and an animation loops: who keeps looking at it reads each frame
sooner or later (strong fairness of each `Scan`).

## Findings

`install_reimport`: `wipeLocalState` clears the keys of indexed identities only
(`profile/import.go:571`).  When an import is killed after it stored keys and before it
wrote the index, the keys stay, and every later import of a bundle with that name is
refused with `ErrKeysExist` and rolled back, although the comments say that re-importing
recovers (`:143`, `:570`).

The following are not runs of their own; each is seen by running the named module with
the change given.

1. A pass bases its decisions on a state GET.  If another device compacts before the
   pass fetches (`cloud/sync_contacts.go:112` or `:155`), the truncated ops are silently
   skipped and the position moves past them.  `contacts_core` with `CompactionRaces =
   TRUE` violates `MergedIsLogOutcome`.
2. The position advances in place (`:120`, `:163`) before the list is saved; when a later
   call fails, `RunSync` saves the position all the same (`cloud/runsync.go:269`) and
   the ops are lost to the device.  `CallsFail = TRUE`, same property.
3. An edit saved between the pass's `Load` and its `Save` (`:168`) is overwritten,
   although the store's comment says it cannot be (`contacts/store.go:17`).  `EditsRace =
   TRUE`, `LocalEditsSurvive`.
4. The same for groups (`cloud/runsync.go:694`): `groups_sync` with `EditsRace = TRUE`,
   `ApplyKeepsLocal`.
5. A run without the account key passes the key-swap gate unseen; `EstablishEncKey` then
   brings the key and the retried roam (`cloud/runsync.go:294`) imports other keys for
   the default, which is "NEVER applied silently" (`:77`).  `roaming` with
   `SwapNeverSilent`.
6. Keys rotated here since the last sync are overwritten by a pull
   (`profile/identities.go:271`) although nobody else has them.  `roaming` with
   `OnlyCopyKept`.
7. A reseal from a device that has some but not all contacts drops the others from the
   cloud.  `selflock` with two items and `ResealKeepsContacts`.
8. A contact the user adds while a bundle is applied (`cloud/discovery.go:315`) is lost;
   a contact added again with its new key before the rotation arrives gets a second
   entry.  `inbox` with `FriendsStay`, `OneEntryEach`.
9. A refresh that overlaps a log-out stores tokens after it.  `session` with
   `LogOutLeavesNothing`.
10. A refused import of one identity leaves its challenge in place of the existing one
    (`identity/portable.go:245`).  `install` with `ImportKeepsOthers`.
11. An entry without a fingerprint, in the index or in the manifest, lets the key-swap
    gate pass (`cloud/runsync.go:335`, `:343`), and the pull replaces the default's keys
    unasked.  `roaming` with `SwapNeverSilent`.
12. The rollback of a failed import restores files.  `wipeLocalState` also cleared the
    identities' keychain entries, which no step of the rollback (`profile/import.go:204`)
    puts back, although the comment says that any failure "rolls back to the user's
    previous profile" and that without it the keys would be gone (`:193-197`).  After a
    rollback without an error, and with the archive removed, the index lists identities
    whose keys do not exist.  `install` with `RollbackRestoresKeys`.
13. `canonical` sorts the members before it compares (`groups/merge.go:87`), so of two
    copies with the same time, name and members in different orders neither wins, and
    `MergeGroups` keeps the local one.  Two such devices overwrite each other's blob at
    every sync, for ever; the comment calls the merge commutative and its ties
    order-independent (`:9-12`).  `groups_sync` with `OrderConverges`.
14. Of a `contact_accept` the drain checks that the lock is signed by its own key
    (`cloud/discovery.go:213`), saves it and marks the contact connected (`:226`).  That this
    account invited that fingerprint is not asked, while "connected" is documented as "they
    accepted our invite or we accepted theirs; NEVER inferred" (`contacts/contact.go:61`).
    `inbox` with `NeverInferred`.
15. A device past the snapshot's through-seq records the snapshot's version without opening
    it, and the compaction at the end of the pass (`cloud/sync_contacts.go:178`) uploads one
    sealed to its own default at that version.  A device with a superseded default so
    replaces the re-keyed snapshot, unasked; the comment on orphans says "Never automatic"
    (`cloud/runsync.go:495-496`).  `selflock` with `NeverAutomatic`.

Met on the way; the models have these, as exceptions of their properties:

* `LogOut` drops the errors of `store.Clear` (`cloud/client.go:285`, `:339`), so that a
  signed-out process may leave the account key or the tokens in a store.  `LogOutClears`
  excepts, one by one, what was not removed.  What `LogOut` does with a sync position or
  cache it could not remove is not modelled.
* `WriteChallenge` truncates an existing challenge before it writes
  (`keystore/hardware.go:126`).  `IndexedIsUsable` and `KeysSurvive` except an identity
  whose challenge was torn ("tornChallenge").
* A pass that meets an op it cannot open has already moved its position over the ops
  before it (`cloud/sync_contacts.go:103-120`), without saving what they brought.

Met on the way and without a property: the gate also stops the device that rotated its own
default, since it compares with a blob that still holds the old keys, and a pointer
change is offered although only the local default moved (the default is not part of
the digest, so it is not pushed).  The back-off of the event stream doubles while it is
below 60 s and so reaches 80 s.  The plan limit is checked before the merge, so two
devices within the plan can together exceed it.

## Proofs

TLAPS checks every theorem for all values of the constants: any number of devices,
aliases, ids, edits, faults and attempts.  The assumptions are `ConstantsAssumption`,
`GroupAssumption`, `SyncAssumption`, `RoamingAssumption`, `DrawerAssumption`,
`SelfLockAssumption`, `PendingInboxAssumption`, `LocalInstallAssumption`,
`SessionAssumption`, and `ChunkAssumption`, `SizeAssumption`, `NoneAssumption` and
`BoundAssumption` of the collector; TLC evaluates them on every run.  The type
invariants of the modules with proofs are theorems and are not repeated in the runs, but
for that of `PendingInbox`, which also says that ids are given out once and when a pass
holds an item and a copy.

`ContactsSyncProofs`:

* `TypeCorrect` - `TypeOK` is inductive with the fact that `first` is positive while
  a gap is read; no switch is assumed.
* `VersionCovers`, `TruncationForward` - from `VersionInv`, with all switches free:
  versions a device has seen never exceed the server's, a device (persisted and in
  mid-pass) whose version is the server's has a position at or past through-seq, the
  state answer held by a pass is not newer than the server, and no position exceeds
  the log.  A compaction is accepted only against the version the device saw, so its
  through-seq is not behind the one it replaces.
* `EditsSurvive` (assuming `~EditsRace`) - from `EditInv`: while a pass holds its
  copy, the copy is the store, and after the push the working set agrees with it on
  every alias the pass pushes; the gap skips those.
* `ShadowCovers`, `SnapshotFaithful`, `MergedFaithful` (assuming `~CallsFail` and
  `~CompactionRaces`) - from `LogInv`: the snapshot is the outcome of the log up to
  through-seq; the shadow is the outcome up to some point at or past the position;
  and at each label the working set is the outcome of the log up to `st.seq`, or, after
  the push, that outcome overlaid with the pending batch.  The invariants are not
  inductive by themselves: what a pass saves depends on what the working set was at
  each earlier label, on the log not being truncated under it, and on the batch being
  in the log at `first`.  Lemmas about `applyOps` and `Latest` say that applying the
  ops from a point at or before an outcome gives the later outcome, which is why
  re-applying ops after a crash is harmless.

`GroupsSyncProofs`:

* `MergeLaws` - `MergeGroups` is associative, idempotent on clean views, and commutative
  up to the order of members: all of what the comment on `MergeFunc` demands that the code
  keeps.  Copies that list the same members in different orders tie, and each side keeps
  its own (Findings, 13).  `WinsTransitive` is the reason that ties do not spoil the rest.
* `TypeCorrect`, `BlobImplementsRegister` - from `SyncInv`: every view is clean and has no
  id that was not given out, and a view about to be PUT under the version that the blob
  still has contains the blob.
* `ApplyKeeps`, `DeletedStays` (assuming `~EditsRace`) - from `LocalInv`: during a
  sync, the store is below the view it will be replaced with; `Below` is reflexive
  and transitive, and a merge is above both arguments.

`IdentityRoamingProofs`:

* `TypeCorrect` - no switch is assumed.
* `FingerprintsMatch` (assuming `~ImportsStop`) - from `StoreInv`: every bundle's
  manifest fits its keys, and during an import each key is either still the one of the
  index (if it is to be imported) or already the one of the merged index.  Without the
  second part `SaveIndex` could not be shown to restore the agreement.
* `GatedSwap` (assuming also `~PassesOverlap`) - from `StoreInv` and `GateInv`: at most
  one run is under way, so the blob the gate looked at is the one that is pulled; from
  the gate to the push, the blob has either no keys or this device's keys for the
  default, unless the user approved or the gate could not compare.  An entry without a
  fingerprint is such a case, on either side (`CannotCompare`): with it the claim would be
  false, and entries of older releases are part of the model.
* `UpToDateIsSame`, `CloudKeeps` (same assumptions) - from `CloudInv`: a position that
  names the blob's version and the device's digest was recorded when the two were equal
  (`PosFits`), and each label says how far the run has brought the device towards the
  blob it read (`PassFits`).  Keys are numbered by the edits so far, so a new key is in
  no recorded digest; without that bound a later edit could make an old digest right
  by accident.
* `PushesEarned` (no switch assumed) - by counting: `Owes` says of a device that its
  recorded digest is not that of its identities, or that its run has found that out.
  `blob.ver` plus the number of devices that owe never exceeds 1 + devices + edits +
  faults (`EarnInv`): an edit, a failure or a crash makes one device owe more, a push is
  by a device that owes and then does not, and a pull makes nobody owe.

`SelfLockProofs` (any devices, keys, entries, settings, runs and failures):

* `TypeCorrect`, `NothingWiped`, `ForeignApproved`, `SettingsKept` - from `IInv`: version
  0 means no data and any other version a copy of the right kind (`ServerOK`,
  `DeviceOK`), and each label says what the run has established.  A push of the
  settings names a version sealed to the device's own key, or a later version is there
  already and the push will conflict (`PushFits`); a pull follows a push that was not
  the first (`PullFits`); a reseal has the approval or belongs to a re-key, and has
  settings only from a device that synced them (`ResealFits`, `RekeyFits`).  The
  properties are about the step that writes, and what justifies it was decided steps
  earlier, with other devices writing in between: `RunsKeep` shows that their writes
  cannot invalidate it, since versions only grow.
* `NothingWiped` and `ForeignApproved` also rest on `LogInv`, about positions and the log: a
  position that knows the snapshot's version is at or past its through-seq (`SnapFits`);
  a device that has no entries has not seen the ops that are left, as ops have entries
  (`Covered`), which is why a list without entries is never compacted over one with some;
  and what a run fetched is of one moment (`StateLog`).  The compaction is the one writer
  that looks at a version only and not at the key.  It is an exception of
  `ForeignNeedsApproval`, and the theorem says how far it goes: the device has a shadow and
  its position is past what the snapshot stands for.
* `IdleIsSame` - from `IInv` and `LevelInv`: no position is ahead of the cloud; one that
  is level with it has the digest of the cloud's settings, unless `behind`; and between
  a run's PUT or GET and its digest the version is new while the digest is old, but the
  device's copy is the cloud's.  A write by another device leaves every other position
  behind, so it cannot make an old digest count again.

`NotificationSyncProofs` (any devices, ids and caps):

* `TypeCorrect`, `DismissedStaysAway`, `FlagsMonotone`, `HandledKept` - from one `IInv`:
  drawers, blob and inboxes speak only of used ids (`KnownOK`); while no cap can have
  been reached, the tombstones of what was dismissed are in the drawer and in whatever
  a running sync will put in its place (`Buried`); and a merged row has the flags of the
  row that went in (`FlagsMerged`).  `NoResurrection` alone is not inductive: a
  tombstone could be missing from the view under way.  `SavedWhole` says that a cap
  that is not reached cuts nothing, which needs cardinalities.

`LocalInstallProofs` (any identities, back ends, failures and kills):

* `TypeCorrect`, `NoKeyLost`, `RollbackIsWhole` - from `IInv`: what each label says
  about the operation (`OpOK`), that key files whose halves differ are known to be hurt,
  in the archive too (`HalvesOK`), how far the identity in hand has been imported
  (`ImportOK`), which ones are finished (`ProfileOK`), that between the two parts of a
  rollback the key directory is the archive's unless a failure was noted (`RestoreOK`),
  that the user no longer keeps what a deletion clears (`DeleteOK`), and
  that the keys the user keeps are in an archive during a profile import and in place or
  in an archive otherwise, but for three causes that are on record by identity: a store
  cut short, a challenge of another bundle, a challenge cut short (`Survive`).
  `RestoreOK` is why a discarded archive means a whole rollback; `Survive` why a second
  failure loses nothing.
* `IndexedOpens` - from `IInv` and `UInv`: the archive holds identities that open
  (`ArchiveOK`); halves in the keychain that differ are known to be hurt (`KeychainOK`);
  the stores of an import go only where an indexed identity does not already have its
  keys, and an entry is written over keys and a meta file that are there (`OneOK`); and
  a profile's index names exactly the identities that were finished (`AllOK`).  Each
  label needs its own part because the step that would break the property is the write
  of the index, or a kill, long after the step that decided it.

`PendingInboxProofs` (any number of keys, forgeries, failures and edits of either user):

* `TypeCorrect` - in particular ids are given out once, which the drain relies on.
* `GenuineKeys`, `KeysGoForward` - from `SafeInv`: the directory has an account's current
  key or none; an item that is not forged carries keys of its sender in the order of its
  rotations, an unasked accept a key of the other account's or a stranger's (`ItemFits`);
  an entry, in the list and in the copy that a pass is about to save, has only such keys,
  in that order, and a stranger's has no other (`ContactFits`); and what a pass still has
  to do is in the inbox, its item of the kind its label says (`PassFits`).
  The copy matters: it may be saved over a list that has changed since.
* `MutualConnection` - from `MetInv`: until one of the two accepted, or an unasked accept was
  saved (`Met`), an account's list and its pass's copy have no connected entry and no pass
  is about to mark one (`Plain`, `Quiet`).  The second case is a real one (Findings, 14).
* `LastKeyArrives` - from `StepInv`: while nothing upset the account (five causes, an
  unasked accept among them), the key of its contact, the key in the copy and the key
  that any item in the inbox brings are the current one, or an update that takes them back is in the inbox, after what brought
  them (`Known`, `CopyKnown`, `Chained`).  Items that arrived since the pass listed the
  inbox are after all it listed (`InOrder`), so an item is acknowledged only when
  nothing before it is left to need it.

`DeviceProofs` holds the theorems of the two objects that threads of one process share
under a mutex and that have no state in common, `Session` and `FrameCollector` (whose
specification is therefore called `ScanSpec`, its type invariant `ScanTypeOK`).

`Session` (any number of threads that call `Refresh`, any number of events; assumed is
that the stream is one of the threads and that "none" and `NoTokens` are not a thread
and a token), all from `SessionInv`:

* `SessionTypeCorrect` - in particular at most one thread is between `Acquire` and the
  deferred unlock, which everything below uses.
* `TheftIsReal` - `NoFalseTheft` says only what the server has seen.  Inductive is that
  as long as nothing is torn, the thread in `Refresh` has the latest token of its family
  or the family has ended; the `Client` has, except between the server's answer and
  `Install`; and the store has, except between the answer and `Save` (`Newest`).  These
  are the windows in which a failure or a restart tears.  A login adds a holder that takes no
  lock: until its `SetTokens` nothing else is of its family (`NewFamily`), after it the
  token it saves is of generation 1, so that a save that is too late is seen from the
  family's generation.
* `LoggedOutIsCleared` - from `ClearOK`: which part is cleared at each step that is left
  of a log-out, or is recorded as what `store.Clear` did not remove (`out.kept`), that
  the account's email, which the clearing needs, is there until the last one, and that a
  thread about to save was seen by `Install` or by the log-out's beginning.
* `BlobStaysOpen` - from `BlobOK`: before there is an account no token was issued, so
  nothing can be uploaded; therefore the confirmed sign-up meets no blob.

What is left of a user's call is one of sixteen sequences (`Shape`); `StepsLeft` says what
each step leaves.

`FrameCollector` (any Locks, sizes, chunk size and decoders):

* `CollectorTypeCorrect`, `NeverMixed`, `WholeLocks` - from `CollectorInv`: a frame in a
  decoder's hand comes from `MarshalAnimatedQR` or is garbled, and a correct chunk is
  held only in a collection of the right length.  That the held indices are all of
  `1..total` when there are `total` of them is a fact about finite sets.

Only model-checked: the liveness properties (`Convergence`, `UpdatesAreHandled`,
`StreamReconnects`, `ScanFinishes`), which are out of the prover's reach, and
everything under switches a theorem excludes.  Every other property of a passing run is
stated by a theorem.

## Not modelled

* Containers, encryption and decryption (`format/`, `crypto/`, `encrypt/`, `decrypt/`,
  `sharing/`): byte pipelines that keep no state between calls.  What the models need of
  them is one bit: it opens or it does not.
* Hardware keys (`hardware/`): HID and smart-card I/O.  `LocalInstall` models what is
  stored for them and takes the device as present.
* Single REST calls (`cloud/share.go`, `backup.go`, `billing.go`, `plan.go`, session and
  second-factor management): one request, no client state.
* `config/`, `validate/`: a key/value file and stateless predicates.
* `cloud/cooldown.go`: the times of the last e-mails, a shortcut for a throttle that the
  server keeps.
* The macOS key chain (`keychain_darwin.go`), imports with `IncludePaths` or without the
  hardware key, and the conversion of key material between unlike stores
  (`profile/roaming_fns.go`).
* Rendering and recognising QR images (`qr.go`, the drawing part of `frames.go`).
