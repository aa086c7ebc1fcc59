--------------------------- MODULE IdentityRoaming ---------------------------
(***************************************************************************)
(* Identity keys roaming between the devices of one account:               *)
(* SyncIdentities (cloud/sync.go), the push and pull of the "identities"   *)
(* blob (cloud/identities.go), the bundle's export, digest and merge       *)
(* (profile/identities.go), runIdentities with its two gates on the        *)
(* default identity (cloud/runsync.go), and the user's own changes         *)
(* (identity/handoff).                                                     *)
(*                                                                         *)
(* An identity is a name with key material.  Keys are numbered in the      *)
(* order they are generated, 0 is "none"; a fingerprint is the number of   *)
(* the key it was computed from.  Key material travels verbatim (the       *)
(* branch of RoamingImportFn for a device of the same backend), its meta   *)
(* file with it.  A device keeps keys and fingerprints in different        *)
(* places: the key files, and the index written after them.  Entries that  *)
(* an older release wrote have no fingerprint: "legacy" names them.        *)
(*                                                                         *)
(* The server is external: it numbers the versions of the blob and accepts *)
(* a PUT only against the current one.                                     *)
(***************************************************************************)
EXTENDS Integers, FiniteSets

CONSTANTS
    Device,        \* the account's devices
    Name,          \* identity names
    NoName,        \* "no default identity"
    MaxEdits,      \* bound: changes made by the users
    MaxFaults,     \* bound: failures, crashes, lost account keys, log-outs
    CallsFail,     \* may a network, keystore or file call of a run fail?
    PassesOverlap, \* may two devices run a pass at the same time?
    ImportsStop,   \* may an import stop between two identities?
    OldReleases    \* may a client be of a release that records no fingerprint?

ASSUME RoamingAssumption ==
    /\ IsFiniteSet(Device)
    /\ NoName \notin Name
    /\ MaxEdits \in Nat
    /\ MaxFaults \in Nat
    /\ {CallsFail, PassesOverlap, ImportsStop, OldReleases} \subseteq BOOLEAN

VARIABLES
    blob,     \* server: the identities blob, a bundle
    keys,     \* keys[d][n]: key material in d's keystore
    index,    \* index[d][n]: the key of d's index entry, 0 = no entry
    legacy,   \* legacy[d]: names whose entry has an empty Fingerprint
    dflt,     \* dflt[d]: config.DefaultIdentity
    pos,      \* pos[d]: the persisted IdentitiesSyncState
    hasKey,   \* hasKey[d]: does d hold the account encryption key?
    offer,    \* offer[d]: the DefaultChangePending d's last run returned
    pc,       \* pc[d]: where d's run stands
    st,       \* st[d]: the run's copy of pos, updated in place
    remote,   \* remote[d]: blob version of the FetchSyncState answer
    approve,  \* approve[d]: SyncOptions.ApproveDefaultChange
    changed,  \* changed[d]: localChanged
    digest,   \* digest[d]: localDigest
    ungated,  \* ungated[d]: the key-swap gate let the run pass uncompared
    retried,  \* retried[d]: SyncIdentities runs again after EstablishEncKey
    hand,     \* hand[d]: the bundle being imported or uploaded
    todo,     \* todo[d]: names of that bundle still to import
    removed,  \* names a user has removed on some device
    edits,    \* number of user changes so far
    faults    \* number of failures so far

deviceVars == <<keys, index, legacy, dflt>>
runVars    == <<pc, st, remote, approve, changed, digest, ungated, retried,
                hand, todo>>
counters   == <<removed, edits, faults>>
vars       == <<blob, deviceVars, pos, hasKey, offer, runVars, counters>>

-----------------------------------------------------------------------------
(* Rings, bundles and digests.                                             *)

\* One key number, or 0, per name.
Ring == [Name -> Nat]

NoKeys == [n \in Name |-> 0]

NamesOf(ring) == {n \in Name : ring[n] # 0}

\* A roaming bundle: key material, the manifest's entries, those of them without
\* a fingerprint, and the default.
\* "old" is a bundle of the unimportable v1 format, whose manifest has neither.
Bundle == [ver : Nat, old : BOOLEAN, keys : Ring, fps : Ring, legacy : SUBSET Name,
           def : Name \cup {NoName}]

NoBlob  == [ver |-> 0, old |-> FALSE, keys |-> NoKeys, fps |-> NoKeys, legacy |-> {},
            def |-> NoName]
OldBlob == [NoBlob EXCEPT !.ver = 1, !.old = TRUE]

\* RoamingDigest: the key material of every indexed identity.  The hash is taken
\* to tell two sets apart; the fingerprints and the default are not part of it.
RoamingDigest(d) == [n \in Name |-> IF index[d][n] # 0 THEN keys[d][n] ELSE 0]

\* ExportIdentitiesToBytes: keys from the keystore, fingerprints from the index,
\* the default from the config.
ExportIdentities(d) ==
    [ver |-> 0, old |-> FALSE, keys |-> RoamingDigest(d), fps |-> index[d],
     legacy |-> legacy[d], def |-> dflt[d]]

\* A DefaultChangePending or its approval: kind and incoming name.
Change   == {"key", "pointer"} \X (Name \cup {NoName})
NoChange == <<>>

\* The recorded digest, if there is one: {} before the first pass.
NoPos == [ver |-> 0, digest |-> {}]

-----------------------------------------------------------------------------
(* One run of RunSync, up to the end of runIdentities.                     *)

Init ==
    /\ blob \in {NoBlob, OldBlob}
    /\ keys = [d \in Device |-> NoKeys]
    /\ index = [d \in Device |-> NoKeys]
    /\ legacy = [d \in Device |-> {}]
    /\ dflt = [d \in Device |-> NoName]
    /\ pos = [d \in Device |-> NoPos]
    /\ hasKey = [d \in Device |-> TRUE]
    /\ offer = [d \in Device |-> NoChange]
    /\ pc = [d \in Device |-> "idle"]
    /\ st = [d \in Device |-> NoPos]
    /\ remote = [d \in Device |-> 0]
    /\ approve = [d \in Device |-> NoChange]
    /\ changed = [d \in Device |-> FALSE]
    /\ digest = [d \in Device |-> NoKeys]
    /\ ungated = [d \in Device |-> FALSE]
    /\ retried = [d \in Device |-> FALSE]
    /\ hand = [d \in Device |-> NoBlob]
    /\ todo = [d \in Device |-> {}]
    /\ removed = {}
    /\ edits = 0
    /\ faults = 0

Goto(d, label) == pc' = [pc EXCEPT ![d] = label]

\* RunSync: LoadPositions and FetchSyncState.  The host passes the approval of
\* the change the previous run returned, if the user gave it.
Begin(d, approval) ==
    /\ pc[d] = "idle"
    /\ PassesOverlap \/ \A e \in Device : pc[e] = "idle"
    /\ Goto(d, "gate")
    /\ st' = [st EXCEPT ![d] = pos[d]]
    /\ remote' = [remote EXCEPT ![d] = blob.ver]
    /\ approve' = [approve EXCEPT ![d] = approval]
    /\ offer' = [offer EXCEPT ![d] = NoChange]
    /\ UNCHANGED <<blob, deviceVars, pos, hasKey, changed, digest, ungated, retried, hand,
                   todo, counters>>

\* peekRoamingManifest: ok without an import, given the account key and a blob.
CanPeek(d) == hasKey[d] /\ blob.ver # 0

\* The fingerprint of an entry, 0 if there is none or it was never recorded.
localIndexFingerprint(d, n) == IF n \in legacy[d] THEN 0 ELSE index[d][n]
manifestFingerprint(m, n) == IF n \in m.legacy THEN 0 ELSE m.fps[n]

\* Mutant of SwapsDefault: it only looks when the account default is this one.
SwapsAccountDefault(d) ==
    /\ remote[d] # 0
    /\ dflt[d] # NoName
    /\ localIndexFingerprint(d, dflt[d]) # 0
    /\ CanPeek(d)
    /\ blob.def = dflt[d]
    /\ manifestFingerprint(blob, dflt[d]) \notin {0, localIndexFingerprint(d, dflt[d])}
    /\ approve[d] # <<"key", dflt[d]>>

\* defaultKeySwapGate: the blob holds other keys for the current default.
SwapsDefault(d) ==
    /\ remote[d] # 0
    /\ dflt[d] # NoName
    /\ localIndexFingerprint(d, dflt[d]) # 0
    /\ CanPeek(d)
    /\ manifestFingerprint(blob, dflt[d]) \notin {0, localIndexFingerprint(d, dflt[d])}
    /\ approve[d] # <<"key", dflt[d]>>

\* The gate ends the run before it imports anything.
GateBlocks(d) ==
    /\ pc[d] = "gate"
    /\ SwapsDefault(d)
    /\ offer' = [offer EXCEPT ![d] = <<"key", dflt[d]>>]
    /\ Goto(d, "positions")
    /\ UNCHANGED <<blob, deviceVars, pos, hasKey, st, remote, approve, changed, digest, ungated,
                   retried, hand, todo, counters>>

\* The gate cannot compare: it may not peek, or an entry has no fingerprint.
CannotCompare(d) == ~CanPeek(d) \/ dflt[d] \in legacy[d] \cup blob.legacy

GatePasses(d) ==
    /\ pc[d] = "gate"
    /\ ~SwapsDefault(d)
    /\ ungated' = [ungated EXCEPT ![d] = CannotCompare(d)]
    /\ Goto(d, "sync")
    /\ UNCHANGED <<blob, deviceVars, pos, hasKey, offer, st, remote, approve, changed, digest,
                   retried, hand, todo, counters>>

RemoteMoved(d)  == remote[d] # st[d].ver
LocalChanged(d) == {RoamingDigest(d)} # st[d].digest

\* Mutant of SyncDecision: a local change is pushed without the pull before it.
SyncPushesFirst(d) ==
    IF ~RemoteMoved(d) /\ ~LocalChanged(d) THEN "adopt"
    ELSE IF remote[d] = 0 \/ LocalChanged(d) THEN "push"
    ELSE "pull"

\* Nothing, a first push, a push, or a pull (with a push after it if the local
\* set changed too).
SyncDecision(d) ==
    IF ~RemoteMoved(d) /\ ~LocalChanged(d) THEN "adopt"
    ELSE IF remote[d] = 0 \/ ~RemoteMoved(d) THEN "push"
    ELSE "pull"

\* SyncIdentities: digest the local set and decide.
SyncIdentities(d) ==
    /\ pc[d] = "sync"
    /\ digest' = [digest EXCEPT ![d] = RoamingDigest(d)]
    /\ changed' = [changed EXCEPT ![d] = LocalChanged(d)]
    /\ Goto(d, SyncDecision(d))
    /\ UNCHANGED <<blob, deviceVars, pos, hasKey, offer, st, remote, approve, ungated, retried,
                   hand, todo, counters>>

\* pullIdentitiesVersioned: GET and unwrap.  An old-format bundle holds nothing to
\* merge and is replaced by the push after it.
PullIdentities(d) ==
    /\ pc[d] = "pull"
    /\ hasKey[d]
    /\ hand' = [hand EXCEPT ![d] = blob]
    /\ todo' = [todo EXCEPT ![d] = NamesOf(blob.fps)]
    /\ IF blob.old
         THEN /\ st' = [st EXCEPT ![d].ver = blob.ver]
              /\ changed' = [changed EXCEPT ![d] = TRUE]
              /\ Goto(d, "redigest")
         ELSE /\ UNCHANGED <<st, changed>>
              /\ Goto(d, "import")
    /\ UNCHANGED <<blob, deviceVars, pos, hasKey, offer, remote, approve, digest, ungated,
                   retried, counters>>

\* Mutant of ImportOne: a key this device already holds is kept.
ImportKeepsExisting(d, n) ==
    /\ pc[d] = "import"
    /\ n \in todo[d]
    /\ keys' = [keys EXCEPT ![d][n] = IF index[d][n] # 0 THEN @ ELSE hand[d].keys[n]]
    /\ todo' = [todo EXCEPT ![d] = @ \ {n}]
    /\ UNCHANGED <<blob, index, legacy, dflt, pos, hasKey, offer, pc, st, remote, approve, changed,
                   digest, ungated, retried, hand, counters>>

\* ImportIdentitiesFromBytes, one turn of its loop: importFn stores the key
\* material, over what is there under this name.
ImportOne(d, n) ==
    /\ pc[d] = "import"
    /\ n \in todo[d]
    /\ keys' = [keys EXCEPT ![d][n] = hand[d].keys[n]]
    /\ todo' = [todo EXCEPT ![d] = @ \ {n}]
    /\ UNCHANGED <<blob, index, legacy, dflt, pos, hasKey, offer, pc, st, remote, approve, changed,
                   digest, ungated, retried, hand, counters>>

\* Mutant of MergedIndex: an entry that is there keeps its fingerprint.
MergedIndexKeepsOld(d) ==
    [n \in Name |-> IF index[d][n] # 0 THEN index[d][n] ELSE hand[d].fps[n]]

\* The index with the bundle's entries upserted by name.
MergedIndex(d) ==
    [n \in Name |-> IF n \in NamesOf(hand[d].fps) THEN hand[d].fps[n] ELSE index[d][n]]

\* Its end: SaveIndex, once every identity is imported.
SaveIndex(d) ==
    /\ pc[d] = "import"
    /\ todo[d] = {}
    /\ index' = [index EXCEPT ![d] = MergedIndex(d)]
    /\ legacy' = [legacy EXCEPT ![d] = (@ \ NamesOf(hand[d].fps)) \cup hand[d].legacy]
    /\ st' = [st EXCEPT ![d].ver = hand[d].ver]
    /\ Goto(d, "redigest")
    /\ UNCHANGED <<blob, keys, dflt, pos, hasKey, offer, remote, approve, changed, digest,
                   ungated, retried, hand, todo, counters>>

\* Mutant of Redigest: what was pulled is pushed back.
RedigestAndPush(d) ==
    /\ pc[d] = "redigest"
    /\ digest' = [digest EXCEPT ![d] = RoamingDigest(d)]
    /\ Goto(d, "push")
    /\ UNCHANGED <<blob, deviceVars, pos, hasKey, offer, st, remote, approve, changed, ungated,
                   retried, hand, todo, counters>>

\* The merged set is digested again; a pull-only pass records it and stops.
Redigest(d) ==
    /\ pc[d] = "redigest"
    /\ digest' = [digest EXCEPT ![d] = RoamingDigest(d)]
    /\ IF changed[d]
         THEN /\ UNCHANGED st
              /\ Goto(d, "push")
         ELSE /\ st' = [st EXCEPT ![d].digest = {RoamingDigest(d)}]
              /\ Goto(d, "adopt")
    /\ UNCHANGED <<blob, deviceVars, pos, hasKey, offer, remote, approve, changed, ungated,
                   retried, hand, todo, counters>>

\* The server stores a bundle as the next version.
Store(bundle) == blob' = [bundle EXCEPT !.ver = blob.ver + 1]

\* pushIdentitiesWithKey: export, and PUT as if there were no blob yet.  A
\* conflict answers with the current version.
PushIdentities(d) ==
    /\ pc[d] = "push"
    /\ hasKey[d]
    /\ hand' = [hand EXCEPT ![d] = [ExportIdentities(d) EXCEPT !.ver = blob.ver]]
    /\ IF blob.ver = 0
         THEN /\ Store(ExportIdentities(d))
              /\ st' = [st EXCEPT ![d] = [ver |-> 1, digest |-> {digest[d]}]]
              /\ Goto(d, "adopt")
         ELSE /\ UNCHANGED <<blob, st>>
              /\ Goto(d, "replace")
    /\ UNCHANGED <<deviceVars, pos, hasKey, offer, remote, approve, changed, digest, ungated,
                   retried, todo, counters>>

\* The retry at the version of the conflict: a full replace, unless yet another
\* push came in between.
ReplaceBlob(d) ==
    /\ pc[d] = "replace"
    /\ IF hand[d].ver = blob.ver
         THEN /\ Store(hand[d])
              /\ st' = [st EXCEPT ![d] = [ver |-> blob.ver + 1, digest |-> {digest[d]}]]
              /\ Goto(d, "adopt")
         ELSE /\ UNCHANGED <<blob, st>>
              /\ Goto(d, "positions")
    /\ UNCHANGED <<deviceVars, pos, hasKey, offer, remote, approve, changed, digest, ungated,
                   retried, hand, todo, counters>>

\* ErrEncKeyMissing: the first time the host is asked for the key.
KeyMissing(d) ==
    /\ pc[d] \in {"pull", "push"}
    /\ ~hasKey[d]
    /\ Goto(d, IF retried[d] THEN "positions" ELSE "establish")
    /\ UNCHANGED <<blob, deviceVars, pos, hasKey, offer, st, remote, approve, changed, digest,
                   ungated, retried, hand, todo, counters>>

\* EstablishEncKey succeeds and SyncIdentities runs again, from its start.
EstablishEncKey(d) ==
    /\ pc[d] = "establish"
    /\ hasKey' = [hasKey EXCEPT ![d] = TRUE]
    /\ retried' = [retried EXCEPT ![d] = TRUE]
    /\ Goto(d, "sync")
    /\ UNCHANGED <<blob, deviceVars, pos, offer, st, remote, approve, changed, digest, ungated,
                   hand, todo, counters>>

\* maybeAdoptDefault: the manifest names another default, which is here.
PointerMoved(d) ==
    /\ CanPeek(d)
    /\ blob.def \notin {NoName, dflt[d]}
    /\ index[d][blob.def] # 0

KeepDefault(d) ==
    /\ pc[d] = "adopt"
    /\ ~PointerMoved(d)
    /\ Goto(d, "positions")
    /\ UNCHANGED <<blob, deviceVars, pos, hasKey, offer, st, remote, approve, changed, digest,
                   ungated, retried, hand, todo, counters>>

AdoptDefault(d) ==
    /\ pc[d] = "adopt"
    /\ PointerMoved(d)
    /\ approve[d] = <<"pointer", blob.def>>
    /\ dflt' = [dflt EXCEPT ![d] = blob.def]
    /\ Goto(d, "positions")
    /\ UNCHANGED <<blob, keys, index, legacy, pos, hasKey, offer, st, remote, approve, changed, digest,
                   ungated, retried, hand, todo, counters>>

OfferDefault(d) ==
    /\ pc[d] = "adopt"
    /\ PointerMoved(d)
    /\ approve[d] # <<"pointer", blob.def>>
    /\ offer' = [offer EXCEPT ![d] = <<"pointer", blob.def>>]
    /\ Goto(d, "positions")
    /\ UNCHANGED <<blob, deviceVars, pos, hasKey, st, remote, approve, changed, digest,
                   ungated, retried, hand, todo, counters>>

ForgetRun(d) ==
    /\ Goto(d, "idle")
    /\ st' = [st EXCEPT ![d] = NoPos]
    /\ remote' = [remote EXCEPT ![d] = 0]
    /\ approve' = [approve EXCEPT ![d] = NoChange]
    /\ changed' = [changed EXCEPT ![d] = FALSE]
    /\ digest' = [digest EXCEPT ![d] = NoKeys]
    /\ ungated' = [ungated EXCEPT ![d] = FALSE]
    /\ retried' = [retried EXCEPT ![d] = FALSE]
    /\ hand' = [hand EXCEPT ![d] = NoBlob]
    /\ todo' = [todo EXCEPT ![d] = {}]

\* RunSync's SavePositions, also when the run ends with a pending change.
SavePositions(d) ==
    /\ pc[d] = "positions"
    /\ pos' = [pos EXCEPT ![d] = st[d]]
    /\ ForgetRun(d)
    /\ UNCHANGED <<blob, deviceVars, hasKey, offer, counters>>

-----------------------------------------------------------------------------
(* The users, who change identities between runs.                          *)

Edit(d) ==
    /\ pc[d] = "idle"
    /\ edits < MaxEdits
    /\ edits' = edits + 1

\* Create an identity or rotate its keys: fresh key material, then the index.
\* external: the sequence is the clients', over the identity store.  "old": by
\* a client of a release that did not record the fingerprint.
NewKeys(d, n, old) ==
    /\ Edit(d)
    /\ old => OldReleases
    /\ legacy' = [legacy EXCEPT ![d] = IF old THEN @ \cup {n} ELSE @ \ {n}]
    /\ keys' = [keys EXCEPT ![d][n] = edits + 1]
    /\ index' = [index EXCEPT ![d][n] = edits + 1]
    /\ UNCHANGED <<blob, dflt, pos, hasKey, offer, runVars, removed, faults>>

\* resolveDefault: the configured default, or the first entry of the index.
IsResolvedDefault(d, n, first) ==
    n = IF dflt[d] \in NamesOf(index[d]) THEN dflt[d] ELSE first

\* handoff.SetDefault (its re-key of the self-lock blobs is another component's).
SetDefault(d, n, first) ==
    /\ Edit(d)
    /\ n \in NamesOf(index[d])
    /\ ~IsResolvedDefault(d, n, first)
    /\ dflt' = [dflt EXCEPT ![d] = n]
    /\ UNCHANGED <<blob, keys, index, legacy, pos, hasKey, offer, runVars, removed, faults>>

\* Config.Set("default_identity", n), which checks nothing: how the clients record
\* the first identity they create or import.
ConfigSet(d, n) ==
    /\ Edit(d)
    /\ dflt[d] # n
    /\ dflt' = [dflt EXCEPT ![d] = n]
    /\ UNCHANGED <<blob, keys, index, legacy, pos, hasKey, offer, runVars, removed, faults>>

\* handoff.HandoffAndDelete: the default hands over to a successor; the last
\* identity goes only by force, and with it the default pointer.
HandoffAndDelete(d, victim, successor, first) ==
    /\ Edit(d)
    /\ {victim, successor} \subseteq NamesOf(index[d])
    /\ successor = victim <=> NamesOf(index[d]) = {victim}
    /\ index' = [index EXCEPT ![d][victim] = 0]
    /\ legacy' = [legacy EXCEPT ![d] = @ \ {victim}]
    /\ keys' = [keys EXCEPT ![d][victim] = 0]
    /\ dflt' = [dflt EXCEPT ![d] =
                  IF successor # victim /\ IsResolvedDefault(d, victim, first) THEN successor
                  ELSE IF @ = victim THEN NoName ELSE @]
    /\ removed' = removed \cup {victim}
    /\ UNCHANGED <<blob, pos, hasKey, offer, runVars, faults>>

\* The first-entry default of a device, one of its identities.
Firsts(d) == NamesOf(index[d])

-----------------------------------------------------------------------------
(* Failures.                                                               *)

Fault ==
    /\ faults < MaxFaults
    /\ faults' = faults + 1

MayStop(d) == pc[d] = "import" => ImportsStop

\* A call of the run fails: the resource is skipped and the positions are saved.
\* A failed import under a stored account key is taken for a stale key.
CallFails(d, label) ==
    /\ CallsFail
    /\ pc[d] \notin {"idle", "gate", "adopt", "positions"}
    /\ MayStop(d)
    /\ label = "establish" => pc[d] = "import" /\ ~retried[d]
    /\ Fault
    /\ Goto(d, label)
    /\ UNCHANGED <<blob, deviceVars, pos, hasKey, offer, st, remote, approve, changed, digest,
                   ungated, retried, hand, todo, removed, edits>>

\* A peek fails: both gates then let the run go on.
PeekFails(d) ==
    /\ CallsFail
    /\ pc[d] \in {"gate", "adopt"}
    /\ Fault
    /\ ungated' = [ungated EXCEPT ![d] = @ \/ pc[d] = "gate"]
    /\ Goto(d, IF pc[d] = "gate" THEN "sync" ELSE "positions")
    /\ UNCHANGED <<blob, deviceVars, pos, hasKey, offer, st, remote, approve, changed, digest,
                   retried, hand, todo, removed, edits>>

\* The server stored the blob but the answer was lost.
PushAnswerLost(d) ==
    /\ CallsFail
    /\ pc[d] = "replace"
    /\ hand[d].ver = blob.ver
    /\ Fault
    /\ Store(hand[d])
    /\ Goto(d, "positions")
    /\ UNCHANGED <<deviceVars, pos, hasKey, offer, st, remote, approve, changed, digest, ungated,
                   retried, hand, todo, removed, edits>>

\* The process dies: files and keystore stay, the position is not saved.
Crash(d) ==
    /\ CallsFail
    /\ pc[d] # "idle"
    /\ MayStop(d)
    /\ Fault
    /\ ForgetRun(d)
    /\ UNCHANGED <<blob, deviceVars, pos, hasKey, offer, removed, edits>>

\* The stored account key is gone (its store was cleared) or no longer opens the
\* blob (the password changed on another device).
LoseKey(d) ==
    /\ hasKey[d]
    /\ Fault
    /\ hasKey' = [hasKey EXCEPT ![d] = FALSE]
    /\ UNCHANGED <<blob, deviceVars, pos, offer, runVars, removed, edits>>

\* LogOut clears the session with its positions; the next login brings the key.
LogOut(d) ==
    /\ CallsFail
    /\ pc[d] = "idle"
    /\ Fault
    /\ pos' = [pos EXCEPT ![d] = NoPos]
    /\ hasKey' = [hasKey EXCEPT ![d] = TRUE]
    /\ offer' = [offer EXCEPT ![d] = NoChange]
    /\ UNCHANGED <<blob, deviceVars, runVars, removed, edits>>

-----------------------------------------------------------------------------

RunStep(d) ==
    \/ GateBlocks(d) \/ GatePasses(d) \/ SyncIdentities(d)
    \/ PullIdentities(d) \/ (\E n \in Name : ImportOne(d, n)) \/ SaveIndex(d) \/ Redigest(d)
    \/ PushIdentities(d) \/ ReplaceBlob(d)
    \/ KeyMissing(d) \/ EstablishEncKey(d)
    \/ KeepDefault(d) \/ AdoptDefault(d) \/ OfferDefault(d)
    \/ SavePositions(d)

UserStep(d) ==
    \/ \E n \in Name : (\E old \in BOOLEAN : NewKeys(d, n, old)) \/ ConfigSet(d, n)
    \/ \E first \in Firsts(d), n \in Name : SetDefault(d, n, first)
    \/ \E first \in Firsts(d), v, s \in Name : HandoffAndDelete(d, v, s, first)

FaultStep(d) ==
    \/ \E label \in {"positions", "establish"} : CallFails(d, label)
    \/ PeekFails(d) \/ PushAnswerLost(d) \/ Crash(d) \/ LoseKey(d) \/ LogOut(d)

Next ==
    \E d \in Device :
        \/ \E approval \in {NoChange, offer[d]} : Begin(d, approval)
        \/ RunStep(d)
        \/ UserStep(d)
        \/ FaultStep(d)

Spec == Init /\ [][Next]_vars

-----------------------------------------------------------------------------
(* Properties.                                                             *)

Label == {"idle", "gate", "sync", "pull", "import", "redigest", "push", "replace",
          "establish", "adopt", "positions"}

Position == [ver : Nat, digest : SUBSET Ring]

\* Type correctness of the blob, of the devices' stores and of a run's variables.
TypeOK ==
    /\ blob \in Bundle
    /\ keys \in [Device -> Ring]
    /\ index \in [Device -> Ring]
    /\ legacy \in [Device -> SUBSET Name]
    /\ dflt \in [Device -> Name \cup {NoName}]
    /\ hasKey \in [Device -> BOOLEAN]
    /\ offer \in [Device -> Change \cup {NoChange}]
    /\ pc \in [Device -> Label]
    /\ pos \in [Device -> Position]
    /\ st \in [Device -> Position]
    /\ remote \in [Device -> Nat]
    /\ approve \in [Device -> Change \cup {NoChange}]
    /\ changed \in [Device -> BOOLEAN]
    /\ digest \in [Device -> Ring]
    /\ ungated \in [Device -> BOOLEAN]
    /\ retried \in [Device -> BOOLEAN]
    /\ hand \in [Device -> Bundle]
    /\ todo \in [Device -> SUBSET Name]
    /\ removed \in SUBSET Name
    /\ edits \in 0..MaxEdits
    /\ faults \in 0..MaxFaults

\* d's run replaces or loses the key of d's default identity.
DefaultKeyReplaced(d) ==
    /\ pc[d] # "idle"
    /\ dflt[d] # NoName
    /\ keys[d][dflt[d]] # 0
    /\ keys'[d][dflt[d]] # keys[d][dflt[d]]

\* defaultKeySwapGate: a run whose gate compared the blob's keys with those of the
\* device's default identity replaces them only with the user's approval.  It does
\* not compare if it cannot peek, or if an older release wrote one of the entries.
GatedSwapApproved ==
    [][\A d \in Device : DefaultKeyReplaced(d) =>
          ungated[d] \/ approve[d] = <<"key", dflt[d]>>]_vars

\* DefaultChangePending: a change of the default identity's keys "is NEVER applied
\* silently".
\* (The code does not keep this one: README, Findings.)
SwapNeverSilent ==
    [][\A d \in Device : DefaultKeyReplaced(d) => approve[d] = <<"key", dflt[d]>>]_vars

\* ImportIdentitiesFromBytes is "non-destructive": a run never destroys the only
\* copy of a key.
\* (The code does not keep this one: README, Findings.)
OnlyCopyKept ==
    [][\A d \in Device, n \in Name :
          /\ pc[d] # "idle"
          /\ keys[d][n] # 0
          /\ keys'[d][n] # keys[d][n]
          => \/ keys[d][n] = blob.keys[n]
             \/ \E e \in Device \ {d} : keys[e][n] = keys[d][n]]_vars

\* The index is the gate's only knowledge of the local keys: outside
\* an import it lists exactly the keys in the keystore, by their fingerprints, and
\* the blob's manifest agrees with the blob's keys.
FingerprintsMatchKeys ==
    /\ blob.fps = blob.keys
    /\ \A d \in Device : pc[d] # "import" => index[d] = keys[d]

\* A push replaces the whole blob, yet an identity leaves the cloud only if some
\* user removed it.
CloudKeepsIdentities ==
    [][\A n \in Name : blob.fps[n] # 0 /\ blob'.fps[n] = 0 => n \in removed]_vars

\* A device that would report "up to date" holds exactly the cloud's keys, up to
\* identities a user removed somewhere.
UpToDateMeansSame ==
    \A d \in Device :
        /\ pc[d] = "idle"
        /\ pos[d].ver = blob.ver
        /\ pos[d].digest = {RoamingDigest(d)}
        => \A n \in Name \ removed : RoamingDigest(d)[n] = blob.keys[n]

\* Devices do not ring each other's doorbell: a push answers a user's change, a
\* failure, a device's first pass or the replacement of an old-format blob, never a
\* pull alone.
PushesAreEarned == blob.ver <= 1 + Cardinality(Device) + edits + faults
=============================================================================
