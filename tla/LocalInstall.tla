---------------------------- MODULE LocalInstall ----------------------------
(***************************************************************************)
(* The identities of one device as they lie on disk and in the OS          *)
(* keychain, and what rewrites them in several steps: the import of a      *)
(* whole profile with its rollback (profile/import.go, export.go), the     *)
(* import of one identity (identity/portable.go, import_persist.go) and    *)
(* its deletion (identity/handoff/handoff.go), over the key stores         *)
(* (keystore/file.go, keychain_keyring.go, hardware.go).  Any step may     *)
(* fail, and the process may be killed between any two.                    *)
(*                                                                         *)
(* A key is a number that stands for both halves of an identity's keys,    *)
(* for its fingerprint and for the challenge it is sealed under; 0 is a    *)
(* missing file or entry.  Passphrases are right: a wrong one is refused   *)
(* before anything changes.  Imports leave the paths as they are           *)
(* (IncludePaths is off) and preserve hardware protection.                 *)
(***************************************************************************)
EXTENDS Integers

CONSTANTS
    Name,       \* names of identities
    HWName,     \* those of identities that a hardware key protects
    Old, New,   \* keys: this device's, and another device's
    Fresh,      \* a challenge that was made for want of the right one
    Torn,       \* what an interrupted os.WriteFile leaves of a key file or a challenge
    NoName,     \* the default identity is ""
    Backends,   \* backends that identities may be put in
    MaxEvents   \* bound: what the user does, failures and kills

ASSUME LocalInstallAssumption ==
    /\ HWName \subseteq Name
    /\ NoName \notin Name
    /\ 0 \notin {Old, New, Fresh, Torn} /\ Old # New /\ Fresh # Torn
    /\ {Old, New} \cap {Fresh, Torn} = {}
    /\ Backends \subseteq {"file", "keychain"}
    /\ MaxEvents \in Nat

VARIABLES
    files,     \* files[n] = [enc, marker, sign]: the key files, in KeysDir
    keychain,  \* keychain[n]: its entries; the signing key is in chunks beside a marker
    chal,      \* chal[n]: n.hwchallenge, in KeysDir
    meta,      \* meta[n]: the key that n.meta is encrypted to
    index,     \* index[n] = [key, backend]: identities.json
    rest,      \* [contacts, config, default]: contacts.json and config.toml
    backup,    \* a profile bundle: [keys, rest]
    archives,  \* the rollback copies in TempDir
    op,        \* the operation under way
    kept,      \* history: <<n, k>> that the user keeps in key files
    hurt,      \* history: <<n, why>> what may have cost n its keys
    events     \* number of events so far

install == <<files, chal, meta, index, rest>>
vars    == <<install, keychain, backup, archives, op, kept, hurt, events>>

Whys == {"torn", "challenge", "tornChallenge", "killed", "keychain", "restore"}

\* "marker": the entry for the signing key is there; "sign": what it leads to.
NoKeys  == [enc |-> 0, marker |-> FALSE, sign |-> 0]
Full(k) == [enc |-> k, marker |-> TRUE, sign |-> k]
NoEntry == [key |-> 0, backend |-> "file"]
Nothing == [files |-> [n \in Name |-> NoKeys], chal |-> [n \in Name |-> 0],
            meta |-> [n \in Name |-> 0], index |-> [n \in Name |-> NoEntry],
            rest |-> [contacts |-> 0, config |-> 0, default |-> NoName]]
NoOp    == [kind |-> "none", pc |-> "idle", backend |-> "file", settings |-> FALSE,
            todo |-> {}, done |-> {}, cur |-> NoName, key |-> 0, before |-> Nothing,
            clean |-> TRUE, failed |-> FALSE]

\* installBackup's contents.
Installed == [files |-> files, chal |-> chal, meta |-> meta, index |-> index, rest |-> rest]

Held(b, n) == IF b = "file" THEN files[n] ELSE keychain[n]
Indexed    == {n \in Name : index[n].key # 0}

\* The keys load and are k: both halves are complete, the challenge is the right one.
Whole(held, challenge, n, k) ==
    /\ held = Full(k)
    /\ n \in HWName => challenge = k

\* identity.Unlock, and LoadMeta of what it opened.
Unlocks(n) == Whole(Held(index[n].backend, n), chal[n], n, index[n].key)
Usable(n)  == Unlocks(n) /\ meta[n] = index[n].key

\* A consistent install of some identities, in one backend, and a backup of another
\* device's profile.
Init ==
    /\ \E have \in SUBSET Name, b \in Backends :
          /\ files = [n \in Name |-> IF n \in have /\ b = "file" THEN Full(Old) ELSE NoKeys]
          /\ keychain = [n \in Name |-> IF n \in have /\ b = "keychain" THEN Full(Old) ELSE NoKeys]
          /\ chal = [n \in Name |-> IF n \in have \cap HWName THEN Old ELSE 0]
          /\ meta = [n \in Name |-> IF n \in have THEN Old ELSE 0]
          /\ index = [n \in Name |-> IF n \in have THEN [key |-> Old, backend |-> b] ELSE NoEntry]
          /\ kept = IF b = "file" THEN have \X {Old} ELSE {}
          /\ \E d \in (IF have = {} THEN {NoName} ELSE have) :
                rest = [contacts |-> Old, config |-> Old, default |-> d]
    /\ \E d \in Name :
          backup = [keys |-> [n \in Name |-> New],
                    rest |-> [contacts |-> New, config |-> New, default |-> d]]
    /\ archives = {}
    /\ op = NoOp
    /\ hurt = {}
    /\ events = 0

Event    == events < MaxEvents /\ events' = events + 1
At(pc)   == op.pc = pc
Goto(pc) == op' = [op EXCEPT !.pc = pc]
Idle     == op.kind = "none"

-----------------------------------------------------------------------------
(* The key stores.                                                          *)

\* HasKeys looks for both entries, not at what they hold, nor at the chunks.
HasKeys(b, n) == Held(b, n).enc # 0 /\ Held(b, n).marker

Put(b, n, held) ==
    IF b = "file" THEN files' = [files EXCEPT ![n] = held] /\ UNCHANGED keychain
                  ELSE keychain' = [keychain EXCEPT ![n] = held] /\ UNCHANGED files

\* What a store that fails or is interrupted leaves: a torn file, or the chunks and
\* not yet the marker (storeSigningKeyChunked).
EncRemains(b, held) ==
    {held} \cup (IF b = "file" THEN {[held EXCEPT !.enc = Torn]} ELSE {})
SignRemains(b, held, k) ==
    {held, IF b = "file" THEN [held EXCEPT !.marker = TRUE, !.sign = Torn]
                         ELSE [held EXCEPT !.sign = k]}

\* What Clear leaves that stops halfway: enc goes first, the signing key second; of a
\* keychain's entries chunks (on Windows) go before both.
ClearRemains(b, held) ==
    {held, [held EXCEPT !.enc = 0]} \cup
    (IF b = "file" THEN {} ELSE {[held EXCEPT !.sign = 0], [held EXCEPT !.sign = 0, !.enc = 0]})

\* n's entries are there, and the halves do not belong together or are not complete.
Halves(n, held) == IF held.marker /\ held.enc \notin {0, held.sign} THEN {<<n, "torn">>} ELSE {}

\* HardwareKeyDecorator: a load that finds no challenge file makes one.
Unlock(n) ==
    /\ Idle
    /\ n \in Indexed \cap HWName
    /\ Held(index[n].backend, n).enc # 0
    /\ chal[n] = 0
    /\ chal' = [chal EXCEPT ![n] = Fresh]
    /\ UNCHANGED <<files, keychain, meta, index, rest, backup, archives, op, kept, hurt, events>>

-----------------------------------------------------------------------------
(* profile.Export and profile.Import.                                       *)

\* ExportToBytesWithPass opens every identity and fails if one does not open.
ExportProfile ==
    /\ Event
    /\ Idle
    /\ Indexed # {}
    /\ \A n \in Indexed : Usable(n)
    /\ backup' = [keys |-> [n \in Name |-> index[n].key], rest |-> rest]
    /\ UNCHANGED <<install, keychain, archives, op, kept, hurt>>

\* ImportFromBytes up to snapshotInstall, of a bundle that decrypts.
BeginImport(b, settings) ==
    /\ Event
    /\ Idle
    /\ archives' = archives \cup {Installed}
    /\ op' = [NoOp EXCEPT !.kind = "profile", !.pc = "config", !.backend = b,
                          !.settings = settings, !.before = Installed]
    /\ UNCHANGED <<install, keychain, backup, kept, hurt>>

ApplyImportedConfig ==
    /\ At("config")
    /\ rest' = IF op.settings
               THEN [rest EXCEPT !.config = backup.rest.config, !.default = backup.rest.default]
               ELSE rest
    /\ op' = [op EXCEPT !.pc = "wipe", !.todo = Indexed]
    /\ UNCHANGED <<files, keychain, chal, meta, index, backup, archives, kept, hurt, events>>

\* wipeLocalState clears the keys of every indexed identity; errors are ignored.
WipeKeys(n, stops) ==
    LET b == index[n].backend IN
    /\ At("wipe")
    /\ n \in op.todo
    /\ IF stops
       THEN /\ Event
            /\ \E held \in ClearRemains(b, Held(b, n)) :
                  Put(b, n, held) /\ hurt' = hurt \cup Halves(n, held)
       ELSE Put(b, n, NoKeys) /\ UNCHANGED <<hurt, events>>
    /\ op' = [op EXCEPT !.todo = @ \ {n}, !.clean = @ /\ ~stops]
    /\ UNCHANGED <<chal, meta, index, rest, backup, archives, kept>>

\* ... then the challenges, the meta files, the index and the contacts.
WipeFiles(left) ==
    /\ At("wipe")
    /\ op.todo = {}
    /\ IF left = {} THEN UNCHANGED events ELSE Event
    /\ chal' = IF "chal" \in left THEN chal ELSE Nothing.chal
    /\ meta' = IF "meta" \in left THEN meta ELSE Nothing.meta
    /\ index' = IF "index" \in left THEN index ELSE Nothing.index
    /\ rest' = IF "contacts" \in left THEN rest ELSE [rest EXCEPT !.contacts = 0]
    /\ op' = [op EXCEPT !.pc = "next", !.todo = {n \in Name : backup.keys[n] # 0},
                        !.clean = @ /\ left = {}]
    /\ UNCHANGED <<files, keychain, backup, archives, kept, hurt>>

\* The next identity of the manifest.
NextIdentity ==
    /\ At("next")
    /\ \E n \in op.todo :
          op' = [op EXCEPT !.pc = "check", !.cur = n, !.key = backup.keys[n], !.todo = @ \ {n}]
    /\ UNCHANGED <<install, keychain, backup, archives, kept, hurt, events>>

\* identity.ImportBytes: restoreHW has the challenge written, then keys that exist are
\* refused (ErrKeysExist); the import of one identity may then reconcile.
CheckKeys ==
    LET n == op.cur IN
    /\ At("check")
    /\ chal' = IF n \in HWName THEN [chal EXCEPT ![n] = op.key] ELSE chal
    /\ hurt' = IF n \in HWName /\ chal[n] \in {Old, New} \ {op.key}
               THEN hurt \cup {<<n, "challenge">>} ELSE hurt
    /\ Goto(IF ~HasKeys(op.backend, n) THEN "enc"
            ELSE IF op.kind = "profile" THEN "restoreKeys" ELSE "exists")
    /\ UNCHANGED <<files, keychain, meta, index, rest, backup, archives, kept, events>>

StoreEncryptionIdentity ==
    /\ At("enc")
    /\ Put(op.backend, op.cur, [Held(op.backend, op.cur) EXCEPT !.enc = op.key])
    /\ Goto("sign")
    /\ UNCHANGED <<chal, meta, index, rest, backup, archives, kept, hurt, events>>

StoreSigningKey ==
    /\ At("sign")
    /\ Put(op.backend, op.cur, [Held(op.backend, op.cur) EXCEPT !.marker = TRUE, !.sign = op.key])
    /\ Goto(IF op.kind = "profile" THEN "meta" ELSE "persist")
    /\ UNCHANGED <<chal, meta, index, rest, backup, archives, kept, hurt, events>>

\* The identity's meta file is copied verbatim.
WriteMeta ==
    /\ At("meta")
    /\ meta' = [meta EXCEPT ![op.cur] = op.key]
    /\ op' = [op EXCEPT !.pc = "next", !.done = @ \cup {op.cur}]
    /\ UNCHANGED <<files, keychain, chal, index, rest, backup, archives, kept, hurt, events>>

SaveIndex ==
    /\ At("next")
    /\ op.todo = {}
    /\ index' = [n \in Name |-> IF n \in op.done THEN [key |-> backup.keys[n], backend |-> op.backend]
                                                 ELSE NoEntry]
    /\ Goto("contacts")
    /\ UNCHANGED <<files, keychain, chal, meta, rest, backup, archives, kept, hurt, events>>

\* Contacts, the default if there is none, and the archive goes.
FinishImport ==
    /\ At("contacts")
    /\ \E first \in op.done :
          rest' = [rest EXCEPT !.contacts = backup.rest.contacts,
                               !.default = IF ~op.settings /\ @ = NoName THEN first ELSE @]
    /\ archives' = archives \ {op.before}
    /\ kept' = IF op.backend = "file" THEN {<<n, backup.keys[n]>> : n \in op.done} ELSE {}
    /\ op' = NoOp
    /\ UNCHANGED <<files, keychain, chal, meta, index, backup, hurt, events>>

-----------------------------------------------------------------------------
(* The rollback: installBackup.restore.                                     *)

\* Mutant of RestoreKeys: the copy goes over what is there.
RestoreKeysOver(fails) ==
    /\ At("restoreKeys")
    /\ IF fails THEN Event ELSE UNCHANGED events
    /\ files' = [n \in Name |-> IF fails \/ op.before.files[n] = NoKeys
                               THEN files[n] ELSE op.before.files[n]]
    /\ chal' = IF fails THEN Nothing.chal ELSE op.before.chal
    /\ op' = [op EXCEPT !.pc = "restoreRest", !.failed = fails]
    /\ UNCHANGED <<keychain, meta, index, rest, backup, archives, kept, hurt>>

Some(f, left, none) == [n \in Name |-> IF n \in left THEN f[n] ELSE none[n]]

\* The keys directory is removed, then copied back: if the removal fails, some of what is
\* there is left, and if the copy fails, some of it has come back.
RestoreKeys(fails) ==
    /\ At("restoreKeys")
    /\ IF fails THEN Event ELSE UNCHANGED events
    /\ IF ~fails THEN files' = op.before.files /\ chal' = op.before.chal
       ELSE \E left \in SUBSET Name, back \in BOOLEAN :
              LET from == IF back THEN op.before ELSE Installed IN
              /\ files' = Some(from.files, left, Nothing.files)
              /\ chal' = Some(from.chal, left, Nothing.chal)
    /\ op' = [op EXCEPT !.pc = "restoreRest", !.failed = fails]
    /\ UNCHANGED <<keychain, meta, index, rest, backup, archives, kept, hurt>>

Restored(item, left, now) == IF item \in left THEN now ELSE op.before[item]

\* Mutant of Discard: the archive goes although something was not restored.
DiscardAlways(all) == archives' = archives \ {op.before}

\* The archive is kept if something could not be restored.
Discard(all) == archives' = IF all THEN archives \ {op.before} ELSE archives

\* The meta files, the index, the contacts and the configuration.
RestoreRest(left) ==
    LET all == left = {} /\ ~op.failed IN
    /\ At("restoreRest")
    /\ IF left = {} THEN UNCHANGED events ELSE Event
    /\ meta' = Restored("meta", left, meta)
    /\ index' = Restored("index", left, index)
    /\ rest' = Restored("rest", left, rest)
    /\ Discard(all)
    /\ hurt' = hurt \cup {x \in Name \X {"keychain"} : op.before.index[x[1]].backend = "keychain"}
                    \cup (IF all THEN {} ELSE Name \X {"restore"})
    /\ op' = NoOp
    /\ UNCHANGED <<files, keychain, chal, backup, kept>>

-----------------------------------------------------------------------------
(* The import of one identity.                                              *)

BeginOne(n, k, b) ==
    /\ Event
    /\ Idle
    /\ op' = [NoOp EXCEPT !.kind = "one", !.pc = "check", !.cur = n, !.key = k, !.backend = b]
    /\ UNCHANGED <<install, keychain, backup, archives, kept, hurt>>

\* ErrKeysExist: the caller completes an orphaned import of the same keys, or stops.
Reconcile ==
    /\ At("exists")
    /\ IF op.cur \notin Indexed /\ Held(op.backend, op.cur).enc = op.key
       THEN Goto("persist") ELSE op' = NoOp
    /\ UNCHANGED <<install, keychain, backup, archives, kept, hurt, events>>

\* PersistImported: an entry with other keys is refused; the meta file comes first.
PersistMeta ==
    /\ At("persist")
    /\ IF index[op.cur].key \in {0, op.key}
       THEN meta' = [meta EXCEPT ![op.cur] = op.key] /\ Goto("entry")
       ELSE UNCHANGED meta /\ op' = NoOp
    /\ UNCHANGED <<files, keychain, chal, index, rest, backup, archives, kept, hurt, events>>

\* ... then the index; the caller makes the first identity the default.
PersistEntry ==
    /\ At("entry")
    /\ index' = [index EXCEPT ![op.cur] = [key |-> op.key, backend |-> op.backend]]
    /\ rest' = IF Indexed = {} THEN [rest EXCEPT !.default = op.cur] ELSE rest
    /\ kept' = IF op.backend = "file" THEN kept \cup {<<op.cur, op.key>>} ELSE kept
    /\ op' = NoOp
    /\ UNCHANGED <<files, keychain, chal, meta, backup, archives, hurt, events>>

-----------------------------------------------------------------------------
(* HandoffAndDelete; the re-keying of the cloud is in SelfLock.             *)

\* The default goes to a successor, if there is one; then the victim must unlock.
BeginDelete(n, successor) ==
    /\ Event
    /\ Idle
    /\ n \in Indexed
    /\ IF Indexed = {n} THEN successor = n ELSE successor \in Indexed \ {n}
    /\ rest' = IF rest.default = n /\ Indexed # {n} THEN [rest EXCEPT !.default = successor] ELSE rest
    /\ op' = IF Unlocks(n) THEN [NoOp EXCEPT !.kind = "delete", !.pc = "unlist", !.cur = n,
                                             !.backend = index[n].backend]
              ELSE NoOp
    /\ UNCHANGED <<files, keychain, chal, meta, index, backup, archives, kept, hurt>>

\* Mutant of Unlist: the keys are wiped first.
UnlistLast ==
    /\ At("unlist")
    /\ Put(op.backend, op.cur, NoKeys)
    /\ index' = IF Held(op.backend, op.cur) = NoKeys
                THEN [index EXCEPT ![op.cur] = NoEntry] ELSE index
    /\ kept' = {x \in kept : x[1] # op.cur}
    /\ Goto(IF Held(op.backend, op.cur) = NoKeys THEN "clear" ELSE "unlist")
    /\ UNCHANGED <<chal, meta, rest, backup, archives, hurt, events>>

\* The index without the victim is saved first.
Unlist ==
    /\ At("unlist")
    /\ index' = [index EXCEPT ![op.cur] = NoEntry]
    /\ kept' = {x \in kept : x[1] # op.cur}
    /\ Goto("clear")
    /\ UNCHANGED <<files, keychain, chal, meta, rest, backup, archives, hurt, events>>

\* host.ClearKeys: the keys and the challenge.
ClearKeys ==
    /\ At("clear")
    /\ Put(op.backend, op.cur, NoKeys)
    /\ chal' = [chal EXCEPT ![op.cur] = 0]
    /\ Goto("unmeta")
    /\ UNCHANGED <<meta, index, rest, backup, archives, kept, hurt, events>>

RemoveMeta ==
    /\ At("unmeta")
    /\ meta' = [meta EXCEPT ![op.cur] = 0]
    /\ rest' = IF rest.default = op.cur THEN [rest EXCEPT !.default = NoName] ELSE rest
    /\ op' = NoOp
    /\ UNCHANGED <<files, keychain, chal, index, backup, archives, kept, hurt, events>>

-----------------------------------------------------------------------------
(* Failures and kills.                                                      *)

\* What a step that stops leaves of the identity in hand.
Remains ==
    LET b == op.backend
        held == IF op.cur = NoName THEN NoKeys ELSE Held(b, op.cur)
    IN  CASE At("enc")   -> EncRemains(b, held)
          [] At("sign")  -> SignRemains(b, held, op.key)
          [] At("clear") -> ClearRemains(b, held)
          [] OTHER       -> {held}

LeaveRemains(held) ==
    IF op.cur = NoName THEN UNCHANGED <<files, keychain>> ELSE Put(op.backend, op.cur, held)

\* A step returns an error: a profile import rolls back, the others stop.
StepFails ==
    /\ Event
    /\ op.pc \in {"config", "next", "check", "enc", "sign", "meta", "contacts",
                  "persist", "entry", "unlist", "clear", "unmeta"}
    /\ \E held \in Remains :
          /\ LeaveRemains(held)
          /\ hurt' = hurt \cup Halves(op.cur, held)
    /\ op' = IF op.kind = "profile" THEN [op EXCEPT !.pc = "restoreKeys", !.clean = FALSE] ELSE NoOp
    /\ UNCHANGED <<chal, meta, index, rest, backup, archives, kept>>

\* The process dies: nothing is rolled back, the archive stays.
Killed ==
    /\ Event
    /\ ~Idle
    /\ \E held \in Remains :
          /\ LeaveRemains(held)
          /\ hurt' = hurt \cup Halves(op.cur, held)
                          \cup (IF op.kind = "profile" THEN Name \X {"killed"} ELSE {})
    /\ op' = NoOp
    /\ UNCHANGED <<chal, meta, index, rest, backup, archives, kept>>

\* WriteChallenge fails, or the process dies in it: os.WriteFile has truncated the file,
\* whosever challenge was in it.
ChallengeTorn(killed) ==
    LET n == op.cur IN
    /\ Event
    /\ At("check")
    /\ n \in HWName
    /\ chal' = [chal EXCEPT ![n] = Torn]
    /\ hurt' = hurt \cup (IF chal[n] \in {Old, New} THEN {<<n, "tornChallenge">>} ELSE {})
                    \cup (IF killed /\ op.kind = "profile" THEN Name \X {"killed"} ELSE {})
    /\ op' = IF ~killed /\ op.kind = "profile"
             THEN [op EXCEPT !.pc = "restoreKeys", !.clean = FALSE] ELSE NoOp
    /\ UNCHANGED <<files, keychain, meta, index, rest, backup, archives, kept>>

-----------------------------------------------------------------------------

UserStep ==
    \/ ExportProfile
    \/ \E n \in Name : Unlock(n)
    \/ \E b \in Backends, settings \in BOOLEAN : BeginImport(b, settings)
    \/ \E n \in Name, k \in {Old, New}, b \in Backends : BeginOne(n, k, b)
    \/ \E n, successor \in Name : BeginDelete(n, successor)

OpStep ==
    \/ ApplyImportedConfig
    \/ \E n \in Name, stops \in BOOLEAN : WipeKeys(n, stops)
    \/ \E left \in SUBSET {"chal", "meta", "index", "contacts"} : WipeFiles(left)
    \/ NextIdentity \/ CheckKeys \/ StoreEncryptionIdentity \/ StoreSigningKey \/ WriteMeta
    \/ SaveIndex \/ FinishImport
    \/ \E fails \in BOOLEAN : RestoreKeys(fails)
    \/ \E left \in SUBSET {"meta", "index", "rest"} : RestoreRest(left)
    \/ Reconcile \/ PersistMeta \/ PersistEntry
    \/ Unlist \/ ClearKeys \/ RemoveMeta

Next == UserStep \/ OpStep \/ StepFails \/ Killed
        \/ \E killed \in BOOLEAN : ChallengeTorn(killed)

Spec == Init /\ [][Next]_vars

-----------------------------------------------------------------------------
(* Properties.                                                              *)

Key     == {Old, New}
Label   == {"idle", "config", "wipe", "next", "check", "enc", "sign", "meta", "contacts",
            "restoreKeys", "restoreRest", "exists", "persist", "entry", "unlist", "clear", "unmeta"}
Stored  == [enc : Key \cup {0, Torn}, marker : BOOLEAN, sign : Key \cup {0, Torn}]
Rest    == [contacts : Key \cup {0}, config : Key \cup {0}, default : Name \cup {NoName}]
Install == [files : [Name -> Stored], chal : [Name -> Key \cup {0, Fresh, Torn}],
            meta : [Name -> Key \cup {0}],
            index : [Name -> [key : Key \cup {0}, backend : {"file", "keychain"}]], rest : Rest]
Op      == [kind : {"none", "profile", "one", "delete"}, pc : Label,
            backend : {"file", "keychain"}, settings : BOOLEAN, todo : SUBSET Name,
            done : SUBSET Name, cur : Name \cup {NoName}, key : Key \cup {0},
            before : Install, clean : BOOLEAN, failed : BOOLEAN]

\* Type invariant; an archive is there for as long as an import is under way.
TypeOK ==
    /\ Installed \in Install
    /\ keychain \in [Name -> Stored]
    /\ backup \in [keys : [Name -> Key \cup {0}], rest : Rest]
    /\ archives \subseteq Install
    /\ op \in Op
    /\ op.kind = "profile" => op.before \in archives
    /\ kept \subseteq Name \X Key
    /\ hurt \subseteq Name \X Whys
    /\ events \in 0..MaxEvents

\* "ANY failure in the steps below rolls back to the user's previous profile": when
\* a failed import discards its archive, everything on disk is as before the import.
RolledBack ==
    [][(At("restoreRest") /\ op.before \notin archives') => Installed' = op.before]_vars

\* Every identity in the index opens: the keys of both halves, the challenge and the
\* meta file are there and are those of the indexed fingerprint, whatever step of an
\* import of one identity or of a deletion fails or is the last one (the index is
\* written last in an import, first in a deletion).  The exceptions: a whole profile's
\* import is under way, was killed, or could not be rolled back, for want of the
\* keychain's entries or of the archive; what an interrupted store or removal left was
\* taken for a key; another bundle's challenge was put in place before its keys were
\* refused; the writing of a challenge, be it the identity's own, was interrupted.
IndexedIsUsable ==
    op.kind # "profile" =>
        \A n \in Indexed : Usable(n) \/ \E why \in Whys : <<n, why>> \in hurt

\* No key file is lost by an import that fails, is rolled back in part, or is killed,
\* however often that happens: the keys are in KeysDir or in an archive until an import
\* succeeds or the user deletes the identity.  The exceptions: the challenge they need
\* was overwritten or torn, or an interrupted store was taken for a key.
KeysSurvive ==
    \A x \in kept :
        \/ Whole(files[x[1]], chal[x[1]], x[1], x[2])
        \/ \E a \in archives : Whole(a.files[x[1]], a.chal[x[1]], x[1], x[2])
        \/ \E why \in {"challenge", "tornChallenge", "torn"} : <<x[1], why>> \in hurt

\* "ANY failure in the steps below rolls back to the user's previous profile": keychain
\* entries do not excuse an indexed identity that does not open after an import that
\* failed and was rolled back, the archive discarded.
\* (The code does not keep this one: README, Findings.)
RollbackRestoresKeys ==
    Idle => \A n \in Indexed : Usable(n) \/ \E why \in Whys \ {"keychain"} : <<n, why>> \in hurt

\* "a partial wipe is fully recoverable by re-importing": after an import that was
\* killed, an import in which nothing fails is not rolled back.
ReimportSucceeds ==
    (At("restoreKeys") /\ Name \X {"killed"} \subseteq hurt) => ~op.clean

\* "Refuse to clobber an existing identity's keys": the import of one identity leaves
\* every identity that opens openable.
\* (The code does not keep this one: README, Findings.)
ImportKeepsOthers ==
    [][op.kind = "one" => \A n \in Indexed : Unlocks(n) => Unlocks(n)']_vars

=============================================================================
