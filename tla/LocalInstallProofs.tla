------------------------- MODULE LocalInstallProofs -------------------------
(* Proofs about LocalInstall, for every set of identities and any number of *)
(* failures and kills: types, that a failed import which discards its       *)
(* archive has restored everything, that no key file is lost, and that what *)
(* the index names opens.                                                   *)
EXTENDS LocalInstall, TLAPS

(* What the label of an operation says about it.                            *)
OpOK ==
    /\ op.pc = "idle" <=> op.kind = "none"
    /\ op.pc \in {"config", "wipe", "next", "meta", "contacts", "restoreKeys", "restoreRest"}
          => op.kind = "profile"
    /\ op.pc \in {"exists", "persist", "entry"} => op.kind = "one"
    /\ op.pc \in {"unlist", "clear", "unmeta"} <=> op.kind = "delete"
    /\ op.pc \in {"check", "enc", "sign", "meta", "exists", "persist", "entry"}
          => op.cur \in Name /\ op.key \in Key
    /\ op.kind = "delete" => op.cur \in Name

(* Key files that do not belong together are known to be hurt, those of the *)
(* archive too; only between the two stores of an import may they differ.   *)
HalvesOK ==
    /\ \A n \in Name : \/ op.pc = "sign" /\ op.backend = "file" /\ op.cur = n
                       \/ Halves(n, files[n]) \subseteq hurt
    /\ op.kind = "profile" => \A n \in Name : Halves(n, op.before.files[n]) \subseteq hurt

(* How far the import of the identity in hand has come.                     *)
Imported(n, k) == op.backend = "file" => files[n] = Full(k) \/ <<n, "torn">> \in hurt

ImportOK ==
    /\ op.pc = "enc" /\ op.backend = "file" => files[op.cur].enc = 0 \/ ~files[op.cur].marker
    /\ op.pc = "sign" /\ op.backend = "file" => files[op.cur].enc = op.key
    /\ op.pc = "exists" => HasKeys(op.backend, op.cur)
    /\ op.pc \in {"meta", "persist", "entry"} => Imported(op.cur, op.key)
    /\ op.pc \in {"enc", "sign", "meta", "exists", "persist", "entry"} /\ op.cur \in HWName
          => chal[op.cur] = op.key

(* The identities a profile's import has finished.                          *)
ProfileOK ==
    /\ op.pc \in {"config", "wipe"} => op.done = {}
    /\ op.kind = "profile" /\ op.pc \in {"next", "check", "enc", "sign", "meta", "contacts"} =>
          /\ op.todo \cap op.done = {}
          /\ \A n \in op.todo : backup.keys[n] \in Key
          /\ \A n \in op.done : /\ backup.keys[n] \in Key
                                /\ Imported(n, backup.keys[n])
                                /\ n \in HWName => chal[n] = backup.keys[n]
    /\ op.kind = "profile" /\ op.pc \in {"check", "enc", "sign", "meta"} =>
          op.cur \notin op.done \cup op.todo /\ op.key = backup.keys[op.cur]

RestoreOK ==
    op.pc = "restoreRest" /\ ~op.failed => files = op.before.files /\ chal = op.before.chal

DeleteOK == op.pc \in {"clear", "unmeta"} => \A x \in kept : x[1] # op.cur

(* A key that the user keeps is in an archive while a profile's import is   *)
(* under way, and in KeysDir or in an archive otherwise.                    *)
InPlace(x)   == Whole(files[x[1]], chal[x[1]], x[1], x[2])
InArchive(x) == \E a \in archives : Whole(a.files[x[1]], a.chal[x[1]], x[1], x[2])
Excused(x)   == \E why \in {"challenge", "tornChallenge", "torn"} : <<x[1], why>> \in hurt

Survive ==
    \A x \in kept : InArchive(x) \/ Excused(x) \/ (op.kind # "profile" /\ InPlace(x))

IInv == TypeOK /\ OpOK /\ HalvesOK /\ ImportOK /\ ProfileOK /\ RestoreOK /\ DeleteOK /\ Survive

Backend == {"file", "keychain"}
IndexEntry == [key : Key \cup {0}, backend : Backend]

-----------------------------------------------------------------------------
(* Types.                                                                   *)

LEMMA NoKeysType == NoKeys \in Stored /\ \A n : Halves(n, NoKeys) = {}
  BY DEF NoKeys, Stored, Halves

LEMMA FullType == \A k \in Key : Full(k) \in Stored /\ \A n : Halves(n, Full(k)) = {}
  BY DEF Full, Stored, Halves

LEMMA NothingType == Nothing \in Install
  <1>1. NoEntry \in IndexEntry
    BY DEF NoEntry, IndexEntry, Backend
  <1>2. [n \in Name |-> NoKeys] \in [Name -> Stored] /\ [n \in Name |-> NoEntry] \in [Name -> IndexEntry]
    BY <1>1, NoKeysType
  <1>3. [contacts |-> 0, config |-> 0, default |-> NoName] \in Rest
    BY DEF Rest
  <1> QED
    BY <1>2, <1>3 DEF Nothing, Install, IndexEntry, Backend

LEMMA NothingParts ==
    /\ Nothing.files \in [Name -> Stored] /\ \A n \in Name : Nothing.files[n] = NoKeys
    /\ Nothing.chal \in [Name -> Key \cup {0, Fresh, Torn}]
    /\ Nothing.meta \in [Name -> Key \cup {0}]
    /\ Nothing.index \in [Name -> IndexEntry]
  BY NothingType DEF Nothing, Install, IndexEntry, Backend

LEMMA NoOpType ==
    NoOp \in Op /\ NoOp.kind = "none" /\ NoOp.pc = "idle"
  BY NothingType DEF NoOp, Op, Label

\* The parts of an install.
LEMMA InstallParts ==
    ASSUME NEW a \in Install
    PROVE  /\ a.files \in [Name -> Stored] /\ a.chal \in [Name -> Key \cup {0, Fresh, Torn}]
           /\ a.meta \in [Name -> Key \cup {0}] /\ a.index \in [Name -> IndexEntry]
           /\ a.rest \in Rest
           /\ a = [files |-> a.files, chal |-> a.chal, meta |-> a.meta, index |-> a.index,
                   rest |-> a.rest]
  BY DEF Install, IndexEntry, Backend

\* What TypeOK says of the single variables.
Parts ==
    /\ files \in [Name -> Stored] /\ chal \in [Name -> Key \cup {0, Fresh, Torn}]
    /\ meta \in [Name -> Key \cup {0}] /\ index \in [Name -> IndexEntry] /\ rest \in Rest
    /\ keychain \in [Name -> Stored]
    /\ backup \in [keys : [Name -> Key \cup {0}], rest : Rest]
    /\ archives \subseteq Install
    /\ op \in Op
    /\ op.kind = "profile" => op.before \in archives
    /\ kept \subseteq Name \X Key
    /\ hurt \subseteq Name \X Whys
    /\ events \in 0..MaxEvents

LEMMA TypeParts == TypeOK <=> Parts
  BY DEF TypeOK, Parts, Installed, Install, IndexEntry, Backend

\* The fields of an operation.
LEMMA OpFields ==
    ASSUME NEW o \in Op
    PROVE  /\ o.kind \in {"none", "profile", "one", "delete"} /\ o.pc \in Label
           /\ o.backend \in Backend /\ o.settings \in BOOLEAN
           /\ o.todo \subseteq Name /\ o.done \subseteq Name
           /\ o.cur \in Name \cup {NoName} /\ o.key \in Key \cup {0}
           /\ o.before \in Install /\ o.clean \in BOOLEAN /\ o.failed \in BOOLEAN
  BY DEF Op, Backend

\* Goto changes the label only.
LEMMA GotoOK ==
    ASSUME op \in Op, NEW p \in Label, Goto(p)
    PROVE  /\ op' \in Op /\ op'.pc = p
           /\ op'.kind = op.kind /\ op'.backend = op.backend /\ op'.settings = op.settings
           /\ op'.todo = op.todo /\ op'.done = op.done /\ op'.cur = op.cur
           /\ op'.key = op.key /\ op'.before = op.before /\ op'.failed = op.failed
  BY DEF Goto, Op

-----------------------------------------------------------------------------
LEMMA InitInv == Init => IInv
  <1> SUFFICES ASSUME Init PROVE IInv
    OBVIOUS
  <1>1. PICK have \in SUBSET Name, b \in Backends :
          /\ files = [n \in Name |-> IF n \in have /\ b = "file" THEN Full(Old) ELSE NoKeys]
          /\ keychain = [n \in Name |-> IF n \in have /\ b = "keychain" THEN Full(Old) ELSE NoKeys]
          /\ chal = [n \in Name |-> IF n \in have \cap HWName THEN Old ELSE 0]
          /\ meta = [n \in Name |-> IF n \in have THEN Old ELSE 0]
          /\ index = [n \in Name |-> IF n \in have THEN [key |-> Old, backend |-> b] ELSE NoEntry]
          /\ kept = IF b = "file" THEN have \X {Old} ELSE {}
          /\ \E d \in (IF have = {} THEN {NoName} ELSE have) :
                rest = [contacts |-> Old, config |-> Old, default |-> d]
    BY DEF Init
  <1>2. op = NoOp /\ op \in Op /\ op.kind = "none" /\ op.pc = "idle"
    BY NoOpType DEF Init
  <1>3. files \in [Name -> Stored] /\ keychain \in [Name -> Stored]
    BY <1>1, NoKeysType, FullType DEF Key
  <1>4. index \in [Name -> IndexEntry]
    <2>1. NoEntry \in IndexEntry /\ [key |-> Old, backend |-> b] \in IndexEntry
      BY LocalInstallAssumption DEF NoEntry, IndexEntry, Backend, Key
    <2> QED
      BY <1>1, <2>1
  <1>5. rest \in Rest /\ backup \in [keys : [Name -> Key \cup {0}], rest : Rest]
    BY <1>1 DEF Init, Rest, Key
  <1>6. chal \in [Name -> Key \cup {0, Fresh, Torn}] /\ meta \in [Name -> Key \cup {0}] /\ kept \subseteq Name \X Key
    BY <1>1 DEF Key
  <1>7. Parts
    BY <1>2, <1>3, <1>4, <1>5, <1>6, LocalInstallAssumption DEF Parts, Init
  <1>8. OpOK /\ ImportOK /\ ProfileOK /\ RestoreOK /\ DeleteOK
    BY <1>2 DEF OpOK, ImportOK, ProfileOK, RestoreOK, DeleteOK
  <1>9. HalvesOK
    BY <1>1, <1>2, NoKeysType, FullType DEF HalvesOK, Key
  <1>10. Survive
    BY <1>1, <1>2, LocalInstallAssumption DEF Survive, InPlace, Whole
  <1> QED
    BY <1>7, <1>8, <1>9, <1>10, TypeParts DEF IInv

-----------------------------------------------------------------------------
(* What the steps have in common.                                           *)

LEMMA TypePartsNext == TypeOK' <=> Parts'
  BY DEF TypeOK, Parts, Installed, Install, IndexEntry, Backend

\* What the induction hypothesis says of the types.
LEMMA Unfold ==
    ASSUME IInv
    PROVE  /\ Parts /\ op \in Op
           /\ op.kind \in {"none", "profile", "one", "delete"} /\ op.pc \in Label
           /\ op.backend \in Backend /\ op.settings \in BOOLEAN
           /\ op.todo \subseteq Name /\ op.done \subseteq Name
           /\ op.cur \in Name \cup {NoName} /\ op.key \in Key \cup {0}
           /\ op.before \in Install /\ op.clean \in BOOLEAN /\ op.failed \in BOOLEAN
  <1>1. Parts /\ op \in Op
    BY TypeParts DEF IInv, Parts
  <1> QED
    BY <1>1, OpFields

\* An operation that ends leaves the key files and what is kept to account for.
LEMMA EndOK ==
    ASSUME Parts', op' = NoOp,
           \A n \in Name : Halves(n, files'[n]) \subseteq hurt',
           Survive'
    PROVE  IInv'
  <1>1. op'.kind = "none" /\ op'.pc = "idle"
    BY NoOpType
  <1>2. OpOK' /\ ImportOK' /\ ProfileOK' /\ RestoreOK' /\ DeleteOK'
    BY <1>1 DEF OpOK, ImportOK, ProfileOK, RestoreOK, DeleteOK
  <1>3. HalvesOK'
    BY <1>1 DEF HalvesOK, Halves
  <1> QED
    BY <1>2, <1>3, TypePartsNext DEF IInv

\* A step that removes no archive and spoils no key in place loses nothing.
LEMMA SurviveKeeps ==
    ASSUME Survive, kept' \subseteq kept, archives \subseteq archives', hurt \subseteq hurt',
           \/ op.kind = "profile"
           \/ op'.kind # "profile" /\ \A x \in kept' : InPlace(x) => InPlace(x)' \/ Excused(x)'
    PROVE  Survive'
  <1> SUFFICES ASSUME NEW x \in kept'
               PROVE  InArchive(x)' \/ Excused(x)' \/ (op'.kind # "profile" /\ InPlace(x)')
    BY DEF Survive
  <1>1. InArchive(x) \/ Excused(x) \/ (op.kind # "profile" /\ InPlace(x))
    BY DEF Survive
  <1>2. InArchive(x) => InArchive(x)'
    BY DEF InArchive, Whole
  <1>3. Excused(x) => Excused(x)'
    BY DEF Excused
  <1> QED
    BY <1>1, <1>2, <1>3

\* One key store, and the files of one identity.
LEMMA PutOK ==
    ASSUME files \in [Name -> Stored], keychain \in [Name -> Stored],
           NEW b, NEW n \in Name, NEW held \in Stored, Put(b, n, held)
    PROVE  /\ files' \in [Name -> Stored] /\ keychain' \in [Name -> Stored]
           /\ b # "file" => files' = files
           /\ b = "file" => files'[n] = held
           /\ \A m \in Name : m # n => files'[m] = files[m]
  BY DEF Put

-----------------------------------------------------------------------------
(* What the user does.                                                      *)

LEMMA UnlockInv == ASSUME IInv, NEW n \in Name, Unlock(n) PROVE IInv'
  <1>1. op' = op /\ op.kind = "none" /\ op.pc = "idle"
    BY DEF Unlock, Idle, IInv, OpOK
  <1>2. Parts
    BY Unfold
  <1>3. chal' \in [Name -> Key \cup {0, Fresh, Torn}] /\ \A m \in Name : chal'[m] = chal[m] \/ chal[m] = 0
    BY <1>2 DEF Unlock, Parts
  <1>4. Parts'
    BY <1>1, <1>2, <1>3 DEF Unlock, Parts
  <1>5. OpOK' /\ ImportOK' /\ ProfileOK' /\ RestoreOK' /\ DeleteOK'
    BY <1>1 DEF OpOK, ImportOK, ProfileOK, RestoreOK, DeleteOK
  <1>6. HalvesOK'
    BY <1>1 DEF HalvesOK, Halves, Unlock, IInv
  <1>7. ASSUME NEW x \in kept', InPlace(x) PROVE InPlace(x)'
    <2>1. x[1] \in Name /\ x[2] \in Key
      BY <1>2 DEF Parts, Unlock
    <2> QED
      BY <1>3, <1>7, <2>1, LocalInstallAssumption DEF Unlock, InPlace, Whole, Key
  <1>8. Survive'
    BY <1>1, <1>7, SurviveKeeps DEF Unlock, IInv
  <1> QED
    BY <1>4, <1>5, <1>6, <1>8, TypePartsNext DEF IInv

LEMMA ExportProfileInv == ASSUME IInv, ExportProfile PROVE IInv'
  <1>1. op' = op /\ op.kind = "none" /\ op.pc = "idle"
    BY DEF ExportProfile, Idle, IInv, OpOK
  <1>2. Parts
    BY Unfold
  <1>3. backup' \in [keys : [Name -> Key \cup {0}], rest : Rest]
    BY <1>2 DEF Parts, ExportProfile, IndexEntry
  <1>4. Parts'
    BY <1>1, <1>2, <1>3, LocalInstallAssumption DEF ExportProfile, Parts, install, Event
  <1>5. OpOK' /\ ImportOK' /\ ProfileOK' /\ RestoreOK' /\ DeleteOK'
    BY <1>1 DEF OpOK, ImportOK, ProfileOK, RestoreOK, DeleteOK
  <1>6. HalvesOK'
    BY <1>1 DEF HalvesOK, Halves, ExportProfile, install, IInv
  <1>8. Survive'
    BY <1>1, SurviveKeeps DEF ExportProfile, install, InPlace, Whole, IInv
  <1> QED
    BY <1>4, <1>5, <1>6, <1>8, TypePartsNext DEF IInv

LEMMA BeginOneInv ==
    ASSUME IInv, NEW n \in Name, NEW k \in Key, NEW b \in Backends, BeginOne(n, k, b)
    PROVE  IInv'
  <1>1. op.kind = "none" /\ op.pc = "idle"
    BY DEF BeginOne, Idle, IInv, OpOK
  <1>2. Parts
    BY Unfold
  <1>3. op' \in Op /\ op'.kind = "one" /\ op'.pc = "check" /\ op'.cur = n /\ op'.key = k
    BY NoOpType, LocalInstallAssumption DEF BeginOne, NoOp, Op, Label
  <1>4. Parts'
    BY <1>1, <1>2, <1>3, LocalInstallAssumption DEF BeginOne, Parts, install, Event
  <1>5. OpOK' /\ ImportOK' /\ ProfileOK' /\ RestoreOK' /\ DeleteOK'
    BY <1>3 DEF OpOK, ImportOK, ProfileOK, RestoreOK, DeleteOK
  <1>6. HalvesOK'
    BY <1>1, <1>3 DEF HalvesOK, Halves, BeginOne, install, IInv
  <1>8. Survive'
    BY <1>3, SurviveKeeps DEF BeginOne, install, InPlace, Whole, IInv
  <1> QED
    BY <1>4, <1>5, <1>6, <1>8, TypePartsNext DEF IInv

LEMMA BeginDeleteInv ==
    ASSUME IInv, NEW n \in Name, NEW successor \in Name, BeginDelete(n, successor)
    PROVE  IInv'
  <1>1. op.kind = "none" /\ op.pc = "idle"
    BY DEF BeginDelete, Idle, IInv, OpOK
  <1>2. Parts
    BY Unfold
  <1>3. /\ op' \in Op
        /\ \/ op'.kind = "delete" /\ op'.pc = "unlist" /\ op'.cur = n
           \/ op'.kind = "none" /\ op'.pc = "idle"
    <2>1. index[n].backend \in {"file", "keychain"}
      BY <1>2 DEF Parts, IndexEntry, Backend
    <2>2. CASE Unlocks(n)
      BY <2>1, <2>2, NoOpType DEF BeginDelete, NoOp, Op, Label
    <2>3. CASE ~Unlocks(n)
      BY <2>3, NoOpType DEF BeginDelete
    <2> QED
      BY <2>2, <2>3
  <1>4. Parts'
    <2>1. rest' \in Rest
      BY <1>2 DEF BeginDelete, Parts, Rest
    <2> QED
      BY <1>1, <1>2, <1>3, <2>1, LocalInstallAssumption DEF BeginDelete, Parts, Event
  <1>5. OpOK' /\ ImportOK' /\ ProfileOK' /\ RestoreOK' /\ DeleteOK'
    BY <1>3 DEF OpOK, ImportOK, ProfileOK, RestoreOK, DeleteOK
  <1>6. HalvesOK'
    BY <1>1, <1>3 DEF HalvesOK, Halves, BeginDelete, IInv
  <1>8. Survive'
    BY <1>3, SurviveKeeps DEF BeginDelete, InPlace, Whole, IInv
  <1> QED
    BY <1>4, <1>5, <1>6, <1>8, TypePartsNext DEF IInv

\* What was in place is in the new archive.
LEMMA BeginImportInv ==
    ASSUME IInv, NEW b \in Backends, NEW settings \in BOOLEAN, BeginImport(b, settings)
    PROVE  IInv'
  <1>1. op.kind = "none" /\ op.pc = "idle"
    BY DEF BeginImport, Idle, IInv, OpOK
  <1>2. Parts /\ Installed \in Install
    BY Unfold DEF IInv, TypeOK
  <1>3. /\ op' \in Op /\ op'.kind = "profile" /\ op'.pc = "config" /\ op'.before = Installed
        /\ op'.done = {}
    BY <1>2, NoOpType, LocalInstallAssumption DEF BeginImport, NoOp, Op, Label
  <1>4. Parts'
    BY <1>1, <1>2, <1>3, LocalInstallAssumption DEF BeginImport, Parts, install, Event
  <1>5. OpOK' /\ ImportOK' /\ ProfileOK' /\ RestoreOK' /\ DeleteOK'
    BY <1>3 DEF OpOK, ImportOK, ProfileOK, RestoreOK, DeleteOK
  <1>6. HalvesOK'
    BY <1>1, <1>3 DEF HalvesOK, Halves, BeginImport, install, Installed, IInv
  <1>7. Survive'
    <2> SUFFICES ASSUME NEW x \in kept' PROVE InArchive(x)' \/ Excused(x)'
      BY DEF Survive
    <2>1. InArchive(x) \/ Excused(x) \/ InPlace(x)
      BY <1>1 DEF IInv, Survive, BeginImport
    <2>2. InPlace(x) => InArchive(x)'
      <3>1. Installed \in archives' /\ Installed.files = files /\ Installed.chal = chal
        BY DEF BeginImport, Installed
      <3> QED
        BY <3>1 DEF InPlace, InArchive, Whole
    <2>3. (InArchive(x) => InArchive(x)') /\ (Excused(x) => Excused(x)')
      BY DEF InArchive, Excused, Whole, BeginImport
    <2> QED
      BY <2>1, <2>2, <2>3
  <1> QED
    BY <1>4, <1>5, <1>6, <1>7, TypePartsNext DEF IInv

-----------------------------------------------------------------------------
(* The import of a profile.                                                 *)

LEMMA ApplyImportedConfigInv == ASSUME IInv, ApplyImportedConfig PROVE IInv'
  <1>1. op.pc = "config" /\ op.kind = "profile" /\ op.done = {}
    BY DEF ApplyImportedConfig, At, IInv, OpOK, ProfileOK
  <1>2. Parts /\ op \in Op
    BY Unfold
  <1>3. /\ op' \in Op /\ op'.kind = "profile" /\ op'.pc = "wipe" /\ op'.before = op.before
        /\ op'.done = op.done
    BY <1>1, <1>2 DEF ApplyImportedConfig, Op, Label, Indexed
  <1>4. Parts'
    <2>1. rest' \in Rest
      BY <1>2 DEF ApplyImportedConfig, Parts, Rest
    <2> QED
      BY <1>1, <1>2, <1>3, <2>1 DEF ApplyImportedConfig, Parts
  <1>5. OpOK' /\ ImportOK' /\ ProfileOK' /\ RestoreOK' /\ DeleteOK'
    BY <1>1, <1>3 DEF OpOK, ImportOK, ProfileOK, RestoreOK, DeleteOK
  <1>6. HalvesOK'
    BY <1>1, <1>3 DEF HalvesOK, Halves, ApplyImportedConfig, IInv
  <1>7. Survive'
    BY <1>1, SurviveKeeps DEF ApplyImportedConfig, IInv
  <1> QED
    BY <1>4, <1>5, <1>6, <1>7, TypePartsNext DEF IInv

\* What a removal that stops leaves has the type of key files.
LEMMA ClearRemainsType ==
    ASSUME NEW b, NEW held \in Stored PROVE ClearRemains(b, held) \subseteq Stored
  BY DEF ClearRemains, Stored

LEMMA HalvesType == \A n \in Name : \A held : Halves(n, held) \subseteq Name \X Whys
  BY DEF Halves, Whys

LEMMA WipeKeysInv ==
    ASSUME IInv, NEW n \in Name, NEW stops \in BOOLEAN, WipeKeys(n, stops)
    PROVE  IInv'
  <1> DEFINE b == index[n].backend
  <1>1. op.pc = "wipe" /\ op.kind = "profile" /\ op.done = {}
    BY DEF WipeKeys, At, IInv, OpOK, ProfileOK
  <1>2. Parts /\ op \in Op
    BY Unfold
  <1>3. /\ op' \in Op /\ op'.kind = "profile" /\ op'.pc = "wipe" /\ op'.before = op.before
        /\ op'.done = op.done
    BY <1>1, <1>2 DEF WipeKeys, Op, Label
  <1>4. files[n] \in Stored /\ keychain[n] \in Stored
    BY <1>2 DEF Parts
  <1>5. PICK held \in Stored :
          /\ Put(b, n, held) /\ hurt' \in {hurt, hurt \cup Halves(n, held)}
          /\ Halves(n, held) \subseteq hurt'
    <2>1. CASE stops
      <3>1. PICK held \in ClearRemains(b, Held(b, n)) : Put(b, n, held) /\ hurt' = hurt \cup Halves(n, held)
        BY <2>1 DEF WipeKeys
      <3>2. held \in Stored
        BY <1>4, ClearRemainsType DEF Held
      <3> QED
        BY <3>1, <3>2
    <2>2. CASE ~stops
      BY <2>2, NoKeysType DEF WipeKeys
    <2> QED
      BY <2>1, <2>2
  <1>6. /\ files' \in [Name -> Stored] /\ keychain' \in [Name -> Stored]
        /\ \A m \in Name : files'[m] = files[m] \/ (m = n /\ files'[m] = held)
    BY <1>2, <1>5, PutOK DEF Parts
  <1>7. hurt \subseteq hurt' /\ hurt' \subseteq Name \X Whys
    BY <1>2, <1>5, HalvesType DEF Parts
  <1>8. Parts'
    <2>1. events' \in 0..MaxEvents
      BY <1>2, LocalInstallAssumption DEF Parts, WipeKeys, Event
    <2> QED
      BY <1>1, <1>2, <1>3, <1>6, <1>7, <2>1 DEF WipeKeys, Parts
  <1>9. OpOK' /\ ImportOK' /\ ProfileOK' /\ RestoreOK' /\ DeleteOK'
    BY <1>1, <1>3 DEF OpOK, ImportOK, ProfileOK, RestoreOK, DeleteOK
  <1>10. HalvesOK'
    <2>1. \A m \in Name : Halves(m, files'[m]) \subseteq hurt'
      BY <1>1, <1>5, <1>6, <1>7 DEF IInv, HalvesOK
    <2>2. \A m \in Name : Halves(m, op'.before.files[m]) \subseteq hurt'
      BY <1>1, <1>3, <1>7 DEF IInv, HalvesOK
    <2> QED
      BY <2>1, <2>2 DEF HalvesOK, Halves
  <1>11. Survive'
    BY <1>1, <1>7, SurviveKeeps DEF WipeKeys, IInv
  <1> QED
    BY <1>8, <1>9, <1>10, <1>11, TypePartsNext DEF IInv

LEMMA WipeFilesInv ==
    ASSUME IInv, NEW left \in SUBSET {"chal", "meta", "index", "contacts"}, WipeFiles(left)
    PROVE  IInv'
  <1>1. op.pc = "wipe" /\ op.kind = "profile" /\ op.done = {}
    BY DEF WipeFiles, At, IInv, OpOK, ProfileOK
  <1>2. Parts /\ op \in Op
    BY Unfold
  <1>3. /\ op' \in Op /\ op'.kind = "profile" /\ op'.pc = "next" /\ op'.before = op.before
        /\ op'.done = {} /\ op'.todo = {n \in Name : backup.keys[n] # 0}
    BY <1>1, <1>2 DEF WipeFiles, Op, Label
  <1>4. Parts'
    <2>1. chal' \in [Name -> Key \cup {0, Fresh, Torn}] /\ meta' \in [Name -> Key \cup {0}]
      BY <1>2, NothingParts DEF WipeFiles, Parts
    <2>2. index' \in [Name -> IndexEntry]
      BY <1>2, NothingParts DEF WipeFiles, Parts
    <2>3. rest' \in Rest
      BY <1>2 DEF WipeFiles, Parts, Rest
    <2>4. events' \in 0..MaxEvents
      BY <1>2, LocalInstallAssumption DEF Parts, WipeFiles, Event
    <2> QED
      BY <1>1, <1>2, <1>3, <2>1, <2>2, <2>3, <2>4 DEF WipeFiles, Parts
  <1>5. OpOK' /\ ImportOK' /\ RestoreOK' /\ DeleteOK'
    BY <1>1, <1>3 DEF OpOK, ImportOK, RestoreOK, DeleteOK
  <1>6. ProfileOK'
    <2>1. \A n \in op'.todo : backup'.keys[n] \in Key
      BY <1>2, <1>3 DEF Parts, WipeFiles
    <2> QED
      BY <1>3, <2>1 DEF ProfileOK
  <1>7. HalvesOK'
    BY <1>1, <1>3 DEF HalvesOK, Halves, WipeFiles, IInv
  <1>8. Survive'
    BY <1>1, SurviveKeeps DEF WipeFiles, IInv
  <1> QED
    BY <1>4, <1>5, <1>6, <1>7, <1>8, TypePartsNext DEF IInv

LEMMA NextIdentityInv == ASSUME IInv, NextIdentity PROVE IInv'
  <1>1. op.pc = "next" /\ op.kind = "profile"
    BY DEF NextIdentity, At, IInv, OpOK
  <1>2. Parts /\ op \in Op /\ op.todo \subseteq Name
    BY Unfold
  <1>3. PICK n \in op.todo :
          op' = [op EXCEPT !.pc = "check", !.cur = n, !.key = backup.keys[n], !.todo = @ \ {n}]
    BY DEF NextIdentity
  <1>4. backup.keys[n] \in Key /\ n \notin op.done /\ op.todo \cap op.done = {}
    BY <1>1 DEF IInv, ProfileOK
  <1>5. /\ op' \in Op /\ op'.kind = "profile" /\ op'.pc = "check" /\ op'.before = op.before
        /\ op'.done = op.done /\ op'.todo = op.todo \ {n} /\ op'.cur = n /\ op'.key = backup.keys[n]
        /\ op'.backend = op.backend
    BY <1>1, <1>2, <1>3, <1>4 DEF Op, Label
  <1>6. Parts'
    BY <1>1, <1>2, <1>5 DEF NextIdentity, install, Parts
  <1>7. OpOK' /\ ImportOK' /\ RestoreOK' /\ DeleteOK'
    BY <1>2, <1>4, <1>5 DEF OpOK, ImportOK, RestoreOK, DeleteOK
  <1>8. ProfileOK'
    BY <1>1, <1>2, <1>4, <1>5 DEF IInv, ProfileOK, NextIdentity, install, Imported
  <1>9. HalvesOK'
    BY <1>1, <1>5 DEF HalvesOK, Halves, NextIdentity, install, IInv
  <1>10. Survive'
    BY <1>1, SurviveKeeps DEF NextIdentity, install, IInv
  <1> QED
    BY <1>6, <1>7, <1>8, <1>9, <1>10, TypePartsNext DEF IInv

\* A challenge that other keys need is known to be hurt when it is overwritten.
LEMMA CheckKeysInv == ASSUME IInv, CheckKeys PROVE IInv'
  <1> DEFINE n == op.cur
  <1>1. op.pc = "check" /\ op.kind \in {"profile", "one"} /\ n \in Name /\ op.key \in Key
    BY Unfold DEF CheckKeys, At, IInv, OpOK
  <1>2. Parts /\ op \in Op
    BY Unfold
  <1> DEFINE p == IF ~HasKeys(op.backend, n) THEN "enc"
                  ELSE IF op.kind = "profile" THEN "restoreKeys" ELSE "exists"
  <1>3. /\ op' \in Op /\ op'.pc = p
        /\ op'.kind = op.kind /\ op'.backend = op.backend /\ op'.todo = op.todo
        /\ op'.done = op.done /\ op'.cur = n /\ op'.key = op.key /\ op'.before = op.before
    <2>1. p \in Label
      BY DEF Label
    <2> QED
      BY <1>2, <2>1, GotoOK DEF CheckKeys
  <1>4. /\ chal' \in [Name -> Key \cup {0, Fresh, Torn}]
        /\ n \in HWName => chal'[n] = op.key
        /\ \A m \in Name : chal'[m] = chal[m] \/ (m = n /\ n \in HWName)
    BY <1>1, <1>2 DEF CheckKeys, Parts
  <1>5. hurt \subseteq hurt' /\ hurt' \subseteq Name \X Whys
    BY <1>1, <1>2 DEF CheckKeys, Parts, Whys
  <1>6. Parts'
    BY <1>1, <1>2, <1>3, <1>4, <1>5 DEF CheckKeys, Parts
  <1>7. p \in {"enc", "restoreKeys", "exists"}
    OBVIOUS
  <1>8. OpOK' /\ RestoreOK' /\ DeleteOK'
    BY <1>1, <1>3, <1>7 DEF OpOK, RestoreOK, DeleteOK
  <1>9. ImportOK'
    <2>1. p = "enc" /\ op.backend = "file" => files[n].enc = 0 \/ ~files[n].marker
      BY DEF HasKeys, Held
    <2>2. p = "exists" => HasKeys(op.backend, n)
      OBVIOUS
    <2> QED
      BY <1>3, <1>4, <1>7, <2>1, <2>2 DEF ImportOK, HasKeys, Held, CheckKeys
  <1>10. ProfileOK'
    <2>1. CASE op.kind = "profile" /\ p = "enc"
      <3>1. /\ op.todo \cap op.done = {} /\ n \notin op.done \cup op.todo
            /\ op.key = backup.keys[n]
            /\ \A m \in op.todo : backup.keys[m] \in Key
            /\ \A m \in op.done : /\ backup.keys[m] \in Key /\ Imported(m, backup.keys[m])
                                  /\ m \in HWName => chal[m] = backup.keys[m]
        BY <1>1, <2>1 DEF IInv, ProfileOK
      <3>2. \A m \in op.done : Imported(m, backup.keys[m])' /\ (m \in HWName => chal'[m] = backup.keys[m])
        BY <1>2, <1>3, <1>4, <1>5, <3>1, Unfold DEF Imported, CheckKeys
      <3> QED
        BY <1>3, <2>1, <3>1, <3>2 DEF ProfileOK, CheckKeys
    <2>2. CASE ~(op.kind = "profile" /\ p = "enc")
      BY <1>3, <1>7, <2>2 DEF ProfileOK
    <2> QED
      BY <2>1, <2>2
  <1>11. HalvesOK'
    <2>1. \A m \in Name : Halves(m, files[m]) \subseteq hurt'
      BY <1>1, <1>5 DEF IInv, HalvesOK
    <2>2. op.kind = "profile" => \A m \in Name : Halves(m, op.before.files[m]) \subseteq hurt'
      BY <1>5 DEF IInv, HalvesOK
    <2> QED
      BY <1>3, <2>1, <2>2 DEF HalvesOK, Halves, CheckKeys
  <1>12. ASSUME NEW x \in kept', InPlace(x) PROVE InPlace(x)' \/ Excused(x)'
    <2>1. x[1] \in Name /\ x[2] \in Key /\ x[2] # 0
      BY <1>2, LocalInstallAssumption DEF Parts, CheckKeys, Key
    <2>2. CASE x[1] = n /\ n \in HWName
      <3>1. chal[n] = x[2] /\ chal'[n] = op.key
        BY <1>4, <1>12, <2>2 DEF InPlace, Whole
      <3>2. CASE op.key = x[2]
        BY <1>12, <2>2, <3>1, <3>2 DEF CheckKeys, InPlace, Whole
      <3>3. CASE op.key # x[2]
        BY <2>1, <2>2, <3>1, <3>3 DEF CheckKeys, Excused, Key
      <3> QED
        BY <3>2, <3>3
    <2>3. CASE ~(x[1] = n /\ n \in HWName)
      BY <1>4, <1>12, <2>1, <2>3 DEF CheckKeys, InPlace, Whole
    <2> QED
      BY <2>2, <2>3
  <1>13. Survive'
    BY <1>1, <1>3, <1>5, <1>12, SurviveKeeps DEF CheckKeys, IInv
  <1> QED
    BY <1>6, <1>8, <1>9, <1>10, <1>11, <1>13, TypePartsNext DEF IInv

\* Key files with one half replaced.
LEMMA ExceptEnc ==
    \A h \in Stored : \A k \in Key :
        [h EXCEPT !.enc = k] \in Stored /\ [h EXCEPT !.enc = k].enc = k
  BY DEF Stored

LEMMA FullParts ==
    \A g \in Stored : \A k : g.enc = k /\ g.marker = TRUE /\ g.sign = k => g = Full(k)
  BY DEF Stored, Full

LEMMA ExceptSign ==
    \A h \in Stored : \A k \in Key :
        /\ [h EXCEPT !.marker = TRUE, !.sign = k] \in Stored
        /\ h.enc = k => [h EXCEPT !.marker = TRUE, !.sign = k] = Full(k)
  <1> TAKE h \in Stored
  <1> TAKE k \in Key
  <1> DEFINE g == [h EXCEPT !.marker = TRUE, !.sign = k]
  <1>1. g \in Stored /\ g.enc = h.enc
    BY DEF Stored
  <1>2. g.marker = TRUE
    BY DEF Stored
  <1>3. g.sign = k
    BY DEF Stored
  <1>4. g \in Stored /\ (h.enc = k => g = Full(k))
    <2> HIDE DEF g
    <2> QED
      BY <1>1, <1>2, <1>3, FullParts
  <1> QED
    BY <1>4, Zenon

LEMMA HeldType == ASSUME Parts, NEW b, NEW n \in Name PROVE Held(b, n) \in Stored
  BY DEF Parts, Held

\* The files that the first store changes were not complete.
LEMMA StoreEncryptionIdentityInv == ASSUME IInv, StoreEncryptionIdentity PROVE IInv'
  <1> DEFINE n == op.cur
             held == [Held(op.backend, n) EXCEPT !.enc = op.key]
  <1>1. op.pc = "enc" /\ op.kind \in {"profile", "one"} /\ n \in Name /\ op.key \in Key
    BY Unfold DEF StoreEncryptionIdentity, At, IInv, OpOK
  <1>2. Parts /\ op \in Op
    BY Unfold
  <1>3. /\ op' \in Op /\ op'.pc = "sign"
        /\ op'.kind = op.kind /\ op'.backend = op.backend /\ op'.todo = op.todo
        /\ op'.done = op.done /\ op'.cur = n /\ op'.key = op.key /\ op'.before = op.before
    BY <1>2, GotoOK DEF StoreEncryptionIdentity, Label
  <1>4. held \in Stored /\ held.enc = op.key
    BY <1>1, <1>2, HeldType, ExceptEnc
  <1>5. /\ files' \in [Name -> Stored] /\ keychain' \in [Name -> Stored]
        /\ op.backend # "file" => files' = files
        /\ op.backend = "file" => files'[n] = held
        /\ \A m \in Name : m # n => files'[m] = files[m]
    <2>1. Put(op.backend, n, held)
      BY DEF StoreEncryptionIdentity
    <2> HIDE DEF held
    <2> QED
      BY <1>1, <1>2, <1>4, <2>1, PutOK DEF Parts
  <1> HIDE DEF held
  <1>6. Parts'
    BY <1>1, <1>2, <1>3, <1>5 DEF StoreEncryptionIdentity, Parts
  <1>7. OpOK' /\ RestoreOK' /\ DeleteOK'
    BY <1>1, <1>3 DEF OpOK, RestoreOK, DeleteOK
  <1>8. ImportOK'
    BY <1>1, <1>3, <1>4, <1>5 DEF IInv, ImportOK, StoreEncryptionIdentity
  <1>9. ProfileOK'
    <2>1. CASE op.kind = "profile"
      <3>1. /\ op.todo \cap op.done = {} /\ n \notin op.done \cup op.todo
            /\ op.key = backup.keys[n]
            /\ \A m \in op.todo : backup.keys[m] \in Key
            /\ \A m \in op.done : /\ backup.keys[m] \in Key /\ Imported(m, backup.keys[m])
                                  /\ m \in HWName => chal[m] = backup.keys[m]
        BY <1>1, <2>1 DEF IInv, ProfileOK
      <3>2. \A m \in op.done : Imported(m, backup.keys[m])'
        BY <1>3, <1>5, <3>1, Unfold DEF Imported, StoreEncryptionIdentity
      <3> QED
        BY <1>3, <2>1, <3>1, <3>2 DEF ProfileOK, StoreEncryptionIdentity
    <2>2. CASE op.kind # "profile"
      BY <1>3, <2>2 DEF ProfileOK
    <2> QED
      BY <2>1, <2>2
  <1>10. HalvesOK'
    <2>1. \A m \in Name : (op.backend = "file" /\ n = m) \/ Halves(m, files'[m]) \subseteq hurt
      BY <1>1, <1>5 DEF IInv, HalvesOK
    <2>2. op.kind = "profile" => \A m \in Name : Halves(m, op.before.files[m]) \subseteq hurt
      BY DEF IInv, HalvesOK
    <2> QED
      BY <1>3, <2>1, <2>2 DEF HalvesOK, Halves, StoreEncryptionIdentity
  <1>11. ASSUME NEW x \in kept', InPlace(x) PROVE InPlace(x)'
    <2>1. x[1] \in Name /\ x[2] \in Key /\ x[2] # 0
      BY <1>2, LocalInstallAssumption DEF Parts, StoreEncryptionIdentity, Key
    <2>2. op.backend = "file" => x[1] # n
      BY <1>1, <1>11, <2>1 DEF IInv, ImportOK, InPlace, Whole, Full
    <2> QED
      BY <1>5, <1>11, <2>1, <2>2 DEF StoreEncryptionIdentity, InPlace, Whole
  <1>12. Survive'
    BY <1>1, <1>3, <1>11, SurviveKeeps DEF StoreEncryptionIdentity, IInv
  <1> QED
    BY <1>6, <1>7, <1>8, <1>9, <1>10, <1>12, TypePartsNext DEF IInv

\* The second store completes the files.
LEMMA StoreSigningKeyInv == ASSUME IInv, StoreSigningKey PROVE IInv'
  <1> DEFINE n == op.cur
             held == [Held(op.backend, n) EXCEPT !.marker = TRUE, !.sign = op.key]
             p == IF op.kind = "profile" THEN "meta" ELSE "persist"
  <1>1. op.pc = "sign" /\ op.kind \in {"profile", "one"} /\ n \in Name /\ op.key \in Key
    BY Unfold DEF StoreSigningKey, At, IInv, OpOK
  <1>2. Parts /\ op \in Op
    BY Unfold
  <1>3. /\ op' \in Op /\ op'.pc = p
        /\ op'.kind = op.kind /\ op'.backend = op.backend /\ op'.todo = op.todo
        /\ op'.done = op.done /\ op'.cur = n /\ op'.key = op.key /\ op'.before = op.before
    <2>1. p \in Label
      BY DEF Label
    <2> QED
      BY <1>2, <2>1, GotoOK DEF StoreSigningKey
  <1>4. held \in Stored /\ (op.backend = "file" => held = Full(op.key))
    <2>1. op.backend = "file" => Held(op.backend, n).enc = op.key
      BY <1>1, <1>2 DEF IInv, ImportOK, Held
    <2> QED
      BY <1>1, <1>2, <2>1, HeldType, ExceptSign
  <1>5. /\ files' \in [Name -> Stored] /\ keychain' \in [Name -> Stored]
        /\ op.backend # "file" => files' = files
        /\ op.backend = "file" => files'[n] = Full(op.key)
        /\ \A m \in Name : m # n => files'[m] = files[m]
    <2>1. Put(op.backend, n, held)
      BY DEF StoreSigningKey
    <2> HIDE DEF held
    <2>2. /\ files' \in [Name -> Stored] /\ keychain' \in [Name -> Stored]
          /\ op.backend # "file" => files' = files
          /\ op.backend = "file" => files'[n] = held
          /\ \A m \in Name : m # n => files'[m] = files[m]
      BY <1>1, <1>2, <1>4, <2>1, PutOK DEF Parts
    <2> QED
      BY <1>4, <2>2
  <1> HIDE DEF held
  <1>6. Parts'
    BY <1>1, <1>2, <1>3, <1>5 DEF StoreSigningKey, Parts
  <1>7. OpOK' /\ RestoreOK' /\ DeleteOK'
    BY <1>1, <1>3 DEF OpOK, RestoreOK, DeleteOK
  <1>8. ImportOK'
    BY <1>1, <1>3, <1>5 DEF IInv, ImportOK, Imported, StoreSigningKey
  <1>9. ProfileOK'
    <2>1. CASE op.kind = "profile"
      <3>1. /\ op.todo \cap op.done = {} /\ n \notin op.done \cup op.todo
            /\ op.key = backup.keys[n]
            /\ \A m \in op.todo : backup.keys[m] \in Key
            /\ \A m \in op.done : /\ backup.keys[m] \in Key /\ Imported(m, backup.keys[m])
                                  /\ m \in HWName => chal[m] = backup.keys[m]
        BY <1>1, <2>1 DEF IInv, ProfileOK
      <3>2. \A m \in op.done : Imported(m, backup.keys[m])'
        BY <1>3, <1>5, <3>1, Unfold DEF Imported, StoreSigningKey
      <3> QED
        BY <1>3, <2>1, <3>1, <3>2 DEF ProfileOK, StoreSigningKey
    <2>2. CASE op.kind # "profile"
      BY <1>3, <2>2 DEF ProfileOK
    <2> QED
      BY <2>1, <2>2
  <1>10. HalvesOK'
    <2>1. \A m \in Name : Halves(m, files'[m]) \subseteq hurt
      BY <1>1, <1>5, FullType DEF IInv, HalvesOK
    <2>2. op.kind = "profile" => \A m \in Name : Halves(m, op.before.files[m]) \subseteq hurt
      BY DEF IInv, HalvesOK
    <2> QED
      BY <1>3, <2>1, <2>2 DEF HalvesOK, Halves, StoreSigningKey
  <1>11. ASSUME NEW x \in kept', InPlace(x) PROVE InPlace(x)'
    <2>1. x[1] \in Name /\ x[2] \in Key
      BY <1>2 DEF Parts, StoreSigningKey
    <2>2. op.backend = "file" /\ x[1] = n => x[2] = op.key
      BY <1>1, <1>11 DEF IInv, ImportOK, InPlace, Whole, Full
    <2> QED
      BY <1>5, <1>11, <2>1, <2>2 DEF StoreSigningKey, InPlace, Whole
  <1>12. Survive'
    BY <1>1, <1>3, <1>11, SurviveKeeps DEF StoreSigningKey, IInv
  <1> QED
    BY <1>6, <1>7, <1>8, <1>9, <1>10, <1>12, TypePartsNext DEF IInv

LEMMA WriteMetaInv == ASSUME IInv, WriteMeta PROVE IInv'
  <1> DEFINE n == op.cur
  <1>1. /\ op.pc = "meta" /\ op.kind = "profile" /\ n \in Name /\ op.key \in Key
        /\ Imported(n, op.key)
        /\ n \in HWName => chal[n] = op.key
    BY DEF WriteMeta, At, IInv, OpOK, ImportOK
  <1>2. Parts /\ op \in Op /\ op.done \subseteq Name
    BY Unfold
  <1>3. /\ op' \in Op /\ op'.kind = "profile" /\ op'.pc = "next" /\ op'.before = op.before
        /\ op'.todo = op.todo /\ op'.done = op.done \cup {n} /\ op'.backend = op.backend
    BY <1>1, <1>2 DEF WriteMeta, Op, Label
  <1>4. Parts'
    <2>1. meta' \in [Name -> Key \cup {0}]
      BY <1>1, <1>2 DEF WriteMeta, Parts
    <2> QED
      BY <1>1, <1>2, <1>3, <2>1 DEF WriteMeta, Parts
  <1>5. OpOK' /\ ImportOK' /\ RestoreOK' /\ DeleteOK'
    BY <1>1, <1>3 DEF OpOK, ImportOK, RestoreOK, DeleteOK
  <1>6. ProfileOK'
    <2>1. /\ op.todo \cap op.done = {} /\ n \notin op.done \cup op.todo
          /\ op.key = backup.keys[n]
          /\ \A m \in op.todo : backup.keys[m] \in Key
          /\ \A m \in op.done : /\ backup.keys[m] \in Key /\ Imported(m, backup.keys[m])
                                /\ m \in HWName => chal[m] = backup.keys[m]
      BY <1>1 DEF IInv, ProfileOK
    <2>2. \A m \in op'.done : /\ backup'.keys[m] \in Key /\ Imported(m, backup.keys[m])'
                              /\ m \in HWName => chal'[m] = backup'.keys[m]
      <3>1. UNCHANGED <<files, hurt, backup, chal>>
        BY DEF WriteMeta
      <3>2. ASSUME NEW m \in op'.done
            PROVE  /\ backup'.keys[m] \in Key /\ Imported(m, backup.keys[m])'
                   /\ m \in HWName => chal'[m] = backup'.keys[m]
        <4>1. /\ backup.keys[m] \in Key /\ Imported(m, backup.keys[m])
              /\ m \in HWName => chal[m] = backup.keys[m]
          <5>1. m \in op.done \/ m = n
            BY <1>3, <3>2
          <5>2. CASE m \in op.done
            BY <2>1, <5>2
          <5>3. CASE m = n
            BY <1>1, <2>1, <5>3
          <5> QED
            BY <5>1, <5>2, <5>3
        <4>2. Imported(m, backup.keys[m])'
          BY <1>3, <3>1, <4>1 DEF Imported
        <4> QED
          BY <3>1, <4>1, <4>2
      <3> QED
        BY <3>2
    <2> QED
      BY <1>3, <2>1, <2>2 DEF ProfileOK, WriteMeta
  <1>7. HalvesOK'
    BY <1>1, <1>3 DEF HalvesOK, Halves, WriteMeta, IInv
  <1>8. Survive'
    BY <1>1, SurviveKeeps DEF WriteMeta, IInv
  <1> QED
    BY <1>4, <1>5, <1>6, <1>7, <1>8, TypePartsNext DEF IInv

LEMMA SaveIndexInv == ASSUME IInv, SaveIndex PROVE IInv'
  <1>1. op.pc = "next" /\ op.kind = "profile"
    BY DEF SaveIndex, At, IInv, OpOK
  <1>2. Parts /\ op \in Op /\ op.done \subseteq Name /\ op.backend \in Backend
    BY Unfold
  <1>3. /\ op' \in Op /\ op'.kind = "profile" /\ op'.pc = "contacts" /\ op'.before = op.before
        /\ op'.todo = op.todo /\ op'.done = op.done /\ op'.backend = op.backend
    BY <1>1, <1>2, GotoOK DEF SaveIndex, Label
  <1>4. Parts'
    <2>1. index' \in [Name -> IndexEntry]
      <3>1. NoEntry \in IndexEntry
        BY DEF NoEntry, IndexEntry, Backend
      <3>2. \A n \in op.done : [key |-> backup.keys[n], backend |-> op.backend] \in IndexEntry
        BY <1>2 DEF Parts, IndexEntry
      <3> QED
        BY <3>1, <3>2 DEF SaveIndex
    <2> QED
      BY <1>1, <1>2, <1>3, <2>1 DEF SaveIndex, Parts
  <1>5. OpOK' /\ ImportOK' /\ RestoreOK' /\ DeleteOK'
    BY <1>1, <1>3 DEF OpOK, ImportOK, RestoreOK, DeleteOK
  <1>6. ProfileOK'
    BY <1>1, <1>3 DEF IInv, ProfileOK, SaveIndex, Imported
  <1>7. HalvesOK'
    BY <1>1, <1>3 DEF HalvesOK, Halves, SaveIndex, IInv
  <1>8. Survive'
    BY <1>1, SurviveKeeps DEF SaveIndex, IInv
  <1> QED
    BY <1>4, <1>5, <1>6, <1>7, <1>8, TypePartsNext DEF IInv

\* What is kept now is what the import has put in place.
LEMMA FinishImportInv == ASSUME IInv, FinishImport PROVE IInv'
  <1>1. /\ op.pc = "contacts" /\ op.kind = "profile"
        /\ \A n \in op.done : /\ backup.keys[n] \in Key /\ Imported(n, backup.keys[n])
                              /\ n \in HWName => chal[n] = backup.keys[n]
    BY DEF FinishImport, At, IInv, OpOK, ProfileOK
  <1>2. Parts /\ op.done \subseteq Name
    BY Unfold
  <1>3. op' = NoOp /\ op' \in Op /\ op'.kind = "none"
    BY NoOpType DEF FinishImport
  <1>4. Parts'
    <2>1. rest' \in Rest
      BY <1>2 DEF FinishImport, Parts, Rest
    <2>2. kept' \subseteq Name \X Key
      BY <1>1, <1>2 DEF FinishImport
    <2> QED
      BY <1>2, <1>3, <2>1, <2>2 DEF FinishImport, Parts
  <1>5. \A n \in Name : Halves(n, files'[n]) \subseteq hurt'
    BY <1>1 DEF IInv, HalvesOK, FinishImport
  <1>6. Survive'
    <2> SUFFICES ASSUME NEW x \in kept' PROVE Excused(x)' \/ InPlace(x)'
      BY <1>3 DEF Survive
    <2>1. PICK n \in op.done : op.backend = "file" /\ x[1] = n /\ x[2] = backup.keys[n]
      BY DEF FinishImport
    <2>2. files'[n] = Full(backup.keys[n]) \/ <<n, "torn">> \in hurt'
      BY <1>1, <2>1 DEF Imported, FinishImport
    <2>3. n \in HWName => chal'[n] = backup.keys[n]
      BY <1>1 DEF FinishImport
    <2> QED
      BY <2>1, <2>2, <2>3 DEF Excused, InPlace, Whole
  <1> QED
    BY <1>3, <1>4, <1>5, <1>6, EndOK

-----------------------------------------------------------------------------
(* The rollback.                                                            *)

\* Some of a function's values, and others for the rest.
LEMMA SomeValues ==
    ASSUME NEW f, NEW none, NEW left \in SUBSET Name
    PROVE  \A n \in Name : Some(f, left, none)[n] \in {f[n], none[n]}
  BY DEF Some

LEMMA SomeRestored ==
    ASSUME RestoreKeys(TRUE)
    PROVE  \E left \in SUBSET Name :
              \/ /\ files' = Some(files, left, Nothing.files)
                 /\ chal' = Some(chal, left, Nothing.chal)
              \/ /\ files' = Some(op.before.files, left, Nothing.files)
                 /\ chal' = Some(op.before.chal, left, Nothing.chal)
  <1>1. PICK left \in SUBSET Name, back \in BOOLEAN :
          LET from == IF back THEN op.before ELSE Installed IN
          /\ files' = Some(from.files, left, Nothing.files)
          /\ chal' = Some(from.chal, left, Nothing.chal)
    BY DEF RestoreKeys
  <1>2. CASE back
    BY <1>1, <1>2
  <1>3. CASE ~back
    BY <1>1, <1>3 DEF Installed
  <1> QED
    BY <1>2, <1>3

LEMMA RestoreKeysInv == ASSUME IInv, NEW fails \in BOOLEAN, RestoreKeys(fails) PROVE IInv'
  <1>1. op.pc = "restoreKeys" /\ op.kind = "profile"
    BY DEF RestoreKeys, At, IInv, OpOK
  <1>2. Parts /\ op \in Op /\ op.before \in Install
    BY Unfold
  <1>3. /\ op' \in Op /\ op'.kind = "profile" /\ op'.pc = "restoreRest" /\ op'.before = op.before
        /\ op'.failed = fails
    BY <1>1, <1>2 DEF RestoreKeys, Op, Label
  <1>4. op.before.files \in [Name -> Stored] /\ op.before.chal \in [Name -> Key \cup {0, Fresh, Torn}]
    BY <1>2, InstallParts
  <1>5. Parts'
    <2>1. files' \in [Name -> Stored] /\ chal' \in [Name -> Key \cup {0, Fresh, Torn}]
      <3>1. CASE ~fails
        BY <1>4, <3>1 DEF RestoreKeys
      <3>2. CASE fails
        <4>1. PICK left \in SUBSET Name :
                \/ /\ files' = Some(files, left, Nothing.files)
                   /\ chal' = Some(chal, left, Nothing.chal)
                \/ /\ files' = Some(op.before.files, left, Nothing.files)
                   /\ chal' = Some(op.before.chal, left, Nothing.chal)
          BY <3>2, SomeRestored
        <4>2. files \in [Name -> Stored] /\ chal \in [Name -> Key \cup {0, Fresh, Torn}]
          BY <1>2 DEF Parts
        <4>3. files' \in [Name -> Stored]
          BY <1>4, <4>1, <4>2, NothingParts DEF Some
        <4>4. chal' \in [Name -> Key \cup {0, Fresh, Torn}]
          BY <1>4, <4>1, <4>2, NothingParts DEF Some
        <4> QED
          BY <4>3, <4>4
      <3> QED
        BY <3>1, <3>2
    <2>2. events' \in 0..MaxEvents
      BY <1>2, LocalInstallAssumption DEF Parts, RestoreKeys, Event
    <2> QED
      BY <1>1, <1>2, <1>3, <2>1, <2>2 DEF RestoreKeys, Parts
  <1>6. OpOK' /\ ImportOK' /\ ProfileOK' /\ DeleteOK'
    BY <1>3 DEF OpOK, ImportOK, ProfileOK, DeleteOK
  <1>7. RestoreOK'
    BY <1>3 DEF RestoreOK, RestoreKeys
  <1>8. HalvesOK'
    <2>1. \A n \in Name : Halves(n, op.before.files[n]) \subseteq hurt
      BY <1>1 DEF IInv, HalvesOK
    <2>2. \A n \in Name : Halves(n, Nothing.files[n]) = {}
      BY NothingParts, NoKeysType
    <2>3. hurt' = hurt /\ \A n \in Name : Halves(n, files[n]) \subseteq hurt
      BY <1>1 DEF RestoreKeys, IInv, HalvesOK
    <2>4. ASSUME NEW n \in Name PROVE Halves(n, files'[n]) \subseteq hurt'
      <3>1. files'[n] \in {Nothing.files[n], files[n], op.before.files[n]}
        <4>1. CASE ~fails
          BY <4>1 DEF RestoreKeys
        <4>2. CASE fails
          BY <4>2, SomeRestored, SomeValues
        <4> QED
          BY <4>1, <4>2
      <3> QED
        BY <2>1, <2>2, <2>3, <3>1
    <2> QED
      BY <1>3, <2>1, <2>3, <2>4 DEF HalvesOK, Halves
  <1>9. Survive'
    BY <1>1, SurviveKeeps DEF RestoreKeys, IInv
  <1> QED
    BY <1>5, <1>6, <1>7, <1>8, <1>9, TypePartsNext DEF IInv

\* An archive that goes was put back before.
LEMMA RestoreRestInv ==
    ASSUME IInv, NEW left \in SUBSET {"meta", "index", "rest"}, RestoreRest(left)
    PROVE  IInv'
  <1> DEFINE all == left = {} /\ ~op.failed
  <1>1. op.pc = "restoreRest" /\ op.kind = "profile"
    BY DEF RestoreRest, At, IInv, OpOK
  <1>2. Parts /\ op \in Op /\ op.before \in Install
    BY Unfold
  <1>3. op' = NoOp /\ op' \in Op /\ op'.kind = "none"
    BY NoOpType DEF RestoreRest
  <1>4. Parts'
    <2>1. /\ op.before.meta \in [Name -> Key \cup {0}] /\ op.before.index \in [Name -> IndexEntry]
          /\ op.before.rest \in Rest
      BY <1>2, InstallParts
    <2>2. meta' \in [Name -> Key \cup {0}] /\ index' \in [Name -> IndexEntry] /\ rest' \in Rest
      BY <1>2, <2>1 DEF RestoreRest, Restored, Parts
    <2>3. archives' \subseteq archives
      BY DEF RestoreRest, Discard
    <2>4. hurt' \subseteq Name \X Whys
      BY <1>2 DEF RestoreRest, Parts, Whys
    <2>5. events' \in 0..MaxEvents
      BY <1>2, LocalInstallAssumption DEF Parts, RestoreRest, Event
    <2> QED
      BY <1>2, <1>3, <2>2, <2>3, <2>4, <2>5 DEF RestoreRest, Parts
  <1>5. hurt \subseteq hurt' /\ files' = files /\ chal' = chal /\ kept' = kept
    BY DEF RestoreRest
  <1>6. \A n \in Name : Halves(n, files'[n]) \subseteq hurt'
    BY <1>1, <1>5 DEF IInv, HalvesOK
  <1>7. Survive'
    <2> SUFFICES ASSUME NEW x \in kept PROVE InArchive(x)' \/ Excused(x)' \/ InPlace(x)'
      BY <1>3, <1>5 DEF Survive
    <2>1. InArchive(x) \/ Excused(x)
      BY <1>1 DEF IInv, Survive
    <2>2. CASE Excused(x)
      BY <1>5, <2>2 DEF Excused
    <2>3. CASE InArchive(x)
      <3>1. PICK a \in archives : Whole(a.files[x[1]], a.chal[x[1]], x[1], x[2])
        BY <2>3 DEF InArchive
      <3>2. CASE a \in archives'
        BY <3>1, <3>2 DEF InArchive, Whole
      <3>3. CASE a \notin archives'
        <4>1. all /\ a = op.before
          BY <3>3 DEF RestoreRest, Discard
        <4>2. files = a.files /\ chal = a.chal
          BY <1>1, <4>1 DEF IInv, RestoreOK
        <4> QED
          BY <1>5, <3>1, <4>2 DEF InPlace, Whole
      <3> QED
        BY <3>2, <3>3
    <2> QED
      BY <2>1, <2>2, <2>3
  <1> QED
    BY <1>3, <1>4, <1>6, <1>7, EndOK

-----------------------------------------------------------------------------
(* The import of one identity, and a deletion.                              *)

\* Two halves that are both there are the same key, or are known to be hurt.
LEMMA SameHalves ==
    ASSUME NEW n, NEW g \in Stored, NEW k, k # 0, g.enc = k, g.marker, Halves(n, g) \subseteq hurt
    PROVE  g = Full(k) \/ <<n, "torn">> \in hurt
  <1>1. CASE g.sign = k
    BY <1>1, FullParts DEF Stored
  <1>2. CASE g.sign # k
    BY <1>2 DEF Halves
  <1> QED
    BY <1>1, <1>2

LEMMA ReconcileInv == ASSUME IInv, Reconcile PROVE IInv'
  <1> DEFINE n == op.cur
  <1>1. op.pc = "exists" /\ op.kind = "one" /\ n \in Name /\ op.key \in Key /\ op.key # 0
    BY LocalInstallAssumption DEF Reconcile, At, IInv, OpOK, Key
  <1>2. Parts /\ op \in Op
    BY Unfold
  <1>3. \A m \in Name : Halves(m, files[m]) \subseteq hurt
    BY <1>1 DEF IInv, HalvesOK
  <1>4. CASE op' = NoOp
    <2>1. op'.kind = "none" /\ op' \in Op
      BY <1>4, NoOpType
    <2>2. Parts'
      BY <1>2, <1>4, <2>1 DEF Parts, Reconcile, install
    <2>3. Survive'
      BY <2>1, SurviveKeeps DEF IInv, Reconcile, install, InPlace, Whole
    <2>4. \A m \in Name : Halves(m, files'[m]) \subseteq hurt'
      BY <1>3 DEF Reconcile, install
    <2> QED
      BY <1>4, <2>2, <2>3, <2>4, EndOK
  <1>5. CASE op' # NoOp
    <2>1. Goto("persist") /\ Held(op.backend, n).enc = op.key
      BY <1>5 DEF Reconcile
    <2>2. /\ op' \in Op /\ op'.pc = "persist" /\ op'.kind = "one" /\ op'.backend = op.backend
          /\ op'.cur = n /\ op'.key = op.key
      BY <1>1, <1>2, <2>1, GotoOK DEF Label
    <2>3. Parts'
      BY <1>1, <1>2, <2>2 DEF Parts, Reconcile, install
    <2>4. OpOK' /\ ProfileOK' /\ RestoreOK' /\ DeleteOK'
      BY <1>1, <2>2 DEF OpOK, ProfileOK, RestoreOK, DeleteOK
    <2>5. Imported(n, op.key)
      <3>1. op.backend = "file" => files[n].enc = op.key /\ files[n].marker
        BY <1>1, <2>1 DEF IInv, ImportOK, HasKeys, Held
      <3>2. files[n] \in Stored
        BY <1>1, <1>2 DEF Parts
      <3> QED
        BY <1>1, <1>3, <3>1, <3>2, SameHalves DEF Imported
    <2>6. ImportOK'
      BY <1>1, <2>2, <2>5 DEF IInv, ImportOK, Imported, Reconcile, install
    <2>7. HalvesOK'
      BY <1>3, <2>2 DEF HalvesOK, Halves, Reconcile, install
    <2>8. Survive'
      BY <2>2, SurviveKeeps DEF IInv, Reconcile, install, InPlace, Whole
    <2> QED
      BY <2>3, <2>4, <2>6, <2>7, <2>8, TypePartsNext DEF IInv
  <1> QED
    BY <1>4, <1>5

LEMMA PersistMetaInv == ASSUME IInv, PersistMeta PROVE IInv'
  <1> DEFINE n == op.cur
  <1>1. op.pc = "persist" /\ op.kind = "one" /\ n \in Name /\ op.key \in Key
    BY DEF PersistMeta, At, IInv, OpOK
  <1>2. Parts /\ op \in Op
    BY Unfold
  <1>3. \A m \in Name : Halves(m, files[m]) \subseteq hurt
    BY <1>1 DEF IInv, HalvesOK
  <1>4. meta' \in [Name -> Key \cup {0}]
    BY <1>1, <1>2 DEF PersistMeta, Parts
  <1>5. CASE op' = NoOp
    <2>1. op'.kind = "none" /\ op' \in Op
      BY <1>5, NoOpType
    <2>2. Parts'
      BY <1>2, <1>4, <1>5, <2>1 DEF Parts, PersistMeta
    <2>3. Survive'
      BY <2>1, SurviveKeeps DEF IInv, PersistMeta, InPlace, Whole
    <2>4. \A m \in Name : Halves(m, files'[m]) \subseteq hurt'
      BY <1>3 DEF PersistMeta
    <2> QED
      BY <1>5, <2>2, <2>3, <2>4, EndOK
  <1>6. CASE op' # NoOp
    <2>1. Goto("entry")
      BY <1>6 DEF PersistMeta
    <2>2. /\ op' \in Op /\ op'.pc = "entry" /\ op'.kind = "one" /\ op'.backend = op.backend
          /\ op'.cur = n /\ op'.key = op.key
      BY <1>1, <1>2, <2>1, GotoOK DEF Label
    <2>3. Parts'
      BY <1>1, <1>2, <1>4, <2>2 DEF Parts, PersistMeta
    <2>4. OpOK' /\ ProfileOK' /\ RestoreOK' /\ DeleteOK'
      BY <1>1, <2>2 DEF OpOK, ProfileOK, RestoreOK, DeleteOK
    <2>5. ImportOK'
      BY <1>1, <2>2 DEF IInv, ImportOK, Imported, PersistMeta
    <2>6. HalvesOK'
      BY <1>3, <2>2 DEF HalvesOK, Halves, PersistMeta
    <2>7. Survive'
      BY <2>2, SurviveKeeps DEF IInv, PersistMeta, InPlace, Whole
    <2> QED
      BY <2>3, <2>4, <2>5, <2>6, <2>7, TypePartsNext DEF IInv
  <1> QED
    BY <1>5, <1>6

LEMMA PersistEntryInv == ASSUME IInv, PersistEntry PROVE IInv'
  <1> DEFINE n == op.cur
  <1>1. /\ op.pc = "entry" /\ op.kind = "one" /\ n \in Name /\ op.key \in Key
        /\ Imported(n, op.key)
        /\ n \in HWName => chal[n] = op.key
    BY DEF PersistEntry, At, IInv, OpOK, ImportOK
  <1>2. Parts /\ op.backend \in Backend
    BY Unfold
  <1>3. op' = NoOp /\ op' \in Op /\ op'.kind = "none"
    BY NoOpType DEF PersistEntry
  <1>4. Parts'
    <2>1. index' \in [Name -> IndexEntry]
      <3>1. [key |-> op.key, backend |-> op.backend] \in IndexEntry
        BY <1>1, <1>2 DEF IndexEntry
      <3> QED
        BY <1>2, <3>1 DEF PersistEntry, Parts
    <2>2. rest' \in Rest
      BY <1>1, <1>2 DEF PersistEntry, Parts, Rest
    <2>3. kept' \subseteq Name \X Key
      BY <1>1, <1>2 DEF PersistEntry, Parts
    <2> QED
      BY <1>2, <1>3, <2>1, <2>2, <2>3 DEF PersistEntry, Parts
  <1>5. \A m \in Name : Halves(m, files'[m]) \subseteq hurt'
    BY <1>1 DEF IInv, HalvesOK, PersistEntry
  <1>6. Survive'
    <2> SUFFICES ASSUME NEW x \in kept' PROVE InArchive(x)' \/ Excused(x)' \/ InPlace(x)'
      BY <1>3 DEF Survive
    <2>1. CASE x \in kept
      <3>1. InArchive(x) \/ Excused(x) \/ InPlace(x)
        BY <2>1 DEF IInv, Survive
      <3> QED
        BY <3>1 DEF InArchive, Excused, InPlace, Whole, PersistEntry
    <2>2. CASE x \notin kept
      <3>1. op.backend = "file" /\ x = <<n, op.key>>
        BY <2>2 DEF PersistEntry
      <3>2. files[n] = Full(op.key) \/ <<n, "torn">> \in hurt
        BY <1>1, <3>1 DEF Imported
      <3> QED
        BY <1>1, <3>1, <3>2 DEF InPlace, Whole, Excused, PersistEntry
    <2> QED
      BY <2>1, <2>2
  <1> QED
    BY <1>3, <1>4, <1>5, <1>6, EndOK

LEMMA UnlistInv == ASSUME IInv, Unlist PROVE IInv'
  <1>1. op.pc = "unlist" /\ op.kind = "delete" /\ op.cur \in Name
    BY DEF Unlist, At, IInv, OpOK
  <1>2. Parts /\ op \in Op
    BY Unfold
  <1>3. op' \in Op /\ op'.pc = "clear" /\ op'.kind = "delete" /\ op'.cur = op.cur
    BY <1>1, <1>2, GotoOK DEF Unlist, Label
  <1>4. Parts'
    <2>1. index' \in [Name -> IndexEntry]
      <3>1. NoEntry \in IndexEntry
        BY DEF NoEntry, IndexEntry, Backend
      <3> QED
        BY <1>2, <3>1 DEF Unlist, Parts
    <2> QED
      BY <1>1, <1>2, <1>3, <2>1 DEF Unlist, Parts
  <1>5. OpOK' /\ ImportOK' /\ ProfileOK' /\ RestoreOK'
    BY <1>1, <1>3 DEF OpOK, ImportOK, ProfileOK, RestoreOK
  <1>6. DeleteOK'
    BY <1>3 DEF DeleteOK, Unlist
  <1>7. HalvesOK'
    BY <1>1, <1>3 DEF IInv, HalvesOK, Halves, Unlist
  <1>8. Survive'
    BY <1>3, SurviveKeeps DEF IInv, Unlist, InPlace, Whole
  <1> QED
    BY <1>4, <1>5, <1>6, <1>7, <1>8, TypePartsNext DEF IInv

\* Nothing of the victim is kept any more.
LEMMA ClearKeysInv == ASSUME IInv, ClearKeys PROVE IInv'
  <1> DEFINE n == op.cur
  <1>1. op.pc = "clear" /\ op.kind = "delete" /\ n \in Name /\ \A x \in kept : x[1] # n
    BY DEF ClearKeys, At, IInv, OpOK, DeleteOK
  <1>2. Parts /\ op \in Op
    BY Unfold
  <1>3. op' \in Op /\ op'.pc = "unmeta" /\ op'.kind = "delete" /\ op'.cur = op.cur
    BY <1>1, <1>2, GotoOK DEF ClearKeys, Label
  <1>4. /\ files' \in [Name -> Stored] /\ keychain' \in [Name -> Stored]
        /\ \A m \in Name : files'[m] = files[m] \/ files'[m] = NoKeys
        /\ \A m \in Name : m # n => files'[m] = files[m]
    <2>1. files \in [Name -> Stored] /\ keychain \in [Name -> Stored]
      BY <1>2 DEF Parts
    <2>2. Put(op.backend, n, NoKeys)
      BY DEF ClearKeys
    <2>3. /\ files' \in [Name -> Stored] /\ keychain' \in [Name -> Stored]
          /\ files' = files \/ files'[n] = NoKeys
          /\ \A m \in Name : m # n => files'[m] = files[m]
      BY <1>1, <2>1, <2>2, NoKeysType DEF Put
    <2> QED
      BY <2>3
  <1>5. chal' \in [Name -> Key \cup {0, Fresh, Torn}] /\ \A m \in Name : m # n => chal'[m] = chal[m]
    BY <1>1, <1>2 DEF ClearKeys, Parts
  <1>6. Parts'
    BY <1>1, <1>2, <1>3, <1>4, <1>5 DEF ClearKeys, Parts
  <1>7. OpOK' /\ ImportOK' /\ ProfileOK' /\ RestoreOK'
    BY <1>1, <1>3 DEF OpOK, ImportOK, ProfileOK, RestoreOK
  <1>8. DeleteOK'
    BY <1>1, <1>3 DEF DeleteOK, ClearKeys
  <1>9. HalvesOK'
    <2>1. \A m \in Name : Halves(m, files'[m]) \subseteq hurt
      BY <1>1, <1>4, NoKeysType DEF IInv, HalvesOK
    <2> QED
      BY <1>3, <2>1 DEF HalvesOK, Halves, ClearKeys
  <1>10. ASSUME NEW x \in kept', InPlace(x) PROVE InPlace(x)'
    <2>1. x[1] \in Name /\ x[1] # n
      BY <1>1, <1>2 DEF Parts, ClearKeys
    <2> QED
      BY <1>4, <1>5, <1>10, <2>1 DEF InPlace, Whole
  <1>11. Survive'
    BY <1>3, <1>10, SurviveKeeps DEF IInv, ClearKeys
  <1> QED
    BY <1>6, <1>7, <1>8, <1>9, <1>11, TypePartsNext DEF IInv

LEMMA RemoveMetaInv == ASSUME IInv, RemoveMeta PROVE IInv'
  <1>1. op.pc = "unmeta" /\ op.kind = "delete" /\ op.cur \in Name
    BY DEF RemoveMeta, At, IInv, OpOK
  <1>2. Parts
    BY Unfold
  <1>3. op' = NoOp /\ op' \in Op /\ op'.kind = "none"
    BY NoOpType DEF RemoveMeta
  <1>4. Parts'
    <2>1. meta' \in [Name -> Key \cup {0}]
      BY <1>2 DEF RemoveMeta, Parts
    <2>2. rest' \in Rest
      BY <1>2 DEF RemoveMeta, Parts, Rest
    <2> QED
      BY <1>2, <1>3, <2>1, <2>2 DEF RemoveMeta, Parts
  <1>5. \A m \in Name : Halves(m, files'[m]) \subseteq hurt'
    BY <1>1 DEF IInv, HalvesOK, RemoveMeta
  <1>6. Survive'
    BY <1>3, SurviveKeeps DEF IInv, RemoveMeta, InPlace, Whole
  <1> QED
    BY <1>3, <1>4, <1>5, <1>6, EndOK

-----------------------------------------------------------------------------
(* Failures and kills.                                                      *)

LEMMA ExceptTorn ==
    \A h \in Stored :
        /\ [h EXCEPT !.enc = Torn] \in Stored
        /\ [h EXCEPT !.marker = TRUE, !.sign = Torn] \in Stored
        /\ [h EXCEPT !.marker = TRUE, !.sign = Torn].enc = h.enc
        /\ [h EXCEPT !.marker = TRUE, !.sign = Torn].marker
        /\ [h EXCEPT !.marker = TRUE, !.sign = Torn].sign = Torn
  BY DEF Stored

LEMMA SignRemainsType ==
    ASSUME NEW b, NEW k \in Key, NEW h \in Stored PROVE SignRemains(b, h, k) \subseteq Stored
  <1>1. [h EXCEPT !.sign = k] \in Stored
    BY DEF Stored
  <1> QED
    BY <1>1, ExceptTorn DEF SignRemains

\* The identity in hand after a step that stopped.
LEMMA RemainsOf ==
    ASSUME IInv, NEW held \in Remains
    PROVE  /\ op.cur = NoName => held = NoKeys
           /\ op.cur \in Name => held \in Stored
           /\ op.cur \in Name /\ op.pc = "enc" => held \in EncRemains(op.backend, Held(op.backend, op.cur))
           /\ op.cur \in Name /\ op.pc = "sign"
                => held \in SignRemains(op.backend, Held(op.backend, op.cur), op.key)
           /\ op.cur \in Name /\ op.pc \notin {"enc", "sign", "clear"} => held = Held(op.backend, op.cur)
  <1>1. op.pc \in {"enc", "sign", "clear"} => op.cur \in Name /\ (op.pc = "sign" => op.key \in Key)
    BY DEF IInv, OpOK
  <1>2. NoName \notin Name /\ Parts
    BY LocalInstallAssumption, Unfold
  <1>3. op.cur = NoName => held = NoKeys
    BY <1>1, <1>2 DEF Remains, At
  <1>4. ASSUME op.cur \in Name PROVE Held(op.backend, op.cur) \in Stored
    BY <1>2, <1>4, HeldType
  <1>5. op.cur \in Name /\ op.pc = "enc" => held \in EncRemains(op.backend, Held(op.backend, op.cur))
    BY <1>2 DEF Remains, At
  <1>6. op.cur \in Name /\ op.pc = "sign" => held \in SignRemains(op.backend, Held(op.backend, op.cur), op.key)
    BY <1>2 DEF Remains, At
  <1>7. op.cur \in Name /\ op.pc = "clear" => held \in ClearRemains(op.backend, Held(op.backend, op.cur))
    BY <1>2 DEF Remains, At
  <1>8. op.cur \in Name /\ op.pc \notin {"enc", "sign", "clear"} => held = Held(op.backend, op.cur)
    BY <1>2 DEF Remains, At
  <1>9. op.cur \in Name => held \in Stored
    <2>1. ASSUME op.cur \in Name, op.pc = "enc" PROVE held \in Stored
      BY <1>4, <1>5, <2>1, ExceptTorn DEF EncRemains
    <2>2. ASSUME op.cur \in Name, op.pc = "sign" PROVE held \in Stored
      BY <1>1, <1>4, <1>6, <2>2, SignRemainsType
    <2>3. ASSUME op.cur \in Name, op.pc = "clear" PROVE held \in Stored
      BY <1>4, <1>7, <2>3, ClearRemainsType
    <2> QED
      BY <1>4, <1>8, <2>1, <2>2, <2>3
  <1> QED
    BY <1>3, <1>5, <1>6, <1>8, <1>9

\* A step that stops leaves key files whose damage is known, and of what is kept only
\* damaged keys are not in place any more.
LEMMA LeaveRemainsOK ==
    ASSUME IInv, NEW held \in Remains, LeaveRemains(held), UNCHANGED <<chal, kept>>,
           hurt \cup Halves(op.cur, held) \subseteq hurt'
    PROVE  /\ files' \in [Name -> Stored] /\ keychain' \in [Name -> Stored]
           /\ Halves(op.cur, held) \subseteq Name \X Whys
           /\ \A n \in Name : Halves(n, files'[n]) \subseteq hurt'
           /\ \A x \in kept : InPlace(x) => InPlace(x)' \/ Excused(x)'
  <1>1. Parts /\ op.cur \in Name \cup {NoName} /\ NoName \notin Name
    BY Unfold, LocalInstallAssumption
  <1>2. CASE op.cur = NoName
    <2>1. files' = files /\ keychain' = keychain
      BY <1>2 DEF LeaveRemains
    <2>2. Halves(op.cur, held) = {}
      BY <1>2, RemainsOf, NoKeysType
    <2>3. op.pc # "sign"
      BY <1>1, <1>2 DEF IInv, OpOK
    <2>4. \A n \in Name : Halves(n, files'[n]) \subseteq hurt'
      BY <2>1, <2>3 DEF IInv, HalvesOK
    <2>5. \A x \in kept : InPlace(x) => InPlace(x)'
      BY <2>1 DEF InPlace, Whole
    <2> QED
      BY <1>1, <2>1, <2>2, <2>4, <2>5 DEF Parts
  <1>3. CASE op.cur \in Name
    <2> DEFINE n == op.cur
    <2>1. held \in Stored /\ Put(op.backend, n, held)
      BY <1>1, <1>3, RemainsOf DEF LeaveRemains
    <2>2. /\ files' \in [Name -> Stored] /\ keychain' \in [Name -> Stored]
          /\ op.backend # "file" => files' = files
          /\ op.backend = "file" => files'[n] = held
          /\ \A m \in Name : m # n => files'[m] = files[m]
      BY <1>1, <1>3, <2>1, PutOK DEF Parts
    <2>3. \A m \in Name : Halves(m, files'[m]) \subseteq hurt'
      BY <2>2 DEF IInv, HalvesOK
    <2>4. ASSUME NEW x \in kept, InPlace(x) PROVE InPlace(x)' \/ Excused(x)'
      <3>1. x[1] \in Name /\ x[2] \in Key /\ x[2] # 0 /\ x[2] # Torn
        BY <1>1, LocalInstallAssumption DEF Parts, Key
      <3>2. CASE op.backend # "file" \/ x[1] # n
        BY <2>2, <2>4, <3>1, <3>2 DEF InPlace, Whole
      <3>3. CASE op.backend = "file" /\ x[1] = n
        <4>1. files[n] = Full(x[2]) /\ Held(op.backend, n) = files[n] /\ files[n] \in Stored
          BY <1>1, <1>3, <2>4, <3>3 DEF InPlace, Whole, Held, Parts
        <4>2. CASE held = files[n]
          BY <2>2, <2>4, <3>3, <4>2 DEF InPlace, Whole
        <4>3. CASE held # files[n]
          <5>1. op.pc # "enc"
            BY <3>1, <3>3, <4>1 DEF IInv, ImportOK, Full
          <5>2. op.pc # "clear"
            BY <3>3 DEF IInv, DeleteOK
          <5>3. op.pc = "sign"
            BY <1>3, <4>1, <4>3, <5>1, <5>2, RemainsOf
          <5>4. held = [files[n] EXCEPT !.marker = TRUE, !.sign = Torn]
            BY <1>3, <3>3, <4>1, <4>3, <5>3, RemainsOf DEF SignRemains
          <5>5. held.enc = x[2] /\ held.marker /\ held.sign = Torn
            <6>1. files[n].enc = x[2]
              BY <4>1 DEF Full
            <6>2. files[n] \in Stored
              BY <4>1
            <6> QED
              BY <5>4, <6>1, <6>2, ExceptTorn
          <5>6. <<n, "torn">> \in hurt'
            BY <3>1, <5>5 DEF Halves
          <5> QED
            BY <3>3, <5>6 DEF Excused
        <4> QED
          BY <4>2, <4>3
      <3> QED
        BY <3>2, <3>3
    <2> QED
      BY <1>3, <2>2, <2>3, <2>4, HalvesType
  <1> QED
    BY <1>1, <1>2, <1>3

LEMMA KilledInv == ASSUME IInv, Killed PROVE IInv'
  <1>1. Parts /\ op.cur \in Name \cup {NoName}
    BY Unfold
  <1>2. op' = NoOp /\ op' \in Op /\ op'.kind = "none"
    BY NoOpType DEF Killed
  <1>3. PICK held \in Remains :
          /\ LeaveRemains(held)
          /\ hurt' = hurt \cup Halves(op.cur, held)
                          \cup (IF op.kind = "profile" THEN Name \X {"killed"} ELSE {})
    BY DEF Killed
  <1>4. /\ files' \in [Name -> Stored] /\ keychain' \in [Name -> Stored]
        /\ Halves(op.cur, held) \subseteq Name \X Whys
        /\ \A n \in Name : Halves(n, files'[n]) \subseteq hurt'
        /\ \A x \in kept : InPlace(x) => InPlace(x)' \/ Excused(x)'
    BY <1>3, LeaveRemainsOK DEF Killed
  <1>5. Parts'
    <2>1. hurt' \subseteq Name \X Whys
      BY <1>1, <1>3, <1>4 DEF Parts, Whys
    <2>2. events' \in 0..MaxEvents
      BY <1>1, LocalInstallAssumption DEF Parts, Killed, Event
    <2> QED
      BY <1>1, <1>2, <1>4, <2>1, <2>2 DEF Killed, Parts
  <1>6. Survive'
    BY <1>2, <1>3, <1>4, SurviveKeeps DEF IInv, Killed
  <1> QED
    BY <1>2, <1>4, <1>5, <1>6, EndOK

LEMMA StepFailsInv == ASSUME IInv, StepFails PROVE IInv'
  <1>1. Parts /\ op \in Op
    BY Unfold
  <1>2. PICK held \in Remains : LeaveRemains(held) /\ hurt' = hurt \cup Halves(op.cur, held)
    BY DEF StepFails
  <1>3. /\ files' \in [Name -> Stored] /\ keychain' \in [Name -> Stored]
        /\ Halves(op.cur, held) \subseteq Name \X Whys
        /\ \A n \in Name : Halves(n, files'[n]) \subseteq hurt'
        /\ \A x \in kept : InPlace(x) => InPlace(x)' \/ Excused(x)'
    BY <1>2, LeaveRemainsOK DEF StepFails
  <1>4. hurt' \subseteq Name \X Whys /\ events' \in 0..MaxEvents
    BY <1>1, <1>2, <1>3, LocalInstallAssumption DEF Parts, StepFails, Event
  <1>5. CASE op.kind = "profile"
    <2>1. op' \in Op /\ op'.kind = "profile" /\ op'.pc = "restoreKeys" /\ op'.before = op.before
      BY <1>1, <1>5 DEF StepFails, Op, Label
    <2>2. Parts'
      BY <1>1, <1>3, <1>4, <1>5, <2>1 DEF StepFails, Parts
    <2>3. OpOK' /\ ImportOK' /\ ProfileOK' /\ RestoreOK' /\ DeleteOK'
      BY <2>1 DEF OpOK, ImportOK, ProfileOK, RestoreOK, DeleteOK
    <2>4. HalvesOK'
      <3>1. \A n \in Name : Halves(n, op'.before.files[n]) \subseteq hurt'
        BY <1>2, <1>5, <2>1 DEF IInv, HalvesOK
      <3> QED
        BY <1>3, <3>1 DEF HalvesOK, Halves
    <2>5. Survive'
      BY <1>2, <1>5, SurviveKeeps DEF IInv, StepFails
    <2> QED
      BY <2>2, <2>3, <2>4, <2>5, TypePartsNext DEF IInv
  <1>6. CASE op.kind # "profile"
    <2>1. op' = NoOp /\ op' \in Op /\ op'.kind = "none"
      BY <1>6, NoOpType DEF StepFails
    <2>2. Parts'
      BY <1>1, <1>3, <1>4, <2>1 DEF StepFails, Parts
    <2>3. Survive'
      BY <1>2, <1>3, <2>1, SurviveKeeps DEF IInv, StepFails
    <2> QED
      BY <1>3, <2>1, <2>2, <2>3, EndOK
  <1> QED
    BY <1>5, <1>6

\* A challenge that is torn is one more reason why a key does not load.
LEMMA TornChallenge ==
    ASSUME IInv, NEW killed \in BOOLEAN, ChallengeTorn(killed)
    PROVE  /\ op.pc = "check" /\ op.kind \in {"profile", "one"} /\ op.cur \in Name
           /\ chal' \in [Name -> Key \cup {0, Fresh, Torn}]
           /\ \A m \in Name : m # op.cur => chal'[m] = chal[m]
           /\ hurt \subseteq hurt' /\ hurt' \subseteq Name \X Whys
           /\ chal[op.cur] \in Key => <<op.cur, "tornChallenge">> \in hurt'
           /\ events' \in 0..MaxEvents
  <1>1. op.pc = "check" /\ op.kind \in {"profile", "one"} /\ op.cur \in Name
    BY Unfold DEF ChallengeTorn, At, IInv, OpOK
  <1>2. Parts
    BY Unfold
  <1>3. /\ chal' \in [Name -> Key \cup {0, Fresh, Torn}]
        /\ \A m \in Name : m # op.cur => chal'[m] = chal[m]
    BY <1>1, <1>2 DEF ChallengeTorn, Parts
  <1>4. hurt \subseteq hurt' /\ (chal[op.cur] \in Key => <<op.cur, "tornChallenge">> \in hurt')
    BY DEF ChallengeTorn, Key
  <1>5. hurt' \subseteq Name \X Whys
    BY <1>1, <1>2 DEF ChallengeTorn, Parts, Whys
  <1>6. events' \in 0..MaxEvents
    BY <1>2, LocalInstallAssumption DEF ChallengeTorn, Parts, Event
  <1> QED
    BY <1>1, <1>3, <1>4, <1>5, <1>6

LEMMA ChallengeTornInv ==
    ASSUME IInv, NEW killed \in BOOLEAN, ChallengeTorn(killed) PROVE IInv'
  <1>1. Parts /\ op \in Op
    BY Unfold
  <1>2. /\ op.pc = "check" /\ op.kind \in {"profile", "one"} /\ op.cur \in Name
        /\ hurt \subseteq hurt'
    BY TornChallenge
  <1>3. files' = files /\ \A n \in Name : Halves(n, files'[n]) \subseteq hurt'
    BY <1>2 DEF ChallengeTorn, IInv, HalvesOK
  <1>4. ASSUME NEW x \in kept', InPlace(x) PROVE InPlace(x)' \/ Excused(x)'
    <2>1. x[1] \in Name /\ x[2] \in Key
      BY <1>1 DEF Parts, ChallengeTorn
    <2>2. CASE x[1] = op.cur
      <3>1. chal[op.cur] = x[2]
        BY <1>4, <2>2 DEF InPlace, Whole, ChallengeTorn
      <3> QED
        BY <2>1, <2>2, <3>1, TornChallenge DEF Excused
    <2>3. CASE x[1] # op.cur
      BY <1>3, <1>4, <2>1, <2>3, TornChallenge DEF InPlace, Whole
    <2> QED
      BY <2>2, <2>3
  <1>5. CASE op'.kind = "profile" /\ op' # NoOp
    <2>1. op' \in Op /\ op.kind = "profile" /\ op'.pc = "restoreKeys" /\ op'.before = op.before
      BY <1>1, <1>5 DEF ChallengeTorn, Op, Label
    <2>2. Parts'
      BY <1>1, <1>5, <2>1, TornChallenge DEF ChallengeTorn, Parts
    <2>3. OpOK' /\ ImportOK' /\ ProfileOK' /\ RestoreOK' /\ DeleteOK'
      BY <1>5, <2>1 DEF OpOK, ImportOK, ProfileOK, RestoreOK, DeleteOK
    <2>4. HalvesOK'
      <3>1. \A n \in Name : Halves(n, op'.before.files[n]) \subseteq hurt'
        BY <1>2, <2>1 DEF IInv, HalvesOK
      <3> QED
        BY <1>3, <3>1 DEF HalvesOK, Halves
    <2>5. Survive'
      BY <1>2, <2>1, SurviveKeeps DEF IInv, ChallengeTorn
    <2> QED
      BY <2>2, <2>3, <2>4, <2>5, TypePartsNext DEF IInv
  <1>6. CASE op' = NoOp
    <2>1. op' \in Op /\ op'.kind = "none"
      BY <1>6, NoOpType
    <2>2. Parts'
      BY <1>1, <2>1, TornChallenge DEF ChallengeTorn, Parts
    <2>3. Survive'
      BY <1>2, <1>4, <2>1, SurviveKeeps DEF IInv, ChallengeTorn
    <2> QED
      BY <1>3, <1>6, <2>2, <2>3, EndOK
  <1>7. op' = NoOp \/ (op'.kind = "profile" /\ op' # NoOp)
    BY <1>1, NoOpType DEF ChallengeTorn, Op
  <1> QED
    BY <1>5, <1>6, <1>7

-----------------------------------------------------------------------------
(* Every step keeps the invariant.                                          *)

LEMMA StutterInv == ASSUME IInv, UNCHANGED vars PROVE IInv'
  <1> USE DEF vars, install
  <1>1. Parts'
    BY Unfold DEF Parts
  <1>2. OpOK' /\ ImportOK' /\ ProfileOK' /\ RestoreOK' /\ DeleteOK'
    BY DEF IInv, OpOK, ImportOK, ProfileOK, RestoreOK, DeleteOK, Imported, HasKeys, Held
  <1>3. HalvesOK'
    BY DEF IInv, HalvesOK, Halves
  <1>4. Survive'
    BY DEF IInv, Survive, InArchive, Excused, InPlace, Whole
  <1> QED
    BY <1>1, <1>2, <1>3, <1>4, TypePartsNext DEF IInv

LEMMA NextInv == IInv /\ [Next]_vars => IInv'
  <1> SUFFICES ASSUME IInv, [Next]_vars PROVE IInv'
    OBVIOUS
  <1>1. CASE UserStep
    BY <1>1, ExportProfileInv, UnlockInv, BeginImportInv, BeginOneInv, BeginDeleteInv
       DEF UserStep, Key
  <1>2. CASE OpStep
    <2>1. CASE \E n \in Name, stops \in BOOLEAN : WipeKeys(n, stops)
      <3>1. PICK n \in Name, stops \in BOOLEAN : WipeKeys(n, stops)
        BY <2>1
      <3> QED
        BY <3>1, WipeKeysInv
    <2>2. CASE \E left \in SUBSET {"chal", "meta", "index", "contacts"} : WipeFiles(left)
      BY <2>2, WipeFilesInv
    <2>3. CASE \E fails \in BOOLEAN : RestoreKeys(fails)
      BY <2>3, RestoreKeysInv
    <2>4. CASE \E left \in SUBSET {"meta", "index", "rest"} : RestoreRest(left)
      BY <2>4, RestoreRestInv
    <2>5. CASE \/ ApplyImportedConfig \/ NextIdentity \/ CheckKeys \/ StoreEncryptionIdentity
               \/ StoreSigningKey \/ WriteMeta \/ SaveIndex \/ FinishImport
      BY <2>5, ApplyImportedConfigInv, NextIdentityInv, CheckKeysInv, StoreEncryptionIdentityInv,
         StoreSigningKeyInv, WriteMetaInv, SaveIndexInv, FinishImportInv
    <2>6. CASE Reconcile \/ PersistMeta \/ PersistEntry \/ Unlist \/ ClearKeys \/ RemoveMeta
      BY <2>6, ReconcileInv, PersistMetaInv, PersistEntryInv, UnlistInv, ClearKeysInv, RemoveMetaInv
    <2> QED
      BY <1>2, <2>1, <2>2, <2>3, <2>4, <2>5, <2>6 DEF OpStep
  <1>3. CASE StepFails
    BY <1>3, StepFailsInv
  <1>4. CASE Killed
    BY <1>4, KilledInv
  <1>5. CASE \E killed \in BOOLEAN : ChallengeTorn(killed)
    BY <1>5, ChallengeTornInv
  <1>6. CASE UNCHANGED vars
    BY <1>6, StutterInv
  <1> QED
    BY <1>1, <1>2, <1>3, <1>4, <1>5, <1>6 DEF Next

\* The inductive invariant holds in every reachable state.
THEOREM Invariance == Spec => []IInv
  BY InitInv, NextInv, PTL DEF Spec

\* Type correctness of what is on disk, in the keychain and in hand; while a profile's
\* import is under way the archive it began with is there (snapshotInstall).
THEOREM TypeCorrect == Spec => []TypeOK
  <1>1. IInv => TypeOK
    BY DEF IInv
  <1> QED
    BY <1>1, Invariance, PTL

\* No key file that the user keeps is lost by an import that fails, is rolled back in
\* part or is killed, however often: it is in KeysDir or in an archive of TempDir.
THEOREM NoKeyLost == Spec => []KeysSurvive
  <1>1. IInv => KeysSurvive
    BY DEF IInv, Survive, KeysSurvive, InPlace, InArchive, Excused
  <1> QED
    BY <1>1, Invariance, PTL

\* A failed import that discards its archive has put back everything on disk.
THEOREM RollbackIsWhole == Spec => RolledBack
  <1>1. ASSUME IInv, Next, op.pc = "restoreRest", op.before \notin archives'
        PROVE  Installed' = op.before
    <2>1. op.kind = "profile" /\ op.before \in archives /\ op.before \in Install
      BY <1>1, Unfold DEF IInv, OpOK, TypeOK
    <2>2. PICK left \in SUBSET {"meta", "index", "rest"} : RestoreRest(left)
      <3>1. CASE UserStep
        BY <1>1, <2>1, <3>1 DEF UserStep, ExportProfile, Unlock, BeginImport, BeginOne, BeginDelete, Idle
      <3>2. CASE StepFails \/ Killed \/ \E killed \in BOOLEAN : ChallengeTorn(killed)
        BY <1>1, <2>1, <3>2 DEF StepFails, Killed, ChallengeTorn
      <3>3. CASE OpStep
        BY <1>1, <3>3 DEF OpStep, At, ApplyImportedConfig, WipeKeys, WipeFiles, NextIdentity,
           CheckKeys, StoreEncryptionIdentity, StoreSigningKey, WriteMeta, SaveIndex, FinishImport,
           RestoreKeys, Reconcile, PersistMeta, PersistEntry, Unlist, ClearKeys, RemoveMeta
      <3> QED
        BY <1>1, <3>1, <3>2, <3>3 DEF Next
    <2>3. left = {} /\ ~op.failed
      BY <1>1, <2>1, <2>2 DEF RestoreRest, Discard
    <2>4. files = op.before.files /\ chal = op.before.chal
      BY <1>1, <2>3 DEF IInv, RestoreOK
    <2>5. /\ files' = op.before.files /\ chal' = op.before.chal
          /\ meta' = op.before.meta /\ index' = op.before.index /\ rest' = op.before.rest
      BY <2>2, <2>3, <2>4 DEF RestoreRest, Restored
    <2> QED
      BY <2>1, <2>5, InstallParts DEF Installed
  <1>2. IInv /\ [Next]_vars => [(At("restoreRest") /\ op.before \notin archives') => Installed' = op.before]_vars
    BY <1>1 DEF At
  <1> QED
    BY <1>2, Invariance, PTL DEF Spec, RolledBack

-----------------------------------------------------------------------------
(* What is in the index opens.                                              *)

Excuse(n)     == \E why \in Whys : <<n, why>> \in hurt
Fine(n)       == index[n].key # 0 => Usable(n) \/ Excuse(n)
InStore(n, k) == Held(op.backend, n) = Full(k) \/ <<n, "torn">> \in hurt

IndexOK == op.kind # "profile" => \A n \in Name : Fine(n)

(* The rollback brings back identities that opened, those in key files.     *)
Archived(a, n) ==
    a.index[n].key # 0 /\ a.index[n].backend = "file" =>
        \/ Whole(a.files[n], a.chal[n], n, a.index[n].key) /\ a.meta[n] = a.index[n].key
        \/ Excuse(n)

ArchiveOK == op.kind = "profile" => \A n \in Name : Archived(op.before, n)

(* As HalvesOK, of the keychain.                                            *)
KeychainOK ==
    \A n \in Name : \/ op.pc = "sign" /\ op.backend = "keychain" /\ op.cur = n
                    \/ Halves(n, keychain[n]) \subseteq hurt

(* The identity in hand: what the index says of it is not spoiled by the    *)
(* stores, and an entry is written over keys and a meta file that are there. *)
OneOK ==
    /\ op.pc = "sign" => Held(op.backend, op.cur).enc = op.key
    /\ op.pc \in {"meta", "persist", "entry"} => InStore(op.cur, op.key)
    /\ op.pc = "entry" => meta[op.cur] = op.key
    /\ op.kind = "one" /\ op.pc \in {"enc", "sign"} /\ index[op.cur].key # 0
          /\ index[op.cur].backend = op.backend => Excuse(op.cur)
    /\ op.pc \in {"clear", "unmeta"} => index[op.cur].key = 0

(* The identities a profile's import has finished, and the index of them.   *)
AllOK ==
    /\ op.kind = "profile" /\ op.pc \in {"next", "check", "enc", "sign", "meta", "contacts"} =>
          \A n \in op.done : InStore(n, backup.keys[n]) /\ meta[n] = backup.keys[n]
    /\ op.pc = "contacts" => \A n \in Name :
          index[n] = IF n \in op.done THEN [key |-> backup.keys[n], backend |-> op.backend] ELSE NoEntry

UInv == IndexOK /\ ArchiveOK /\ KeychainOK /\ OneOK /\ AllOK

\* An excuse lasts.
LEMMA ExcuseLasts ==
    ASSUME NEW n, hurt \subseteq hurt', Excuse(n) PROVE Excuse(n)'
  BY DEF Excuse

LEMMA TornExcuses == ASSUME NEW n, <<n, "torn">> \in hurt PROVE Excuse(n)
  BY DEF Excuse, Whys

LEMMA TornExcusesNext == ASSUME NEW n, <<n, "torn">> \in hurt' PROVE Excuse(n)'
  BY DEF Excuse, Whys

\* An identity that a step leaves alone.
LEMMA FineKeeps ==
    ASSUME NEW n, Fine(n), hurt \subseteq hurt', index'[n] = index[n],
           meta'[n] = meta[n], chal'[n] = chal[n],
           index[n].backend = "file" => files'[n] = files[n],
           index[n].backend # "file" => keychain'[n] = keychain[n]
    PROVE  Fine(n)'
  <1>1. Usable(n) => Usable(n)'
    BY DEF Usable, Unlocks, Whole, Held
  <1> QED
    BY <1>1, ExcuseLasts DEF Fine

\* The archive stays as good as it was.
LEMMA ArchiveKeeps ==
    ASSUME ArchiveOK, op.kind = "profile", op'.before = op.before, hurt \subseteq hurt'
    PROVE  ArchiveOK'
  <1> SUFFICES ASSUME NEW n \in Name PROVE Archived(op.before, n)'
    BY DEF ArchiveOK
  <1>1. Archived(op.before, n)
    BY DEF ArchiveOK
  <1>2. Excuse(n) => Excuse(n)'
    BY ExcuseLasts
  <1> QED
    BY <1>1, <1>2 DEF Archived, Whole

\* An operation that ends.
LEMMA EndU ==
    ASSUME op' = NoOp, \A n \in Name : Fine(n)', \A n \in Name : Halves(n, keychain'[n]) \subseteq hurt'
    PROVE  UInv'
  <1>1. op'.kind = "none" /\ op'.pc = "idle"
    BY NoOpType
  <1>2. IndexOK'
    BY DEF IndexOK
  <1>3. ArchiveOK' /\ OneOK' /\ AllOK'
    BY <1>1 DEF ArchiveOK, OneOK, AllOK
  <1>4. KeychainOK'
    BY DEF KeychainOK, Halves
  <1> QED
    BY <1>2, <1>3, <1>4 DEF UInv

\* One key store, and the keys of one identity.
LEMMA PutHeld ==
    ASSUME Parts, NEW b \in Backend, NEW n \in Name, NEW held \in Stored, Put(b, n, held)
    PROVE  /\ b = "file" => files'[n] = held /\ keychain' = keychain
           /\ b = "keychain" => keychain'[n] = held /\ files' = files
           /\ \A m \in Name : m # n => files'[m] = files[m] /\ keychain'[m] = keychain[m]
  BY DEF Put, Parts, Backend

\* The halves in the store an import works on.
LEMMA HeldHalves ==
    ASSUME IInv, UInv, NEW b \in Backend, NEW n \in Name, op.pc # "sign"
    PROVE  Halves(n, Held(b, n)) \subseteq hurt
  BY DEF IInv, HalvesOK, UInv, KeychainOK, Held, Backend

-----------------------------------------------------------------------------
LEMMA InitU == Init => UInv
  <1> SUFFICES ASSUME Init PROVE UInv
    OBVIOUS
  <1>1. PICK have \in SUBSET Name, b \in Backends :
          /\ files = [n \in Name |-> IF n \in have /\ b = "file" THEN Full(Old) ELSE NoKeys]
          /\ keychain = [n \in Name |-> IF n \in have /\ b = "keychain" THEN Full(Old) ELSE NoKeys]
          /\ chal = [n \in Name |-> IF n \in have \cap HWName THEN Old ELSE 0]
          /\ meta = [n \in Name |-> IF n \in have THEN Old ELSE 0]
          /\ index = [n \in Name |-> IF n \in have THEN [key |-> Old, backend |-> b] ELSE NoEntry]
    BY DEF Init
  <1>2. op.kind = "none" /\ op.pc = "idle"
    BY NoOpType DEF Init
  <1>3. ArchiveOK /\ OneOK /\ AllOK
    BY <1>2 DEF ArchiveOK, OneOK, AllOK
  <1>4. KeychainOK
    BY <1>1, NoKeysType, FullType DEF KeychainOK, Key
  <1>5. IndexOK
    <2> SUFFICES ASSUME NEW n \in Name, index[n].key # 0 PROVE Usable(n)
      BY DEF IndexOK, Fine
    <2>1. n \in have /\ index[n] = [key |-> Old, backend |-> b]
      BY <1>1 DEF NoEntry
    <2>2. index[n].key = Old /\ index[n].backend = b /\ b \in {"file", "keychain"}
      BY <2>1, LocalInstallAssumption
    <2>3. Held(b, n) = Full(Old)
      BY <1>1, <2>1, <2>2 DEF Held
    <2>4. meta[n] = Old /\ (n \in HWName => chal[n] = Old)
      BY <1>1, <2>1
    <2> QED
      BY <2>2, <2>3, <2>4 DEF Usable, Unlocks, Whole
  <1> QED
    BY <1>3, <1>4, <1>5 DEF UInv

-----------------------------------------------------------------------------
(* What the user does.                                                      *)

\* A challenge that is missing was not that of an identity that opens.
LEMMA UnlockU == ASSUME IInv, UInv, NEW n \in Name, Unlock(n) PROVE UInv'
  <1>1. op' = op /\ op.kind = "none" /\ op.pc = "idle"
    BY DEF Unlock, Idle, IInv, OpOK
  <1>2. Parts
    BY Unfold
  <1>3. ArchiveOK' /\ OneOK' /\ AllOK'
    BY <1>1 DEF ArchiveOK, OneOK, AllOK
  <1>4. KeychainOK'
    BY <1>1 DEF UInv, KeychainOK, Halves, Unlock
  <1>5. ASSUME NEW m \in Name PROVE Fine(m)'
    <2>1. Fine(m)
      BY <1>1 DEF UInv, IndexOK
    <2>2. CASE m = n
      <3>1. ~Usable(n)
        <4>1. index[n].key # 0 /\ n \in HWName /\ chal[n] = 0
          BY DEF Unlock, Indexed
        <4> QED
          BY <4>1 DEF Usable, Unlocks, Whole
      <3>2. index[n].key # 0
        BY DEF Unlock, Indexed
      <3>3. Excuse(n)
        BY <2>1, <2>2, <3>1, <3>2 DEF Fine
      <3>4. Excuse(n)'
        BY <3>3 DEF Excuse, Unlock
      <3> QED
        BY <2>2, <3>4 DEF Fine
    <2>3. CASE m # n
      <3>1. chal'[m] = chal[m]
        BY <1>2, <2>3 DEF Unlock, Parts
      <3> QED
        BY <2>1, <3>1, FineKeeps DEF Unlock
    <2> QED
      BY <2>2, <2>3
  <1>6. IndexOK'
    BY <1>5 DEF IndexOK
  <1> QED
    BY <1>3, <1>4, <1>6 DEF UInv

LEMMA ExportProfileU == ASSUME IInv, UInv, ExportProfile PROVE UInv'
  <1>1. op' = op /\ op.kind = "none" /\ op.pc = "idle"
    BY DEF ExportProfile, Idle, IInv, OpOK
  <1>2. ArchiveOK' /\ OneOK' /\ AllOK'
    BY <1>1 DEF ArchiveOK, OneOK, AllOK
  <1>3. KeychainOK'
    BY <1>1 DEF UInv, KeychainOK, Halves, ExportProfile
  <1>4. \A m \in Name : Fine(m)'
    BY <1>1, FineKeeps DEF UInv, IndexOK, ExportProfile, install
  <1> QED
    BY <1>2, <1>3, <1>4 DEF UInv, IndexOK

LEMMA BeginOneU ==
    ASSUME IInv, UInv, NEW n \in Name, NEW k \in Key, NEW b \in Backends, BeginOne(n, k, b)
    PROVE  UInv'
  <1>1. op.kind = "none" /\ op.pc = "idle"
    BY DEF BeginOne, Idle, IInv, OpOK
  <1>2. op'.kind = "one" /\ op'.pc = "check"
    BY NoOpType DEF BeginOne, NoOp, Op
  <1>3. ArchiveOK' /\ OneOK' /\ AllOK'
    BY <1>2 DEF ArchiveOK, OneOK, AllOK
  <1>4. KeychainOK'
    BY <1>1 DEF UInv, KeychainOK, Halves, BeginOne
  <1>5. \A m \in Name : Fine(m)'
    BY <1>1, FineKeeps DEF UInv, IndexOK, BeginOne, install
  <1> QED
    BY <1>3, <1>4, <1>5 DEF UInv, IndexOK

LEMMA BeginDeleteU ==
    ASSUME IInv, UInv, NEW n \in Name, NEW successor \in Name, BeginDelete(n, successor)
    PROVE  UInv'
  <1>1. op.kind = "none" /\ op.pc = "idle"
    BY DEF BeginDelete, Idle, IInv, OpOK
  <1>2. \/ op'.kind = "delete" /\ op'.pc = "unlist"
        \/ op'.kind = "none" /\ op'.pc = "idle"
    <2>1. CASE Unlocks(n)
      BY <2>1, NoOpType DEF BeginDelete, NoOp, Op
    <2>2. CASE ~Unlocks(n)
      BY <2>2, NoOpType DEF BeginDelete
    <2> QED
      BY <2>1, <2>2
  <1>3. ArchiveOK' /\ OneOK' /\ AllOK'
    BY <1>2 DEF ArchiveOK, OneOK, AllOK
  <1>4. KeychainOK'
    BY <1>1 DEF UInv, KeychainOK, Halves, BeginDelete
  <1>5. \A m \in Name : Fine(m)'
    BY <1>1, FineKeeps DEF UInv, IndexOK, BeginDelete
  <1> QED
    BY <1>3, <1>4, <1>5 DEF UInv, IndexOK

\* The archive is of an install in which what is indexed opens.
LEMMA BeginImportU ==
    ASSUME IInv, UInv, NEW b \in Backends, NEW settings \in BOOLEAN, BeginImport(b, settings)
    PROVE  UInv'
  <1>1. op.kind = "none" /\ op.pc = "idle"
    BY DEF BeginImport, Idle, IInv, OpOK
  <1>2. op'.kind = "profile" /\ op'.pc = "config" /\ op'.before = Installed
    BY NoOpType DEF BeginImport, NoOp, Op
  <1>3. IndexOK' /\ OneOK' /\ AllOK'
    BY <1>2 DEF IndexOK, OneOK, AllOK
  <1>4. KeychainOK'
    BY <1>1 DEF UInv, KeychainOK, Halves, BeginImport
  <1>5. ASSUME NEW n \in Name PROVE Archived(Installed, n)
    <2>1. Fine(n)
      BY <1>1 DEF UInv, IndexOK
    <2> QED
      BY <2>1 DEF Fine, Archived, Installed, Usable, Unlocks, Whole, Held
  <1>6. ASSUME NEW n \in Name PROVE Archived(op.before, n)'
    <2>1. PICK a : a = Installed
      OBVIOUS
    <2>2. Archived(a, n) /\ op'.before = a /\ hurt' = hurt
      BY <1>2, <1>5, <2>1 DEF BeginImport
    <2> QED
      BY <2>2 DEF Archived, Excuse, Whole
  <1> QED
    BY <1>3, <1>4, <1>6 DEF UInv, ArchiveOK

-----------------------------------------------------------------------------
(* The import of a profile.                                                 *)

LEMMA ApplyImportedConfigU == ASSUME IInv, UInv, ApplyImportedConfig PROVE UInv'
  <1>1. op.pc = "config" /\ op.kind = "profile"
    BY DEF ApplyImportedConfig, At, IInv, OpOK
  <1>2. op'.kind = "profile" /\ op'.pc = "wipe" /\ op'.before = op.before
    BY <1>1, Unfold DEF ApplyImportedConfig, Op
  <1>3. IndexOK' /\ OneOK' /\ AllOK'
    BY <1>2 DEF IndexOK, OneOK, AllOK
  <1>4. ArchiveOK'
    BY <1>1, <1>2, ArchiveKeeps DEF UInv, ApplyImportedConfig
  <1>5. KeychainOK'
    BY <1>1 DEF UInv, KeychainOK, Halves, ApplyImportedConfig
  <1> QED
    BY <1>3, <1>4, <1>5 DEF UInv

LEMMA WipeKeysU ==
    ASSUME IInv, UInv, NEW n \in Name, NEW stops \in BOOLEAN, WipeKeys(n, stops)
    PROVE  UInv'
  <1> DEFINE b == index[n].backend
  <1>1. op.pc = "wipe" /\ op.kind = "profile"
    BY DEF WipeKeys, At, IInv, OpOK
  <1>2. Parts /\ op \in Op /\ b \in Backend
    BY Unfold DEF Parts, IndexEntry
  <1>3. op'.kind = "profile" /\ op'.pc = "wipe" /\ op'.before = op.before
    BY <1>1, <1>2 DEF WipeKeys, Op
  <1>4. PICK held \in Stored :
          /\ Put(b, n, held) /\ hurt \subseteq hurt' /\ Halves(n, held) \subseteq hurt'
    <2>1. CASE stops
      <3>1. PICK held \in ClearRemains(b, Held(b, n)) : Put(b, n, held) /\ hurt' = hurt \cup Halves(n, held)
        BY <2>1 DEF WipeKeys
      <3>2. held \in Stored
        BY <1>2, HeldType, ClearRemainsType
      <3> QED
        BY <3>1, <3>2
    <2>2. CASE ~stops
      BY <2>2, NoKeysType DEF WipeKeys
    <2> QED
      BY <2>1, <2>2
  <1>5. IndexOK' /\ OneOK' /\ AllOK'
    BY <1>3 DEF IndexOK, OneOK, AllOK
  <1>6. ArchiveOK'
    BY <1>1, <1>3, <1>4, ArchiveKeeps DEF UInv
  <1>7. KeychainOK'
    <2>1. \A m \in Name : keychain'[m] = keychain[m] \/ (m = n /\ keychain'[m] = held)
      BY <1>2, <1>4, PutHeld DEF Backend
    <2>2. \A m \in Name : Halves(m, keychain[m]) \subseteq hurt
      BY <1>1 DEF UInv, KeychainOK
    <2>3. \A m \in Name : Halves(m, keychain'[m]) \subseteq hurt'
      BY <1>4, <2>1, <2>2
    <2> QED
      BY <2>3 DEF KeychainOK, Halves
  <1> QED
    BY <1>5, <1>6, <1>7 DEF UInv

LEMMA WipeFilesU ==
    ASSUME IInv, UInv, NEW left \in SUBSET {"chal", "meta", "index", "contacts"}, WipeFiles(left)
    PROVE  UInv'
  <1>1. op.pc = "wipe" /\ op.kind = "profile" /\ op.done = {}
    BY DEF WipeFiles, At, IInv, OpOK, ProfileOK
  <1>2. op'.kind = "profile" /\ op'.pc = "next" /\ op'.before = op.before /\ op'.done = {}
    BY <1>1, Unfold DEF WipeFiles, Op
  <1>3. IndexOK' /\ OneOK' /\ AllOK'
    BY <1>2 DEF IndexOK, OneOK, AllOK
  <1>4. ArchiveOK'
    BY <1>1, <1>2, ArchiveKeeps DEF UInv, WipeFiles
  <1>5. KeychainOK'
    BY <1>1 DEF UInv, KeychainOK, Halves, WipeFiles
  <1> QED
    BY <1>3, <1>4, <1>5 DEF UInv

LEMMA NextIdentityU == ASSUME IInv, UInv, NextIdentity PROVE UInv'
  <1>1. op.pc = "next" /\ op.kind = "profile"
    BY DEF NextIdentity, At, IInv, OpOK
  <1>2. /\ op'.kind = "profile" /\ op'.pc = "check" /\ op'.before = op.before /\ op'.done = op.done
        /\ op'.backend = op.backend
    BY <1>1, Unfold DEF NextIdentity, Op
  <1>3. IndexOK' /\ OneOK'
    BY <1>2 DEF IndexOK, OneOK
  <1>4. AllOK'
    BY <1>1, <1>2 DEF UInv, AllOK, InStore, Held, NextIdentity, install
  <1>5. ArchiveOK'
    BY <1>1, <1>2, ArchiveKeeps DEF UInv, NextIdentity
  <1>6. KeychainOK'
    BY <1>1 DEF UInv, KeychainOK, Halves, NextIdentity
  <1> QED
    BY <1>3, <1>4, <1>5, <1>6 DEF UInv

\* An indexed identity whose keys are not there, or whose challenge goes, is excused.
LEMMA CheckKeysU == ASSUME IInv, UInv, CheckKeys PROVE UInv'
  <1> DEFINE n == op.cur
             p == IF ~HasKeys(op.backend, n) THEN "enc"
                  ELSE IF op.kind = "profile" THEN "restoreKeys" ELSE "exists"
  <1>1. op.pc = "check" /\ op.kind \in {"profile", "one"} /\ n \in Name /\ op.key \in Key
    BY Unfold DEF CheckKeys, At, IInv, OpOK
  <1>2. Parts /\ op \in Op
    BY Unfold
  <1>3. /\ op'.pc = p /\ op'.kind = op.kind /\ op'.backend = op.backend
        /\ op'.done = op.done /\ op'.cur = n /\ op'.key = op.key /\ op'.before = op.before
    <2>1. p \in Label
      BY DEF Label
    <2> QED
      BY <1>2, <2>1, GotoOK DEF CheckKeys
  <1>4. p \in {"enc", "restoreKeys", "exists"} /\ (p = "enc" => ~HasKeys(op.backend, n))
    OBVIOUS
  <1> HIDE DEF p
  <1>5. hurt \subseteq hurt' /\ UNCHANGED <<files, keychain, meta, index, backup>>
    BY DEF CheckKeys
  <1>6. ArchiveOK'
    <2>1. CASE op.kind = "profile"
      BY <1>3, <1>5, <2>1, ArchiveKeeps DEF UInv
    <2>2. CASE op.kind # "profile"
      BY <1>3, <2>2 DEF ArchiveOK
    <2> QED
      BY <2>1, <2>2
  <1>7. KeychainOK'
    <2>1. \A m \in Name : Halves(m, keychain'[m]) \subseteq hurt'
      BY <1>1, <1>5 DEF UInv, KeychainOK
    <2> QED
      BY <2>1 DEF KeychainOK, Halves
  <1>8. AllOK'
    <2>1. \A m \in op.done : op.kind = "profile" => InStore(m, backup.keys[m]) /\ meta[m] = backup.keys[m]
      BY <1>1 DEF UInv, AllOK
    <2>2. \A m \in op.done : op.kind = "profile" => InStore(m, backup.keys[m])'
      BY <1>3, <1>5, <2>1 DEF InStore, Held
    <2> QED
      BY <1>3, <1>4, <1>5, <2>1, <2>2 DEF AllOK
  <1>9. op.kind = "one" => \A m \in Name : Fine(m)
    BY DEF UInv, IndexOK
  <1>10. OneOK'
    <2>1. ASSUME op.kind = "one", p = "enc", index[n].key # 0, index[n].backend = op.backend
          PROVE  Excuse(n)'
      <3>1. ~Usable(n)
        <4>1. index[n].key \in Key
          BY <1>1, <1>2, <2>1 DEF Parts, IndexEntry
        <4>2. ~(Held(op.backend, n).enc # 0 /\ Held(op.backend, n).marker)
          BY <1>4, <2>1 DEF HasKeys
        <4> QED
          BY <2>1, <4>1, <4>2 DEF Usable, Unlocks, Whole, Full
      <3>2. PICK m \in Name : m = n
        BY <1>1
      <3>3. Excuse(m)
        BY <1>9, <2>1, <3>1, <3>2 DEF Fine
      <3>4. Excuse(m)'
        BY <1>5, <3>3, ExcuseLasts
      <3> QED
        BY <1>3, <3>2, <3>4 DEF Excuse
    <2> QED
      BY <1>3, <1>4, <1>5, <2>1 DEF OneOK
  <1>11. IndexOK'
    <2> SUFFICES ASSUME op.kind = "one", NEW m \in Name PROVE Fine(m)'
      BY <1>1, <1>3 DEF IndexOK
    <2>1. Fine(m)
      BY <1>9
    <2>2. CASE chal'[m] = chal[m]
      BY <1>5, <2>1, <2>2, FineKeeps
    <2>3. CASE chal'[m] # chal[m]
      <3>1. m = n /\ n \in HWName /\ chal'[n] = op.key /\ chal[n] # op.key
        BY <1>1, <1>2, <2>3 DEF CheckKeys, Parts
      <3>2. CASE chal[n] \notin Key
        <4>1. index[n].key # 0 => ~Usable(n)
          BY <1>1, <1>2, <3>1, <3>2 DEF Usable, Unlocks, Whole, Parts, IndexEntry
        <4> QED
          BY <1>5, <2>1, <3>1, <4>1, ExcuseLasts DEF Fine
      <3>3. CASE chal[n] \in Key
        <4>1. <<n, "challenge">> \in hurt'
          BY <3>1, <3>3 DEF CheckKeys, Key
        <4> QED
          BY <3>1, <4>1 DEF Fine, Excuse, Whys
      <3> QED
        BY <3>2, <3>3
    <2> QED
      BY <2>2, <2>3
  <1> QED
    BY <1>6, <1>7, <1>8, <1>10, <1>11 DEF UInv

\* The stores touch one identity, in one store: what is finished stays so.
LEMMA DoneKeeps ==
    ASSUME IInv, UInv, op.kind = "profile",
           op.pc \in {"enc", "sign"}, op.cur \in Name, NEW held \in Stored,
           Put(op.backend, op.cur, held),
           op'.backend = op.backend, op'.done = op.done,
           UNCHANGED <<meta, backup, hurt>>
    PROVE  \A m \in op'.done : InStore(m, backup.keys[m])' /\ meta'[m] = backup'.keys[m]
  <1>1. Parts /\ op.backend \in Backend /\ op.done \subseteq Name
    BY Unfold
  <1>2. op.cur \notin op.done
    BY DEF IInv, ProfileOK
  <1>3. \A m \in op.done : InStore(m, backup.keys[m]) /\ meta[m] = backup.keys[m]
    BY DEF UInv, AllOK
  <1>4. \A m \in Name : m # op.cur => files'[m] = files[m] /\ keychain'[m] = keychain[m]
    BY <1>1, PutHeld
  <1> QED
    BY <1>1, <1>2, <1>3, <1>4 DEF InStore, Held

\* ... and an identity that opens does not have its keys there.
LEMMA StoreKeepsFine ==
    ASSUME IInv, UInv, op.kind = "one", op.pc \in {"enc", "sign"}, op.cur \in Name,
           NEW held \in Stored, Put(op.backend, op.cur, held),
           UNCHANGED <<chal, meta, index>>, hurt \subseteq hurt'
    PROVE  \A m \in Name : Fine(m)'
  <1> DEFINE n == op.cur
  <1>1. Parts /\ op.backend \in Backend
    BY Unfold
  <1> TAKE m \in Name
  <1>2. Fine(m)
    BY DEF UInv, IndexOK
  <1>3. /\ op.backend = "file" => files'[n] = held /\ keychain' = keychain
        /\ op.backend = "keychain" => keychain'[n] = held /\ files' = files
        /\ \A k \in Name : k # n => files'[k] = files[k] /\ keychain'[k] = keychain[k]
    BY <1>1, PutHeld
  <1>4. CASE m = n /\ index[n].key # 0 /\ index[n].backend = op.backend
    <2>1. Excuse(n)
      BY <1>4 DEF UInv, OneOK
    <2> QED
      BY <1>4, <2>1, ExcuseLasts DEF Fine
  <1>5. CASE index[m].key = 0
    BY <1>5 DEF Fine
  <1>6. CASE m # n
    BY <1>2, <1>3, <1>6, FineKeeps
  <1>7. CASE m = n /\ index[n].backend # op.backend
    <2>1. index[n].backend \in Backend
      BY <1>1 DEF Parts, IndexEntry
    <2> QED
      BY <1>1, <1>2, <1>3, <1>7, <2>1, FineKeeps DEF Backend
  <1> QED
    BY <1>4, <1>5, <1>6, <1>7

LEMMA StoreEncryptionIdentityU == ASSUME IInv, UInv, StoreEncryptionIdentity PROVE UInv'
  <1> DEFINE n == op.cur
             held == [Held(op.backend, n) EXCEPT !.enc = op.key]
  <1>1. op.pc = "enc" /\ op.kind \in {"profile", "one"} /\ n \in Name /\ op.key \in Key
    BY Unfold DEF StoreEncryptionIdentity, At, IInv, OpOK
  <1>2. Parts /\ op \in Op /\ op.backend \in Backend
    BY Unfold
  <1>3. /\ op'.pc = "sign" /\ op'.kind = op.kind /\ op'.backend = op.backend
        /\ op'.done = op.done /\ op'.cur = n /\ op'.key = op.key /\ op'.before = op.before
    BY <1>2, GotoOK DEF StoreEncryptionIdentity, Label
  <1>4. held \in Stored /\ held.enc = op.key
    BY <1>1, <1>2, HeldType, ExceptEnc
  <1>5. Put(op.backend, n, held)
    BY DEF StoreEncryptionIdentity
  <1> HIDE DEF held
  <1>6. /\ op.backend = "file" => files'[n] = held /\ keychain' = keychain
        /\ op.backend = "keychain" => keychain'[n] = held /\ files' = files
        /\ \A m \in Name : m # n => files'[m] = files[m] /\ keychain'[m] = keychain[m]
    BY <1>1, <1>2, <1>4, <1>5, PutHeld
  <1>7. UNCHANGED <<chal, meta, index, backup, hurt>>
    BY DEF StoreEncryptionIdentity
  <1>8. KeychainOK'
    <2>1. \A m \in Name : (op.backend = "keychain" /\ m = n) \/ Halves(m, keychain'[m]) \subseteq hurt
      BY <1>1, <1>2, <1>6 DEF UInv, KeychainOK, Backend
    <2> QED
      BY <1>3, <1>7, <2>1 DEF KeychainOK, Halves
  <1>9. OneOK'
    <2>1. Held(op.backend, n)'.enc = op.key
      BY <1>2, <1>3, <1>4, <1>6 DEF Held, Backend
    <2>2. op.kind = "one" /\ index[n].key # 0 /\ index[n].backend = op.backend => Excuse(n)'
      BY <1>1, <1>3, <1>7 DEF UInv, OneOK, Excuse
    <2> QED
      BY <1>3, <1>7, <2>1, <2>2 DEF OneOK, Held
  <1>10. ArchiveOK' /\ AllOK' /\ IndexOK'
    <2>1. CASE op.kind = "profile"
      <3>1. ArchiveOK'
        BY <1>3, <1>7, <2>1, ArchiveKeeps DEF UInv
      <3>2. AllOK'
        BY <1>1, <1>3, <1>4, <1>5, <1>7, <2>1, DoneKeeps DEF AllOK
      <3> QED
        BY <1>3, <2>1, <3>1, <3>2 DEF IndexOK
    <2>2. CASE op.kind = "one"
      <3>1. \A m \in Name : Fine(m)'
        BY <1>1, <1>4, <1>5, <1>7, <2>2, StoreKeepsFine
      <3> QED
        BY <1>3, <2>2, <3>1 DEF ArchiveOK, AllOK, IndexOK
    <2> QED
      BY <1>1, <2>1, <2>2
  <1> QED
    BY <1>8, <1>9, <1>10 DEF UInv

LEMMA StoreSigningKeyU == ASSUME IInv, UInv, StoreSigningKey PROVE UInv'
  <1> DEFINE n == op.cur
             held == [Held(op.backend, n) EXCEPT !.marker = TRUE, !.sign = op.key]
             p == IF op.kind = "profile" THEN "meta" ELSE "persist"
  <1>1. op.pc = "sign" /\ op.kind \in {"profile", "one"} /\ n \in Name /\ op.key \in Key
    BY Unfold DEF StoreSigningKey, At, IInv, OpOK
  <1>2. Parts /\ op \in Op /\ op.backend \in Backend
    BY Unfold
  <1>3. /\ op'.pc = p /\ op'.kind = op.kind /\ op'.backend = op.backend
        /\ op'.done = op.done /\ op'.cur = n /\ op'.key = op.key /\ op'.before = op.before
    <2>1. p \in Label
      BY DEF Label
    <2> QED
      BY <1>2, <2>1, GotoOK DEF StoreSigningKey
  <1>4. held \in Stored /\ held = Full(op.key)
    <2>1. Held(op.backend, n).enc = op.key
      BY <1>1 DEF UInv, OneOK
    <2> QED
      BY <1>1, <1>2, <2>1, HeldType, ExceptSign
  <1>5. Put(op.backend, n, held)
    BY DEF StoreSigningKey
  <1> HIDE DEF held
  <1>6. /\ op.backend = "file" => files'[n] = held /\ keychain' = keychain
        /\ op.backend = "keychain" => keychain'[n] = held /\ files' = files
        /\ \A m \in Name : m # n => files'[m] = files[m] /\ keychain'[m] = keychain[m]
    BY <1>1, <1>2, <1>4, <1>5, PutHeld
  <1>7. UNCHANGED <<chal, meta, index, backup, hurt>>
    BY DEF StoreSigningKey
  <1>8. KeychainOK'
    <2>1. Halves(n, held) = {}
      BY <1>1, <1>4, FullType
    <2>2. \A m \in Name : Halves(m, keychain'[m]) \subseteq hurt
      BY <1>1, <1>2, <1>6, <2>1 DEF UInv, KeychainOK, Backend
    <2> QED
      BY <1>7, <2>2 DEF KeychainOK, Halves
  <1>9. OneOK'
    <2>1. Held(op.backend, n)' = Full(op.key)
      BY <1>2, <1>3, <1>4, <1>6 DEF Held, Backend
    <2>2. InStore(op.cur, op.key)'
      BY <1>3, <2>1 DEF InStore, Held, Full
    <2> QED
      BY <1>3, <2>2 DEF OneOK
  <1>10. ArchiveOK' /\ AllOK' /\ IndexOK'
    <2>1. CASE op.kind = "profile"
      <3>1. ArchiveOK'
        BY <1>3, <1>7, <2>1, ArchiveKeeps DEF UInv
      <3>2. AllOK'
        BY <1>1, <1>3, <1>4, <1>5, <1>7, <2>1, DoneKeeps DEF AllOK
      <3> QED
        BY <1>3, <2>1, <3>1, <3>2 DEF IndexOK
    <2>2. CASE op.kind = "one"
      <3>1. \A m \in Name : Fine(m)'
        BY <1>1, <1>4, <1>5, <1>7, <2>2, StoreKeepsFine
      <3> QED
        BY <1>3, <2>2, <3>1 DEF ArchiveOK, AllOK, IndexOK
    <2> QED
      BY <1>1, <2>1, <2>2
  <1> QED
    BY <1>8, <1>9, <1>10 DEF UInv

LEMMA WriteMetaU == ASSUME IInv, UInv, WriteMeta PROVE UInv'
  <1> DEFINE n == op.cur
  <1>1. op.pc = "meta" /\ op.kind = "profile" /\ n \in Name /\ InStore(n, op.key)
    BY DEF WriteMeta, At, IInv, OpOK, UInv, OneOK
  <1>2. Parts /\ op.done \subseteq Name
    BY Unfold
  <1>3. /\ op'.kind = "profile" /\ op'.pc = "next" /\ op'.before = op.before
        /\ op'.done = op.done \cup {n} /\ op'.backend = op.backend
    BY <1>1, Unfold DEF WriteMeta, Op
  <1>4. op.key = backup.keys[n]
    BY <1>1 DEF IInv, ProfileOK
  <1>5. UNCHANGED <<files, keychain, backup, hurt>> /\ meta' = [meta EXCEPT ![n] = op.key]
    BY DEF WriteMeta
  <1>6. IndexOK' /\ OneOK'
    BY <1>3 DEF IndexOK, OneOK
  <1>7. ArchiveOK'
    BY <1>1, <1>3, <1>5, ArchiveKeeps DEF UInv
  <1>8. KeychainOK'
    BY <1>1, <1>5 DEF UInv, KeychainOK, Halves
  <1>9. AllOK'
    <2>1. \A m \in op.done : InStore(m, backup.keys[m]) /\ meta[m] = backup.keys[m]
      BY <1>1 DEF UInv, AllOK
    <2>2. \A m \in op.done \cup {n} : meta'[m] = backup.keys[m]
      BY <1>1, <1>2, <1>4, <1>5, <2>1 DEF Parts
    <2>3. \A m \in op.done \cup {n} : InStore(m, backup.keys[m])
      BY <1>1, <1>4, <2>1
    <2>4. \A m \in op'.done : InStore(m, backup.keys[m])'
      BY <1>3, <1>5, <2>3 DEF InStore, Held
    <2> QED
      BY <1>3, <1>5, <2>2, <2>4 DEF AllOK
  <1> QED
    BY <1>6, <1>7, <1>8, <1>9 DEF UInv

LEMMA SaveIndexU == ASSUME IInv, UInv, SaveIndex PROVE UInv'
  <1>1. op.pc = "next" /\ op.kind = "profile"
    BY DEF SaveIndex, At, IInv, OpOK
  <1>2. /\ op'.kind = "profile" /\ op'.pc = "contacts" /\ op'.before = op.before
        /\ op'.done = op.done /\ op'.backend = op.backend
    BY <1>1, Unfold, GotoOK DEF SaveIndex, Label
  <1>3. IndexOK' /\ OneOK'
    BY <1>2 DEF IndexOK, OneOK
  <1>4. ArchiveOK'
    BY <1>1, <1>2, ArchiveKeeps DEF UInv, SaveIndex
  <1>5. KeychainOK'
    BY <1>1 DEF UInv, KeychainOK, Halves, SaveIndex
  <1>6. AllOK'
    <2>1. \A m \in op.done : InStore(m, backup.keys[m]) /\ meta[m] = backup.keys[m]
      BY <1>1 DEF UInv, AllOK
    <2>2. \A m \in op'.done : InStore(m, backup.keys[m])' /\ meta'[m] = backup'.keys[m]
      BY <1>2, <2>1 DEF InStore, Held, SaveIndex
    <2>3. \A m \in Name :
            index'[m] = IF m \in op'.done THEN [key |-> backup'.keys[m], backend |-> op'.backend] ELSE NoEntry
      BY <1>2 DEF SaveIndex
    <2> QED
      BY <2>2, <2>3 DEF AllOK, NoEntry
  <1> QED
    BY <1>3, <1>4, <1>5, <1>6 DEF UInv

\* The index names the identities that were finished, and no other.
LEMMA FinishImportU == ASSUME IInv, UInv, FinishImport PROVE UInv'
  <1>1. /\ op.pc = "contacts" /\ op.kind = "profile"
        /\ \A n \in op.done : n \in HWName => chal[n] = backup.keys[n]
    BY DEF FinishImport, At, IInv, OpOK, ProfileOK
  <1>2. /\ \A n \in op.done : InStore(n, backup.keys[n]) /\ meta[n] = backup.keys[n]
        /\ \A n \in Name : index[n] = IF n \in op.done THEN [key |-> backup.keys[n], backend |-> op.backend]
                                                       ELSE NoEntry
    BY <1>1 DEF UInv, AllOK
  <1>3. ASSUME NEW n \in Name PROVE Fine(n)
    <2>1. CASE n \in op.done
      <3>1. index[n].key = backup.keys[n] /\ index[n].backend = op.backend
        <4>1. index[n] = [key |-> backup.keys[n], backend |-> op.backend]
          BY <1>2, <1>3, <2>1, Zenon
        <4> QED
          BY <4>1
      <3>2. CASE Held(op.backend, n) = Full(backup.keys[n])
        BY <1>1, <1>2, <2>1, <3>1, <3>2 DEF Fine, Usable, Unlocks, Whole
      <3>3. CASE <<n, "torn">> \in hurt
        BY <3>3, TornExcuses DEF Fine
      <3> QED
        BY <1>2, <2>1, <3>2, <3>3 DEF InStore
    <2>2. CASE n \notin op.done
      <3>1. index[n] = NoEntry
        BY <1>2, <1>3, <2>2, Zenon
      <3> QED
        BY <3>1 DEF Fine, NoEntry
    <2> QED
      BY <2>1, <2>2
  <1>4. UNCHANGED <<files, keychain, chal, meta, index, hurt>> /\ op' = NoOp
    BY DEF FinishImport
  <1>5. \A n \in Name : Fine(n)'
    BY <1>3, <1>4, FineKeeps
  <1>6. \A n \in Name : Halves(n, keychain'[n]) \subseteq hurt'
    BY <1>1, <1>4 DEF UInv, KeychainOK
  <1> QED
    BY <1>4, <1>5, <1>6, EndU

-----------------------------------------------------------------------------
(* The rollback.                                                            *)

LEMMA RestoreKeysU == ASSUME IInv, UInv, NEW fails \in BOOLEAN, RestoreKeys(fails) PROVE UInv'
  <1>1. op.pc = "restoreKeys" /\ op.kind = "profile"
    BY DEF RestoreKeys, At, IInv, OpOK
  <1>2. op'.kind = "profile" /\ op'.pc = "restoreRest" /\ op'.before = op.before
    BY <1>1, Unfold DEF RestoreKeys, Op
  <1>3. IndexOK' /\ OneOK' /\ AllOK'
    BY <1>2 DEF IndexOK, OneOK, AllOK
  <1>4. ArchiveOK'
    BY <1>1, <1>2, ArchiveKeeps DEF UInv, RestoreKeys
  <1>5. KeychainOK'
    BY <1>1 DEF UInv, KeychainOK, Halves, RestoreKeys
  <1> QED
    BY <1>3, <1>4, <1>5 DEF UInv

\* A rollback that is complete brings back what the archive holds; the keychain's
\* entries are not in it.
LEMMA RestoreRestU ==
    ASSUME IInv, UInv, NEW left \in SUBSET {"meta", "index", "rest"}, RestoreRest(left)
    PROVE  UInv'
  <1>1. op.pc = "restoreRest" /\ op.kind = "profile"
    BY DEF RestoreRest, At, IInv, OpOK
  <1>2. Parts /\ op.before.index \in [Name -> IndexEntry]
    BY Unfold, InstallParts
  <1>3. op' = NoOp /\ UNCHANGED <<files, keychain, chal>> /\ hurt \subseteq hurt'
    BY DEF RestoreRest
  <1>4. \A n \in Name : Halves(n, keychain'[n]) \subseteq hurt'
    BY <1>1, <1>3 DEF UInv, KeychainOK
  <1>5. ASSUME NEW n \in Name PROVE Fine(n)'
    <2>1. CASE left = {} /\ ~op.failed
      <3>1. files = op.before.files /\ chal = op.before.chal
        BY <1>1, <2>1 DEF IInv, RestoreOK
      <3>2. meta' = op.before.meta /\ index' = op.before.index
        BY <2>1 DEF RestoreRest, Restored
      <3>3. CASE op.before.index[n].backend = "keychain"
        <4>1. <<n, "keychain">> \in hurt'
          BY <3>3 DEF RestoreRest
        <4> QED
          BY <4>1 DEF Fine, Excuse, Whys
      <3>4. CASE op.before.index[n].backend = "file"
        <4>1. Archived(op.before, n)
          BY <1>1 DEF UInv, ArchiveOK
        <4>2. CASE Excuse(n)
          BY <1>3, <4>2, ExcuseLasts DEF Fine
        <4>3. CASE ~Excuse(n)
          BY <1>3, <3>1, <3>2, <3>4, <4>1, <4>3 DEF Archived, Fine, Usable, Unlocks, Whole, Held
        <4> QED
          BY <4>2, <4>3
      <3> QED
        BY <1>2, <3>3, <3>4 DEF IndexEntry, Backend
    <2>2. CASE ~(left = {} /\ ~op.failed)
      <3>1. <<n, "restore">> \in hurt'
        BY <2>2 DEF RestoreRest
      <3> QED
        BY <3>1 DEF Fine, Excuse, Whys
    <2> QED
      BY <2>1, <2>2
  <1> QED
    BY <1>3, <1>4, <1>5, EndU

-----------------------------------------------------------------------------
(* The import of one identity, and a deletion.                              *)

\* Keys that are taken for those of the bundle are complete, or known to be hurt.
LEMMA ReconcileU == ASSUME IInv, UInv, Reconcile PROVE UInv'
  <1> DEFINE n == op.cur
  <1>1. op.pc = "exists" /\ op.kind = "one" /\ n \in Name /\ op.key \in Key /\ op.key # 0
    BY LocalInstallAssumption DEF Reconcile, At, IInv, OpOK, Key
  <1>2. Parts /\ op \in Op /\ op.backend \in Backend
    BY Unfold
  <1>3. UNCHANGED <<files, keychain, chal, meta, index, backup, hurt>>
    BY DEF Reconcile, install
  <1>4. \A m \in Name : Fine(m)'
    BY <1>1, <1>3, FineKeeps DEF UInv, IndexOK
  <1>5. \A m \in Name : Halves(m, keychain'[m]) \subseteq hurt'
    BY <1>1, <1>3 DEF UInv, KeychainOK
  <1>6. CASE op' = NoOp
    BY <1>4, <1>5, <1>6, EndU
  <1>7. CASE op' # NoOp
    <2>1. Goto("persist") /\ Held(op.backend, n).enc = op.key
      BY <1>7 DEF Reconcile
    <2>2. /\ op'.pc = "persist" /\ op'.kind = "one" /\ op'.backend = op.backend
          /\ op'.cur = n /\ op'.key = op.key
      BY <1>1, <1>2, <2>1, GotoOK DEF Label
    <2>3. InStore(n, op.key)
      <3>1. Held(op.backend, n).marker
        BY <1>1 DEF IInv, ImportOK, HasKeys
      <3>2. Held(op.backend, n) \in Stored /\ Halves(n, Held(op.backend, n)) \subseteq hurt
        BY <1>1, <1>2, HeldType, HeldHalves
      <3>3. PICK g \in Stored : g = Held(op.backend, n)
        BY <3>2
      <3> QED
        BY <1>1, <2>1, <3>1, <3>2, <3>3, SameHalves DEF InStore
    <2>4. InStore(op.cur, op.key)'
      BY <1>3, <2>2, <2>3 DEF InStore, Held
    <2>5. OneOK' /\ ArchiveOK' /\ AllOK'
      BY <2>2, <2>4 DEF OneOK, ArchiveOK, AllOK
    <2>6. KeychainOK' /\ IndexOK'
      BY <1>4, <1>5 DEF KeychainOK, IndexOK, Halves
    <2> QED
      BY <2>5, <2>6 DEF UInv
  <1> QED
    BY <1>6, <1>7

\* A meta file is overwritten only where the index has no other key.
LEMMA PersistMetaU == ASSUME IInv, UInv, PersistMeta PROVE UInv'
  <1> DEFINE n == op.cur
  <1>1. /\ op.pc = "persist" /\ op.kind = "one" /\ n \in Name /\ op.key \in Key
        /\ InStore(n, op.key)
    BY DEF PersistMeta, At, IInv, OpOK, UInv, OneOK
  <1>2. Parts /\ op \in Op
    BY Unfold
  <1>3. UNCHANGED <<files, keychain, chal, index, backup, hurt>>
    BY DEF PersistMeta
  <1>4. ASSUME NEW m \in Name PROVE Fine(m)'
    <2>1. Fine(m)
      BY <1>1 DEF UInv, IndexOK
    <2>2. CASE meta'[m] = meta[m]
      BY <1>3, <2>1, <2>2, FineKeeps
    <2>3. CASE meta'[m] # meta[m]
      <3>1. m = n /\ meta'[n] = op.key /\ index[n].key \in {0, op.key}
        BY <1>1, <1>2, <2>3 DEF PersistMeta, Parts
      <3>2. Usable(m) => Usable(m)' \/ index[m].key = 0
        BY <1>3, <3>1 DEF Usable, Unlocks, Whole, Held
      <3> QED
        BY <1>3, <2>1, <3>2, ExcuseLasts DEF Fine
    <2> QED
      BY <2>2, <2>3
  <1>5. \A m \in Name : Halves(m, keychain'[m]) \subseteq hurt'
    BY <1>1, <1>3 DEF UInv, KeychainOK
  <1>6. CASE op' = NoOp
    BY <1>4, <1>5, <1>6, EndU
  <1>7. CASE op' # NoOp
    <2>1. Goto("entry") /\ meta' = [meta EXCEPT ![n] = op.key]
      BY <1>7 DEF PersistMeta
    <2>2. /\ op'.pc = "entry" /\ op'.kind = "one" /\ op'.backend = op.backend
          /\ op'.cur = n /\ op'.key = op.key
      BY <1>1, <1>2, <2>1, GotoOK DEF Label
    <2>3. meta'[n] = op.key
      BY <1>1, <1>2, <2>1 DEF Parts
    <2>4. InStore(op.cur, op.key)'
      BY <1>1, <1>3, <2>2 DEF InStore, Held
    <2>5. OneOK' /\ ArchiveOK' /\ AllOK'
      BY <2>2, <2>3, <2>4 DEF OneOK, ArchiveOK, AllOK
    <2>6. KeychainOK' /\ IndexOK'
      BY <1>4, <1>5 DEF KeychainOK, IndexOK, Halves
    <2> QED
      BY <2>5, <2>6 DEF UInv
  <1> QED
    BY <1>6, <1>7

\* The entry comes last.
LEMMA PersistEntryU == ASSUME IInv, UInv, PersistEntry PROVE UInv'
  <1> DEFINE n == op.cur
  <1>1. /\ op.pc = "entry" /\ op.kind = "one" /\ n \in Name /\ op.key \in Key
        /\ InStore(n, op.key) /\ meta[n] = op.key
        /\ n \in HWName => chal[n] = op.key
    BY DEF PersistEntry, At, IInv, OpOK, ImportOK, UInv, OneOK
  <1>2. Parts
    BY Unfold
  <1>3. op' = NoOp /\ UNCHANGED <<files, keychain, chal, meta, hurt>>
    BY DEF PersistEntry
  <1>4. /\ index'[n] = [key |-> op.key, backend |-> op.backend]
        /\ \A m \in Name : m # n => index'[m] = index[m]
    BY <1>1, <1>2 DEF PersistEntry, Parts
  <1>5. ASSUME NEW m \in Name PROVE Fine(m)'
    <2>1. CASE m # n
      BY <1>1, <1>3, <1>4, <2>1, FineKeeps DEF UInv, IndexOK
    <2>2. CASE m = n /\ Held(op.backend, n) = Full(op.key)
      <3>1. index'[m].key = op.key /\ index'[m].backend = op.backend
        BY <1>4, <2>2
      <3>2. Held(op.backend, m) = Full(op.key) /\ meta'[m] = op.key /\ (m \in HWName => chal'[m] = op.key)
        BY <1>1, <1>3, <2>2
      <3> QED
        BY <1>3, <3>1, <3>2 DEF Fine, Usable, Unlocks, Whole, Held
    <2>3. CASE m = n /\ <<n, "torn">> \in hurt
      <3>1. <<m, "torn">> \in hurt'
        BY <1>3, <2>3
      <3> QED
        BY <3>1, TornExcusesNext DEF Fine
    <2> QED
      BY <1>1, <2>1, <2>2, <2>3 DEF InStore
  <1>6. \A m \in Name : Halves(m, keychain'[m]) \subseteq hurt'
    BY <1>1, <1>3 DEF UInv, KeychainOK
  <1> QED
    BY <1>3, <1>5, <1>6, EndU

LEMMA UnlistU == ASSUME IInv, UInv, Unlist PROVE UInv'
  <1> DEFINE n == op.cur
  <1>1. op.pc = "unlist" /\ op.kind = "delete" /\ n \in Name
    BY DEF Unlist, At, IInv, OpOK
  <1>2. Parts /\ op \in Op
    BY Unfold
  <1>3. op'.pc = "clear" /\ op'.kind = "delete" /\ op'.cur = n
    BY <1>1, <1>2, GotoOK DEF Unlist, Label
  <1>4. UNCHANGED <<files, keychain, chal, meta, hurt>>
    BY DEF Unlist
  <1>5. index'[n].key = 0 /\ \A m \in Name : m # n => index'[m] = index[m]
    BY <1>1, <1>2 DEF Unlist, Parts, NoEntry
  <1>6. ASSUME NEW m \in Name PROVE Fine(m)'
    <2>1. CASE m = n
      BY <1>5, <2>1 DEF Fine
    <2>2. CASE m # n
      BY <1>1, <1>4, <1>5, <2>2, FineKeeps DEF UInv, IndexOK
    <2> QED
      BY <2>1, <2>2
  <1>7. KeychainOK'
    BY <1>1, <1>4 DEF UInv, KeychainOK, Halves
  <1>8. OneOK' /\ ArchiveOK' /\ AllOK'
    BY <1>3, <1>5 DEF OneOK, ArchiveOK, AllOK
  <1> QED
    BY <1>6, <1>7, <1>8 DEF UInv, IndexOK

LEMMA ClearKeysU == ASSUME IInv, UInv, ClearKeys PROVE UInv'
  <1> DEFINE n == op.cur
  <1>1. op.pc = "clear" /\ op.kind = "delete" /\ n \in Name /\ index[n].key = 0
    BY DEF ClearKeys, At, IInv, OpOK, UInv, OneOK
  <1>2. Parts /\ op \in Op /\ op.backend \in Backend
    BY Unfold
  <1>3. op'.pc = "unmeta" /\ op'.kind = "delete" /\ op'.cur = n
    BY <1>1, <1>2, GotoOK DEF ClearKeys, Label
  <1>4. /\ op.backend = "file" => files'[n] = NoKeys /\ keychain' = keychain
        /\ op.backend = "keychain" => keychain'[n] = NoKeys /\ files' = files
        /\ \A m \in Name : m # n => files'[m] = files[m] /\ keychain'[m] = keychain[m]
    BY <1>1, <1>2, NoKeysType, PutHeld DEF ClearKeys
  <1>5. /\ UNCHANGED <<meta, index, hurt>>
        /\ \A m \in Name : m # n => chal'[m] = chal[m]
    BY <1>1, <1>2 DEF ClearKeys, Parts
  <1>6. ASSUME NEW m \in Name PROVE Fine(m)'
    <2>1. CASE m = n
      BY <1>1, <1>5, <2>1 DEF Fine
    <2>2. CASE m # n
      BY <1>1, <1>4, <1>5, <2>2, FineKeeps DEF UInv, IndexOK
    <2> QED
      BY <2>1, <2>2
  <1>7. KeychainOK'
    <2>1. \A m \in Name : Halves(m, keychain'[m]) \subseteq hurt
      BY <1>1, <1>2, <1>4, NoKeysType DEF UInv, KeychainOK, Backend
    <2> QED
      BY <1>5, <2>1 DEF KeychainOK, Halves
  <1>8. OneOK' /\ ArchiveOK' /\ AllOK'
    BY <1>1, <1>3, <1>5 DEF OneOK, ArchiveOK, AllOK
  <1> QED
    BY <1>6, <1>7, <1>8 DEF UInv, IndexOK

LEMMA RemoveMetaU == ASSUME IInv, UInv, RemoveMeta PROVE UInv'
  <1> DEFINE n == op.cur
  <1>1. op.pc = "unmeta" /\ op.kind = "delete" /\ n \in Name /\ index[n].key = 0
    BY DEF RemoveMeta, At, IInv, OpOK, UInv, OneOK
  <1>2. Parts
    BY Unfold
  <1>3. /\ op' = NoOp /\ UNCHANGED <<files, keychain, chal, index, hurt>>
        /\ \A m \in Name : m # n => meta'[m] = meta[m]
    BY <1>1, <1>2 DEF RemoveMeta, Parts
  <1>4. ASSUME NEW m \in Name PROVE Fine(m)'
    <2>1. CASE m = n
      BY <1>1, <1>3, <2>1 DEF Fine
    <2>2. CASE m # n
      BY <1>1, <1>3, <2>2, FineKeeps DEF UInv, IndexOK
    <2> QED
      BY <2>1, <2>2
  <1>5. \A m \in Name : Halves(m, keychain'[m]) \subseteq hurt'
    BY <1>1, <1>3 DEF UInv, KeychainOK
  <1> QED
    BY <1>3, <1>4, <1>5, EndU

-----------------------------------------------------------------------------
(* Failures and kills.                                                      *)

\* A step that stops spoils no indexed identity without an excuse.
LEMMA LeaveRemainsU ==
    ASSUME IInv, UInv, NEW held \in Remains, LeaveRemains(held), UNCHANGED <<chal, meta, index>>,
           hurt \cup Halves(op.cur, held) \subseteq hurt'
    PROVE  /\ \A n \in Name : Halves(n, keychain'[n]) \subseteq hurt'
           /\ op.kind # "profile" => \A n \in Name : Fine(n)'
  <1>1. Parts /\ op.cur \in Name \cup {NoName} /\ NoName \notin Name /\ op.backend \in Backend
    BY Unfold, LocalInstallAssumption
  <1>2. ASSUME UNCHANGED <<files, keychain>>, op.pc # "sign"
        PROVE  /\ \A n \in Name : Halves(n, keychain'[n]) \subseteq hurt'
               /\ op.kind # "profile" => \A n \in Name : Fine(n)'
    <2>1. \A n \in Name : Halves(n, keychain'[n]) \subseteq hurt'
      BY <1>2 DEF UInv, KeychainOK
    <2>2. op.kind # "profile" => \A n \in Name : Fine(n)'
      BY <1>2, FineKeeps DEF UInv, IndexOK
    <2> QED
      BY <2>1, <2>2
  <1>3. CASE op.cur = NoName
    <2>1. files' = files /\ keychain' = keychain
      BY <1>3 DEF LeaveRemains
    <2>2. op.pc # "sign"
      BY <1>1, <1>3 DEF IInv, OpOK
    <2> QED
      BY <1>2, <2>1, <2>2
  <1>4. CASE op.cur \in Name
    <2> DEFINE n == op.cur
    <2>1. held \in Stored /\ Put(op.backend, n, held)
      BY <1>1, <1>4, RemainsOf DEF LeaveRemains
    <2>2. /\ op.backend = "file" => files'[n] = held /\ keychain' = keychain
          /\ op.backend = "keychain" => keychain'[n] = held /\ files' = files
          /\ \A m \in Name : m # n => files'[m] = files[m] /\ keychain'[m] = keychain[m]
      BY <1>1, <1>4, <2>1, PutHeld
    <2>3. \A m \in Name : Halves(m, keychain'[m]) \subseteq hurt'
      <3> TAKE m \in Name
      <3>1. CASE op.backend = "keychain" /\ m = n
        BY <2>2, <3>1
      <3>2. CASE ~(op.backend = "keychain" /\ m = n)
        <4>1. keychain'[m] = keychain[m]
          BY <1>1, <2>2, <3>2 DEF Backend
        <4> QED
          BY <3>2, <4>1 DEF UInv, KeychainOK
      <3> QED
        BY <3>1, <3>2
    <2>4. ASSUME op.kind # "profile", NEW m \in Name PROVE Fine(m)'
      <3>1. Fine(m)
        BY <2>4 DEF UInv, IndexOK
      <3>2. CASE op.pc \in {"enc", "sign"}
        <4>1. op.kind = "one"
          BY <2>4, <3>2, Unfold DEF IInv, OpOK
        <4> QED
          BY <1>4, <2>1, <3>2, <4>1, StoreKeepsFine
      <3>3. CASE op.pc = "clear"
        <4>1. index[n].key = 0
          BY <3>3 DEF UInv, OneOK
        <4>2. CASE m = n
          BY <4>1, <4>2 DEF Fine
        <4>3. CASE m # n
          BY <2>2, <3>1, <4>3, FineKeeps
        <4> QED
          BY <4>2, <4>3
      <3>4. CASE op.pc \notin {"enc", "sign", "clear"}
        <4>1. held = Held(op.backend, n)
          BY <1>4, <3>4, RemainsOf
        <4>2. files'[m] = files[m] /\ keychain'[m] = keychain[m]
          BY <1>1, <2>2, <4>1 DEF Held, Backend
        <4> QED
          BY <3>1, <4>2, FineKeeps
      <3> QED
        BY <3>2, <3>3, <3>4
    <2> QED
      BY <2>3, <2>4
  <1> QED
    BY <1>1, <1>3, <1>4

LEMMA KilledU == ASSUME IInv, UInv, Killed PROVE UInv'
  <1>1. PICK held \in Remains :
          /\ LeaveRemains(held)
          /\ hurt' = hurt \cup Halves(op.cur, held)
                          \cup (IF op.kind = "profile" THEN Name \X {"killed"} ELSE {})
    BY DEF Killed
  <1>2. /\ \A n \in Name : Halves(n, keychain'[n]) \subseteq hurt'
        /\ op.kind # "profile" => \A n \in Name : Fine(n)'
    BY <1>1, LeaveRemainsU DEF Killed
  <1>3. op.kind = "profile" => \A n \in Name : Fine(n)'
    <2> SUFFICES ASSUME op.kind = "profile", NEW n \in Name PROVE Fine(n)'
      OBVIOUS
    <2>1. <<n, "killed">> \in hurt'
      BY <1>1
    <2> QED
      BY <2>1 DEF Fine, Excuse, Whys
  <1>4. op' = NoOp
    BY DEF Killed
  <1> QED
    BY <1>2, <1>3, <1>4, EndU

LEMMA StepFailsU == ASSUME IInv, UInv, StepFails PROVE UInv'
  <1>1. PICK held \in Remains : LeaveRemains(held) /\ hurt' = hurt \cup Halves(op.cur, held)
    BY DEF StepFails
  <1>2. /\ \A n \in Name : Halves(n, keychain'[n]) \subseteq hurt'
        /\ op.kind # "profile" => \A n \in Name : Fine(n)'
    BY <1>1, LeaveRemainsU DEF StepFails
  <1>3. CASE op.kind = "profile"
    <2>1. op'.kind = "profile" /\ op'.pc = "restoreKeys" /\ op'.before = op.before
      BY <1>3, Unfold DEF StepFails, Op
    <2>2. IndexOK' /\ OneOK' /\ AllOK'
      BY <2>1 DEF IndexOK, OneOK, AllOK
    <2>3. ArchiveOK'
      BY <1>1, <1>3, <2>1, ArchiveKeeps DEF UInv
    <2>4. KeychainOK'
      BY <1>2 DEF KeychainOK, Halves
    <2> QED
      BY <2>2, <2>3, <2>4 DEF UInv
  <1>4. CASE op.kind # "profile"
    BY <1>2, <1>4, EndU DEF StepFails
  <1> QED
    BY <1>3, <1>4

\* Who had an identity's challenge torn has a reason for it; without a key there the
\* identity did not open before.
LEMMA ChallengeTornU ==
    ASSUME IInv, UInv, NEW killed \in BOOLEAN, ChallengeTorn(killed) PROVE UInv'
  <1>1. Parts /\ op \in Op
    BY Unfold
  <1>2. /\ op.pc = "check" /\ op.kind \in {"profile", "one"} /\ op.cur \in Name
        /\ hurt \subseteq hurt' /\ UNCHANGED <<files, keychain, meta, index>>
    BY TornChallenge DEF ChallengeTorn
  <1>3. \A n \in Name : Halves(n, keychain'[n]) \subseteq hurt'
    BY <1>2 DEF UInv, KeychainOK
  <1>4. CASE op' # NoOp
    <2>1. op.kind = "profile" /\ op'.kind = "profile" /\ op'.pc = "restoreKeys" /\ op'.before = op.before
      BY <1>1, <1>4 DEF ChallengeTorn, Op
    <2>2. IndexOK' /\ OneOK' /\ AllOK'
      BY <2>1 DEF IndexOK, OneOK, AllOK
    <2>3. ArchiveOK'
      BY <1>2, <2>1, ArchiveKeeps DEF UInv
    <2>4. KeychainOK'
      BY <1>3 DEF KeychainOK, Halves
    <2> QED
      BY <2>2, <2>3, <2>4 DEF UInv
  <1>5. CASE op' = NoOp /\ op.kind = "profile"
    <2>1. killed
      <3> SUFFICES ASSUME ~killed PROVE op'.kind = "profile"
        BY <1>5, NoOpType
      <3> QED
        BY <1>1, <1>5 DEF ChallengeTorn, Op
    <2>2. \A n \in Name : <<n, "killed">> \in hurt'
      BY <1>5, <2>1 DEF ChallengeTorn
    <2>3. \A n \in Name : Fine(n)'
      BY <2>2 DEF Fine, Excuse, Whys
    <2> QED
      BY <1>3, <1>5, <2>3, EndU
  <1>6. CASE op' = NoOp /\ op.kind = "one"
    <2>1. ASSUME NEW m \in Name PROVE Fine(m)'
      <3>1. Fine(m)
        BY <1>6 DEF UInv, IndexOK
      <3>2. CASE m # op.cur
        BY <1>2, <3>1, <3>2, TornChallenge, FineKeeps
      <3>3. CASE m = op.cur /\ chal[m] \in Key
        <4>1. <<m, "tornChallenge">> \in hurt'
          BY <3>3, TornChallenge
        <4> QED
          BY <4>1 DEF Fine, Excuse, Whys
      <3>4. CASE m = op.cur /\ chal[m] \notin Key
        <4>1. index[m].key # 0 => ~Usable(m)
          BY <1>1, <3>4 DEF ChallengeTorn, Usable, Unlocks, Whole, Parts, IndexEntry
        <4>2. Excuse(m) => Excuse(m)'
          BY <1>2, ExcuseLasts
        <4> QED
          BY <1>2, <3>1, <4>1, <4>2 DEF Fine
      <3> QED
        BY <3>2, <3>3, <3>4
    <2> QED
      BY <1>3, <1>6, <2>1, EndU
  <1> QED
    BY <1>2, <1>4, <1>5, <1>6

-----------------------------------------------------------------------------
LEMMA StutterU == ASSUME UInv, UNCHANGED vars PROVE UInv'
  <1> USE DEF vars, install
  <1>1. IndexOK'
    BY FineKeeps DEF UInv, IndexOK
  <1>2. ArchiveOK'
    BY ArchiveKeeps DEF UInv, ArchiveOK
  <1>3. KeychainOK'
    BY DEF UInv, KeychainOK, Halves
  <1>4. OneOK'
    BY DEF UInv, OneOK, InStore, Held, Excuse
  <1>5. AllOK'
    BY DEF UInv, AllOK, InStore, Held
  <1> QED
    BY <1>1, <1>2, <1>3, <1>4, <1>5 DEF UInv

LEMMA NextU == IInv /\ UInv /\ [Next]_vars => UInv'
  <1> SUFFICES ASSUME IInv, UInv, [Next]_vars PROVE UInv'
    OBVIOUS
  <1>1. CASE UserStep
    BY <1>1, ExportProfileU, UnlockU, BeginImportU, BeginOneU, BeginDeleteU DEF UserStep, Key
  <1>2. CASE OpStep
    <2>1. CASE \E n \in Name, stops \in BOOLEAN : WipeKeys(n, stops)
      <3>1. PICK n \in Name, stops \in BOOLEAN : WipeKeys(n, stops)
        BY <2>1
      <3> QED
        BY <3>1, WipeKeysU
    <2>2. CASE \E left \in SUBSET {"chal", "meta", "index", "contacts"} : WipeFiles(left)
      BY <2>2, WipeFilesU
    <2>3. CASE \E fails \in BOOLEAN : RestoreKeys(fails)
      BY <2>3, RestoreKeysU
    <2>4. CASE \E left \in SUBSET {"meta", "index", "rest"} : RestoreRest(left)
      BY <2>4, RestoreRestU
    <2>5. CASE \/ ApplyImportedConfig \/ NextIdentity \/ CheckKeys \/ StoreEncryptionIdentity
               \/ StoreSigningKey \/ WriteMeta \/ SaveIndex \/ FinishImport
      BY <2>5, ApplyImportedConfigU, NextIdentityU, CheckKeysU, StoreEncryptionIdentityU,
         StoreSigningKeyU, WriteMetaU, SaveIndexU, FinishImportU
    <2>6. CASE Reconcile \/ PersistMeta \/ PersistEntry \/ Unlist \/ ClearKeys \/ RemoveMeta
      BY <2>6, ReconcileU, PersistMetaU, PersistEntryU, UnlistU, ClearKeysU, RemoveMetaU
    <2> QED
      BY <1>2, <2>1, <2>2, <2>3, <2>4, <2>5, <2>6 DEF OpStep
  <1>3. CASE StepFails
    BY <1>3, StepFailsU
  <1>4. CASE Killed
    BY <1>4, KilledU
  <1>5. CASE \E killed \in BOOLEAN : ChallengeTorn(killed)
    BY <1>5, ChallengeTornU
  <1>6. CASE UNCHANGED vars
    BY <1>6, StutterU
  <1> QED
    BY <1>1, <1>2, <1>3, <1>4, <1>5, <1>6 DEF Next

\* Every identity in the index opens, whatever step of an import of one identity or of
\* a deletion fails or is the last one, but for what is known to have cost it its keys.
THEOREM IndexedOpens == Spec => []IndexedIsUsable
  <1>1. UInv => IndexedIsUsable
    BY DEF UInv, IndexOK, Fine, Excuse, IndexedIsUsable, Indexed
  <1>2. Spec => []UInv
    BY InitU, NextU, Invariance, PTL DEF Spec
  <1> QED
    BY <1>1, <1>2, PTL

=============================================================================
