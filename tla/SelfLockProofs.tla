--------------------------- MODULE SelfLockProofs ---------------------------
(* Proofs about SelfLock, for every set of devices, keys, entries and       *)
(* settings and any number of failures: types, that no list in the cloud is *)
(* emptied, that a fresh device's settings do not win, that a copy sealed   *)
(* to another key is replaced only with approval or by the compaction of a  *)
(* device past it, and that the idle check of the settings is right.        *)
(* Three invariants: IInv says what copies, positions and runs are; LogInv, *)
(* about the contacts' log, that a position which knows the snapshot's      *)
(* version is past its through-seq; LevelInv is about the settings.         *)
EXTENDS SelfLock, TLAPS

(* What a copy of r is: one value of the settings, or a set of entries.     *)
DataOf(r) == IF r = "settings" THEN {{v} : v \in Value} ELSE SUBSET Item

RunType == [pc : Label, rekey : BOOLEAN, todo : SUBSET Resource,
            probe : SUBSET Resource, approve : SUBSET Resource,
            need : SUBSET Resource, ver : [Resource -> Nat],
            through : Nat, head : Nat, pos : Pos,
            cur : Resource \cup {"none"}, src : Data, at : Nat,
            tries : 0..mergeBlobMaxAttempts]

ServerOK ==
    /\ blob \in [Resource -> [ver : Nat, key : Key, data : Data]]
    /\ \A r \in Resource : IF blob[r].ver = 0 THEN blob[r].data = {} ELSE blob[r].data \in DataOf(r)
    /\ through \in Nat
    /\ head \in Nat
    /\ ops \subseteq [seq : 1..head, key : Key, data : SUBSET Item]

DeviceOK ==
    /\ key \in [Device -> Key]
    /\ local \in [Device -> [Resource -> Data]]
    /\ \A d \in Device, r \in Resource : local[d][r] \in DataOf(r)
    /\ shadow \in [Device -> (SUBSET Item) \cup {NoShadow}]
    /\ saved \in [Device -> Pos]
    /\ pending \in [Device -> SUBSET Resource]
    /\ behind \in [Device -> BOOLEAN]
    /\ events \in 0..MaxEvents

(* What the label of a run says about it, b being the settings in the cloud *)
(* and k the device's key.                                                  *)
PushFits(w, b, k) ==
    w.pc = "push" =>
        /\ w.src \in DataOf("settings")
        /\ w.at <= b.ver
        /\ w.at = b.ver /\ w.at # 0 => b.key = k
        /\ w.at # 0 => w.pos.ver # 0

PullFits(w, b) == w.pc = "pull" => w.at # 0 /\ w.at <= b.ver

ResealFits(w) ==
    w.pc = "reseal" =>
        /\ w.cur \in Resource
        /\ w.src \in DataOf(w.cur)
        /\ w.rekey = TRUE \/ w.cur \in w.approve
        /\ w.cur = "settings" => w.pos.digest # NoDigest

RekeyFits(w) == w.rekey = TRUE /\ "settings" \in w.todo => w.pos.digest # NoDigest

RunFits(w, b, k) == PushFits(w, b, k) /\ PullFits(w, b) /\ ResealFits(w) /\ RekeyFits(w)

RunsOK ==
    /\ run \in [Device -> RunType]
    /\ \A d \in Device : RunFits(run[d], blob["settings"], key[d])

IInv == ServerOK /\ DeviceOK /\ RunsOK

-----------------------------------------------------------------------------
\* The strengthened invariant contains the type invariant.
LEMMA TypeFollows == IInv => TypeOK
<1>1. SUFFICES ASSUME IInv PROVE TypeOK
  OBVIOUS
<1>2. \A d \in Device : \E v \in Value : local[d]["settings"] = {v}
  BY <1>1 DEF IInv, DeviceOK, DataOf, Resource
<1>3. \A d \in Device : shadow[d] = NoShadow \/ shadow[d] \in SUBSET Item
  BY <1>1 DEF IInv, DeviceOK
<1>4. QED
  BY <1>1, <1>2, <1>3 DEF IInv, ServerOK, DeviceOK, RunsOK, TypeOK, RunType

\* A run that is idle, or has nothing under way, fits anything.
LEMMA NoRunOK == NoRun \in RunType /\ \A b, k : RunFits(NoRun, b, k)
<1>1. NoPos \in Pos
  BY DEF NoPos, Pos
<1>2. [r \in Resource |-> 0] \in [Resource -> Nat]
  OBVIOUS
<1>3. 0 \in 0..mergeBlobMaxAttempts
  BY SelfLockAssumption
<1>4. NoRun \in RunType
  BY <1>1, <1>2, <1>3 DEF NoRun, RunType, Label, Data
<1>5. QED
  BY <1>4 DEF NoRun, RunFits, PushFits, PullFits, ResealFits, RekeyFits

\* What Done keeps.
LEMMA DoneOK ==
    ASSUME NEW w \in RunType, NEW r \in Resource
    PROVE  /\ Done(w, r) \in RunType
           /\ Done(w, r).pc = "sync"
           /\ Done(w, r).rekey = w.rekey
           /\ Done(w, r).todo = w.todo \ {r}
           /\ Done(w, r).pos = w.pos
<1>1. [w.ver EXCEPT ![r] = 0] \in [Resource -> Nat]
  BY DEF RunType
<1>2. 0 \in 0..mergeBlobMaxAttempts
  BY SelfLockAssumption
<1>3. Done(w, r).pc = "sync" /\ Done(w, r).rekey = w.rekey /\ Done(w, r).todo = w.todo \ {r} /\ Done(w, r).pos = w.pos
  BY DEF Done, RunType
<1>4. Done(w, r) \in RunType
  <2> DEFINE t == [w EXCEPT !.pc = "sync", !.todo = @ \ {r}, !.probe = @ \ {r},
                            !.approve = @ \ {r}]
             u == [t EXCEPT !.ver[r] = 0]
             h == [u EXCEPT !.through = IF r = "contacts" THEN 0 ELSE @,
                            !.head = IF r = "contacts" THEN 0 ELSE @]
             n == [h EXCEPT !.cur = "none", !.src = {}, !.at = 0, !.tries = 0]
  <2>6. Done(w, r) = n
    BY DEF Done
  <2>1. t \in RunType
    BY DEF RunType, Label
  <2> HIDE DEF t
  <2>2. u \in RunType
    BY <2>1 DEF RunType
  <2> HIDE DEF u
  <2>4. h \in RunType
    BY <2>2 DEF RunType
  <2> HIDE DEF h
  <2>5. n \in RunType
    BY <2>4, <1>2 DEF RunType, Data
  <2>7. QED
    BY <2>5, <2>6
<1>5. QED
  BY <1>3, <1>4

\* So a run that is done with r fits if it did before.
LEMMA DoneFits ==
    ASSUME NEW w \in RunType, NEW r \in Resource, RekeyFits(w)
    PROVE  \A b, k : RunFits(Done(w, r), b, k)
BY DoneOK DEF RunFits, PushFits, PullFits, ResealFits, RekeyFits

LEMMA ToResealOK ==
    ASSUME IInv, NEW d \in Device, NEW r \in Resource,
           NEW w \in RunType, RekeyFits(w),
           w.rekey = TRUE \/ r \in w.approve,
           r = "settings" => w.pos.digest # NoDigest
    PROVE  /\ ToReseal(w, d, r) \in RunType
           /\ \A b, k : RunFits(ToReseal(w, d, r), b, k)
<1> DEFINE t == ToReseal(w, d, r)
<1>1. w \in RunType /\ RekeyFits(w)
  OBVIOUS
<1>2. local[d][r] \in Data /\ local[d][r] \in DataOf(r)
  BY DEF IInv, DeviceOK
<1>3. w.ver[r] \in Nat /\ 0 \in 0..mergeBlobMaxAttempts
  BY <1>1, SelfLockAssumption DEF RunType
<1>4. t \in RunType
  BY <1>1, <1>2, <1>3 DEF ToReseal, RunType, Label
<1>5. /\ t.pc = "reseal" /\ t.cur = r /\ t.src = local[d][r] /\ t.rekey = w.rekey
      /\ t.approve = w.approve /\ t.todo = w.todo /\ t.pos = w.pos
  BY <1>1 DEF ToReseal, RunType
<1> HIDE DEF t
<1>6. QED
  BY <1>1, <1>2, <1>4, <1>5 DEF RunFits, PushFits, PullFits, ResealFits, RekeyFits, t

\* What a run that comes to an orphaned resource does next.
LEMMA RecoverOrphanOK ==
    ASSUME IInv, NEW d \in Device, NEW r \in Resource,
           NEW w \in RunType, RekeyFits(w), RecoverOrphan(w, d, r)
    PROVE  \E t \in RunType : /\ run' = [run EXCEPT ![d] = t]
                              /\ \A b, k : RunFits(t, b, k)
                              /\ t.pc \in {"sync", "reseal"} /\ t.pos = w.pos
                              /\ t.pc = "sync" => r \notin t.todo
                              /\ t.pc = "reseal" => t.cur = r
<1>2. /\ Done(w, r) \in RunType
      /\ \A b, k : RunFits(Done(w, r), b, k)
      /\ Done(w, r).pc = "sync" /\ Done(w, r).pos = w.pos /\ r \notin Done(w, r).todo
  BY DoneOK, DoneFits
<1>3. CASE ~CanRecover(w, d, r)
  <2>1. run' = [run EXCEPT ![d] = Done(w, r)]
    BY <1>3 DEF RecoverOrphan
  <2>2. QED
    BY <1>2, <2>1
<1>4. CASE CanRecover(w, d, r) /\ r \notin w.approve
  <2> DEFINE t == [Done(w, r) EXCEPT !.need = w.need \cup {r}]
  <2>1. run' = [run EXCEPT ![d] = t]
    BY <1>4 DEF RecoverOrphan
  <2>2. t \in RunType
    BY <1>2 DEF RunType
  <2>3. /\ t.pc = "sync" /\ t.rekey = Done(w, r).rekey /\ t.todo = Done(w, r).todo
        /\ t.pos = Done(w, r).pos
    BY <1>2 DEF RunType
  <2> HIDE DEF t
  <2>4. \A b, k : RunFits(t, b, k)
    BY <1>2, <2>3 DEF RunFits, PushFits, PullFits, ResealFits, RekeyFits
  <2>5. QED
    BY <1>2, <2>1, <2>2, <2>3, <2>4
<1>5. CASE CanRecover(w, d, r) /\ r \in w.approve
  <2> DEFINE t == ToReseal(w, d, r)
  <2>1. run' = [run EXCEPT ![d] = t]
    BY <1>5 DEF RecoverOrphan
  <2>2. r = "settings" => w.pos.digest # NoDigest
    BY <1>5 DEF CanRecover
  <2>3. t \in RunType /\ \A b, k : RunFits(t, b, k)
    BY <2>2, <1>5, ToResealOK
  <2>4. t.pc = "reseal" /\ t.cur = r /\ t.pos = w.pos
    BY DEF ToReseal, RunType
  <2> HIDE DEF t
  <2>5. QED
    BY <2>1, <2>3, <2>4
<1>6. QED
  BY <1>3, <1>4, <1>5

\* The other devices' runs are not disturbed: the version of the settings in the
\* cloud only grows, and their keys are their own.
LEMMA RunsKeep ==
    ASSUME IInv, NEW d \in Device, NEW w \in RunType, run' = [run EXCEPT ![d] = w],
           RunFits(w, blob'["settings"], key'[d]),
           \A e \in Device \ {d} : key'[e] = key[e],
           \/ blob'["settings"] = blob["settings"]
           \/ blob'["settings"].ver = blob["settings"].ver + 1
    PROVE  RunsOK'
<1>1. run' \in [Device -> RunType]
  BY DEF IInv, RunsOK
<1>2. \A e \in Device \ {d} : RunFits(run'[e], blob'["settings"], key'[e])
  <2> TAKE e \in Device \ {d}
  <2>1. run'[e] = run[e] /\ run[e] \in RunType /\ RunFits(run[e], blob["settings"], key[e])
    BY DEF IInv, RunsOK
  <2>2. blob["settings"].ver \in Nat /\ run[e].at \in Nat
    BY <2>1 DEF IInv, ServerOK, Resource, RunType
  <2>3. PushFits(run[e], blob'["settings"], key'[e])
    BY <2>1, <2>2 DEF RunFits, PushFits
  <2>4. PullFits(run[e], blob'["settings"])
    BY <2>1, <2>2 DEF RunFits, PullFits
  <2>5. QED
    BY <2>1, <2>3, <2>4 DEF RunFits
<1>3. run'[d] = w
  BY DEF IInv, RunsOK
<1>4. QED
  BY <1>1, <1>2, <1>3 DEF RunsOK

\* A step that changes only d's run.
LEMMA RunOnly ==
    ASSUME IInv, NEW d \in Device, NEW w \in RunType, run' = [run EXCEPT ![d] = w],
           RunFits(w, blob["settings"], key[d]),
           UNCHANGED <<server, key, local, shadow, saved, pending, behind>>,
           events' \in 0..MaxEvents
    PROVE  IInv'
<1>1. ServerOK'
  BY DEF IInv, ServerOK, server
<1>2. DeviceOK'
  BY DEF IInv, DeviceOK
<1>3. RunsOK'
  <2>1. /\ RunFits(w, blob'["settings"], key'[d])
        /\ \A e \in Device \ {d} : key'[e] = key[e]
        /\ blob'["settings"] = blob["settings"]
    BY DEF server
  <2>2. QED
    BY <2>1, RunsKeep
<1>4. QED
  BY <1>1, <1>2, <1>3 DEF IInv

\* What is known of a run under way.
LEMMA RunFacts ==
    ASSUME IInv, NEW d \in Device
    PROVE  /\ run[d] \in RunType
           /\ RunFits(run[d], blob["settings"], key[d])
           /\ RekeyFits(run[d])
BY DEF IInv, RunsOK, RunFits

LEMMA EventOK == IInv /\ Event => events' \in 0..MaxEvents
BY SelfLockAssumption DEF IInv, DeviceOK, Event

LEMMA DoneOnly ==
    ASSUME IInv, NEW d \in Device, NEW r \in Resource, run' = [run EXCEPT ![d] = Done(run[d], r)],
           UNCHANGED <<server, key, local, shadow, saved, pending, behind>>,
           events' \in 0..MaxEvents
    PROVE  IInv'
BY RunFacts, DoneOK, DoneFits, RunOnly

LEMMA NoRunOnly ==
    ASSUME IInv, NEW d \in Device, run' = [run EXCEPT ![d] = NoRun],
           UNCHANGED <<server, key, local, shadow, saved, pending, behind>>,
           events' \in 0..MaxEvents
    PROVE  IInv'
BY NoRunOK, RunOnly

LEMMA RecoverOnly ==
    ASSUME IInv, NEW d \in Device, NEW r \in Resource, RecoverOrphan(run[d], d, r),
           UNCHANGED <<server, key, local, shadow, saved, pending, behind, events>>
    PROVE  IInv'
<1>1. PICK w \in RunType : run' = [run EXCEPT ![d] = w] /\ \A b, k : RunFits(w, b, k)
  BY RecoverOrphanOK, RunFacts
<1>2. events' \in 0..MaxEvents
  BY DEF IInv, DeviceOK
<1>3. QED
  BY <1>1, <1>2, RunOnly

LEMMA InitInv == Init => IInv
<1>1. SUFFICES ASSUME Init PROVE IInv
  OBVIOUS
<1>2. \A S \in SUBSET Item : /\ Copy(S) \in [Resource -> Data]
                             /\ \A r \in Resource : Copy(S)[r] \in DataOf(r)
  <2> TAKE S \in SUBSET Item
  <2>1. {Default} \in DataOf("settings") /\ {Default} \in Data
    BY SelfLockAssumption DEF DataOf, Data
  <2>2. \A r \in Resource \ {"settings"} : S \in DataOf(r)
    BY DEF DataOf
  <2>3. S \in Data
    BY DEF Data
  <2>4. QED
    BY <2>1, <2>2, <2>3 DEF Copy
<1>3. ServerOK
  <2>1. CASE blob = [r \in Resource |-> [ver |-> 0, key |-> FirstKey, data |-> {}]]
    BY <1>1, <2>1, SelfLockAssumption DEF Init, ServerOK, Data
  <2>2. CASE blob = [r \in Resource |-> [ver |-> 1, key |-> FirstKey, data |-> Copy(Item)[r]]]
    BY <1>1, <1>2, <2>2, SelfLockAssumption DEF Init, ServerOK
  <2>3. QED
    BY <1>1, <2>1, <2>2 DEF Init
<1>4. DeviceOK
  <2>1. \A d \in Device : \E S \in SUBSET Item : local[d] = Copy(S)
    BY <1>1 DEF Init
  <2>2. local \in [Device -> [Resource -> Data]]
    <3>1. DOMAIN local = Device /\ local = [d \in Device |-> local[d]]
      BY <1>1 DEF Init
    <3>2. QED
      BY <3>1, <2>1, <1>2
  <2>3. \A d \in Device, r \in Resource : local[d][r] \in DataOf(r)
    BY <2>1, <1>2
  <2>4. saved \in [Device -> Pos]
    BY <1>1, SelfLockAssumption DEF Init, NoPos, Pos
  <2>5. shadow \in [Device -> (SUBSET Item) \cup {NoShadow}]
    BY <1>1 DEF Init
  <2>6. QED
    BY <1>1, <2>2, <2>3, <2>4, <2>5, SelfLockAssumption DEF Init, DeviceOK
<1>5. RunsOK
  BY <1>1, NoRunOK DEF Init, RunsOK
<1>6. QED
  BY <1>3, <1>4, <1>5 DEF IInv

-----------------------------------------------------------------------------
(* The user and the beginning of a run.                                     *)

LEMMA EditSettingsInv ==
    ASSUME IInv, NEW d \in Device, NEW v \in Value, EditSettings(d, v) PROVE IInv'
<1>1. ServerOK' /\ RunsOK'
  BY DEF EditSettings, IInv, ServerOK, RunsOK, server
<1>2. {v} \in Data /\ {v} \in DataOf("settings") /\ "settings" \in Resource
  BY DEF Data, DataOf, Resource
<1>3. local' = [local EXCEPT ![d]["settings"] = {v}]
  BY DEF EditSettings
<1>4. local' \in [Device -> [Resource -> Data]]
  BY <1>2, <1>3 DEF IInv, DeviceOK
<1>5. \A e \in Device, r \in Resource : local'[e][r] \in DataOf(r)
  BY <1>2, <1>3 DEF IInv, DeviceOK
<1>6. events' \in 0..MaxEvents
  BY EventOK DEF EditSettings
<1>7. behind' \in [Device -> BOOLEAN]
  BY DEF EditSettings, IInv, DeviceOK
<1>8. QED
  BY <1>1, <1>4, <1>5, <1>6, <1>7 DEF EditSettings, IInv, DeviceOK

LEMMA FetchedOK ==
    ASSUME IInv, NEW d \in Device
    PROVE  /\ Fetched(d) \in RunType
           /\ Fetched(d).rekey = FALSE
           /\ Fetched(d).pos = saved[d]
<1>1. [r \in Resource |-> blob[r].ver] \in [Resource -> Nat]
  BY DEF IInv, ServerOK
<1>2. through \in Nat /\ head \in Nat /\ saved[d] \in Pos
  BY DEF IInv, ServerOK, DeviceOK
<1>3. Fetched(d) \in RunType
  BY <1>1, <1>2, NoRunOK DEF Fetched, RunType
<1>4. QED
  BY <1>3 DEF Fetched, NoRun, RunType

LEMMA StartInv ==
    ASSUME IInv, NEW d \in Device, NEW e \in Device, NEW mode \in Mode,
           NEW approve \in SUBSET Resource, Start(d, e, mode, approve)
    PROVE  IInv'
<1> DEFINE p == IF mode.background THEN {} ELSE Resource \ mode.sel
           w == [Fetched(d) EXCEPT !.pc = "sync", !.todo = mode.sel, !.approve = approve,
                             !.probe = p]
<1>1. run' = [run EXCEPT ![d] = w]
  BY DEF Start
<1>2. mode.sel \in SUBSET Resource /\ p \in SUBSET Resource
  BY SelfLockAssumption
<1> HIDE DEF p
<1>10. Fetched(d) \in RunType
  BY FetchedOK
<1>3. w \in RunType
  BY <1>2, <1>10 DEF RunType, Label
<1>4. w.pc = "sync" /\ w.rekey = FALSE
  BY FetchedOK DEF RunType
<1> HIDE DEF w
<1>5. \A b, k : RunFits(w, b, k)
  BY <1>4 DEF RunFits, PushFits, PullFits, ResealFits, RekeyFits
<1>6. ServerOK'
  BY DEF Start, IInv, ServerOK, server
<1>7. DeviceOK'
  BY EventOK DEF Start, IInv, DeviceOK
<1>8. RunsOK'
  <2>1. blob' = blob /\ \A f \in Device \ {d} : key'[f] = key[f]
    BY DEF Start, server, IInv, DeviceOK
  <2>2. QED
    BY <1>1, <1>3, <1>5, <2>1, RunsKeep
<1>9. QED
  BY <1>6, <1>7, <1>8 DEF IInv

LEMMA NewDefaultInv ==
    ASSUME IInv, NEW d \in Device, NEW k \in Key, NEW online \in BOOLEAN, NewDefault(d, k, online)
    PROVE  IInv'
<1> DEFINE t == IF saved[d].digest = NoDigest THEN Resource \ {"settings"} ELSE Resource
           w == [Fetched(d) EXCEPT !.pc = "sync", !.rekey = TRUE, !.todo = t]
           u == IF online THEN w ELSE run[d]
<1>1. run' = [run EXCEPT ![d] = u]
  BY DEF NewDefault, IInv, RunsOK
<1>11. t \in SUBSET Resource /\ ("settings" \in t => saved[d].digest # NoDigest)
  OBVIOUS
<1> HIDE DEF t
<1>12. Fetched(d) \in RunType
  BY FetchedOK
<1>2. w \in RunType
  BY <1>11, <1>12 DEF RunType, Label
<1>3. w.pc = "sync" /\ w.pos = saved[d] /\ w.todo = t
  BY FetchedOK DEF RunType
<1>4. \A b, j : RunFits(w, b, j)
  BY <1>3, <1>11 DEF RunFits, PushFits, PullFits, ResealFits, RekeyFits
<1>5. \A b, j : RunFits(run[d], b, j)
  <2>1. run[d].pc = "idle" /\ RekeyFits(run[d])
    BY RunFacts DEF NewDefault
  <2>2. QED
    BY <2>1 DEF RunFits, PushFits, PullFits, ResealFits, RekeyFits
<1>6. u \in RunType /\ \A b, j : RunFits(u, b, j)
  BY <1>2, <1>4, <1>5, RunFacts
<1> HIDE DEF u
<1>7. ServerOK'
  BY DEF NewDefault, IInv, ServerOK, server
<1>8. DeviceOK'
  BY EventOK DEF NewDefault, IInv, DeviceOK
<1>9. RunsOK'
  <2>1. blob' = blob /\ \A f \in Device \ {d} : key'[f] = key[f]
    BY DEF NewDefault, server, IInv, DeviceOK
  <2>2. QED
    BY <1>1, <1>6, <2>1, RunsKeep
<1>10. QED
  BY <1>7, <1>8, <1>9 DEF IInv

-----------------------------------------------------------------------------
(* Settings.                                                                *)

\* Adopting the cloud's settings, which exist.
LEMMA AdoptInv ==
    ASSUME IInv, NEW d \in Device, blob["settings"].ver # 0, Adopt(d),
           UNCHANGED <<server, key, shadow, saved, pending, behind, events>>
    PROVE  IInv'
<1> DEFINE p == [run[d].pos EXCEPT !.ver = blob["settings"].ver]
           w == [run[d] EXCEPT !.pc = "digest", !.pos = p]
<1>1. blob["settings"].ver \in Nat /\ blob["settings"].data \in Data /\ blob["settings"].data \in DataOf("settings")
  BY DEF IInv, ServerOK, Resource
<1>2. run[d] \in RunType /\ RekeyFits(run[d])
  BY RunFacts
<1>3. p \in Pos /\ p.digest = run[d].pos.digest
  BY <1>1, <1>2 DEF RunType, Pos
<1>4. run' = [run EXCEPT ![d] = w]
  BY DEF Adopt
<1> HIDE DEF p
<1>5. w \in RunType /\ w.pc = "digest" /\ w.pos = p /\ w.rekey = run[d].rekey /\ w.todo = run[d].todo
  BY <1>2, <1>3 DEF RunType, Label
<1> HIDE DEF w
<1>6. \A b, k : RunFits(w, b, k)
  BY <1>2, <1>3, <1>5 DEF RunFits, PushFits, PullFits, ResealFits, RekeyFits
<1>7. RunsOK'
  BY <1>4, <1>5, <1>6, RunsKeep DEF server
<1>8. local' = [local EXCEPT ![d]["settings"] = blob["settings"].data] /\ "settings" \in Resource
  BY DEF Adopt, Resource
<1>9. local' \in [Device -> [Resource -> Data]] /\ \A e \in Device, r \in Resource : local'[e][r] \in DataOf(r)
  BY <1>1, <1>8 DEF IInv, DeviceOK
<1>10. DeviceOK'
  BY <1>9 DEF IInv, DeviceOK
<1>11. ServerOK'
  BY DEF IInv, ServerOK, server
<1>12. QED
  BY <1>7, <1>10, <1>11 DEF IInv

LEMMA SyncSettingsInv == ASSUME IInv, NEW d \in Device, SyncSettings(d) PROVE IInv'
<1> DEFINE b == blob["settings"]
<1>1. "settings" \in Resource /\ events' \in 0..MaxEvents
  BY DEF SyncSettings, IInv, DeviceOK, Resource
<1>2. UNCHANGED <<server, key, shadow, saved, pending, behind, events>>
  BY DEF SyncSettings
<1>3. CASE SettingsIdle(d)
  <2>1. run' = [run EXCEPT ![d] = Done(run[d], "settings")] /\ UNCHANGED local
    BY <1>3 DEF SyncSettings
  <2>2. QED
    BY <2>1, <1>1, <1>2, DoneOnly
<1>4. CASE ~SettingsIdle(d) /\ ~Openable(d, "settings")
  <2>1. RecoverOrphan(run[d], d, "settings") /\ UNCHANGED local
    BY <1>4 DEF SyncSettings
  <2>2. QED
    BY <2>1, <1>1, <1>2, RecoverOnly
<1>5. CASE /\ ~SettingsIdle(d) /\ Openable(d, "settings")
           /\ b.ver = 0 \/ (local[d]["settings"] # b.data /\ run[d].pos.ver # 0 /\ b.ver = run[d].pos.ver)
  <2> DEFINE w == [run[d] EXCEPT !.pc = "push", !.at = b.ver, !.src = local[d]["settings"]]
  <2>1. run' = [run EXCEPT ![d] = w] /\ UNCHANGED local
    BY <1>5 DEF SyncSettings
  <2>2. run[d] \in RunType /\ RekeyFits(run[d])
    BY RunFacts
  <2>3. b.ver \in Nat /\ local[d]["settings"] \in Data /\ local[d]["settings"] \in DataOf("settings")
    BY DEF IInv, ServerOK, DeviceOK, Resource
  <2>4. /\ w \in RunType /\ w.pc = "push" /\ w.at = b.ver /\ w.src = local[d]["settings"]
        /\ w.pos = run[d].pos /\ w.rekey = run[d].rekey /\ w.todo = run[d].todo
    BY <2>2, <2>3 DEF RunType, Label
  <2> HIDE DEF w
  <2>5. b.ver # 0 => b.key = key[d] /\ run[d].pos.ver # 0
    BY <1>5 DEF Openable
  <2>6. RunFits(w, b, key[d])
    BY <2>2, <2>3, <2>4, <2>5 DEF RunFits, PushFits, PullFits, ResealFits, RekeyFits
  <2>7. QED
    BY <2>1, <2>4, <2>6, <1>1, <1>2, RunOnly
<1>6. CASE /\ ~SettingsIdle(d) /\ Openable(d, "settings") /\ b.ver # 0
           /\ ~(local[d]["settings"] # b.data /\ run[d].pos.ver # 0 /\ b.ver = run[d].pos.ver)
  BY <1>6, <1>2, AdoptInv DEF SyncSettings
<1>7. QED
  BY <1>3, <1>4, <1>5, <1>6

LEMMA PushInv == ASSUME IInv, NEW d \in Device, Push(d) PROVE IInv'
<1> DEFINE b == blob["settings"]
           w == run[d]
<1>1. w \in RunType /\ RunFits(w, b, key[d]) /\ RekeyFits(w) /\ w.pc = "push"
  BY RunFacts DEF Push
<1>2. "settings" \in Resource /\ b.ver \in Nat /\ events' \in 0..MaxEvents
  BY DEF Push, IInv, ServerOK, DeviceOK, Resource
<1>3. CASE w.at = b.ver
  <2> DEFINE p == [w.pos EXCEPT !.ver = w.at + 1]
             t == [w EXCEPT !.pc = "digest", !.pos = p]
             n == [ver |-> b.ver + 1, key |-> key[d], data |-> w.src]
  <2>1. run' = [run EXCEPT ![d] = t] /\ blob' = [blob EXCEPT !["settings"] = n]
    <3>1. blob' = [blob EXCEPT !["settings"] = n]
      BY <1>3 DEF Push
    <3>2. run' = [run EXCEPT ![d].pc = "digest", ![d].pos.ver = w.at + 1]
      BY <1>3 DEF Push
    <3>3. QED
      BY <3>1, <3>2
  <2>2. p \in Pos /\ p.digest = w.pos.digest
    BY <1>1 DEF RunType, Pos
  <2> HIDE DEF p
  <2>3. t \in RunType /\ t.pc = "digest" /\ t.pos = p /\ t.rekey = w.rekey /\ t.todo = w.todo
    BY <1>1, <2>2 DEF RunType, Label
  <2> HIDE DEF t
  <2>4. \A c, k : RunFits(t, c, k)
    BY <1>1, <2>2, <2>3 DEF RunFits, PushFits, PullFits, ResealFits, RekeyFits
  <2>5. w.src \in Data /\ w.src \in DataOf("settings") /\ key[d] \in Key
    BY <1>1 DEF RunFits, PushFits, RunType, IInv, DeviceOK
  <2>6. n \in [ver : Nat, key : Key, data : Data] /\ n.ver = b.ver + 1 /\ n.ver # 0 /\ n.data \in DataOf("settings")
    BY <1>2, <2>5
  <2> HIDE DEF n
  <2>7. /\ blob' \in [Resource -> [ver : Nat, key : Key, data : Data]]
        /\ blob'["settings"] = n
        /\ \A r \in Resource \ {"settings"} : blob'[r] = blob[r]
    BY <1>2, <2>1, <2>6 DEF IInv, ServerOK
  <2>8. \A r \in Resource : IF blob'[r].ver = 0 THEN blob'[r].data = {} ELSE blob'[r].data \in DataOf(r)
    BY <2>6, <2>7 DEF IInv, ServerOK
  <2>9. ServerOK'
    BY <2>7, <2>8 DEF Push, IInv, ServerOK
  <2>10. DeviceOK'
    BY DEF Push, IInv, DeviceOK
  <2>11. RunsOK'
    BY <2>1, <2>3, <2>4, <2>6, <2>7, RunsKeep DEF Push
  <2>12. QED
    BY <2>9, <2>10, <2>11 DEF IInv
<1>4. CASE w.at # b.ver /\ w.at = 0
  <2>1. run' = [run EXCEPT ![d] = Done(w, "settings")] /\ UNCHANGED blob
    BY <1>4 DEF Push
  <2>2. QED
    BY <2>1, <1>2, DoneOnly DEF Push, server
<1>5. CASE w.at # b.ver /\ w.at # 0
  <2> DEFINE t == [w EXCEPT !.pc = "pull"]
  <2>1. run' = [run EXCEPT ![d] = t] /\ UNCHANGED blob
    BY <1>5 DEF Push
  <2>2. t \in RunType /\ t.pc = "pull" /\ t.at = w.at /\ t.pos = w.pos /\ t.rekey = w.rekey /\ t.todo = w.todo
    BY <1>1 DEF RunType, Label
  <2> HIDE DEF t
  <2>3. w.at <= b.ver
    BY <1>1 DEF RunFits, PushFits
  <2>4. RunFits(t, b, key[d])
    BY <1>1, <1>5, <2>2, <2>3 DEF RunFits, PushFits, PullFits, ResealFits, RekeyFits
  <2>5. QED
    BY <2>1, <2>2, <2>4, <1>2, RunOnly DEF Push, server
<1>6. QED
  BY <1>3, <1>4, <1>5

LEMMA PullInv == ASSUME IInv, NEW d \in Device, Pull(d) PROVE IInv'
<1>1. "settings" \in Resource /\ UNCHANGED <<server, key, shadow, saved, pending, behind, events>>
  BY DEF Pull, Resource
<1>2. CASE Openable(d, "settings")
  <2>1. run[d] \in RunType /\ PullFits(run[d], blob["settings"]) /\ run[d].pc = "pull"
    BY RunFacts DEF Pull, RunFits
  <2>2. blob["settings"].ver # 0
    BY <1>1, <2>1 DEF PullFits, RunType, IInv, ServerOK
  <2>3. QED
    BY <1>1, <1>2, <2>2, AdoptInv DEF Pull
<1>3. CASE ~Openable(d, "settings")
  BY <1>1, <1>3, RecoverOnly DEF Pull
<1>4. QED
  BY <1>2, <1>3

LEMMA RedigestInv == ASSUME IInv, NEW d \in Device, Redigest(d) PROVE IInv'
<1> DEFINE v == CHOOSE x \in Value : local[d]["settings"] = {x}
           u == Done(run[d], "settings")
           p == [u.pos EXCEPT !.digest = v]
           w == [u EXCEPT !.pos = p]
<1>1. run' = [run EXCEPT ![d] = w]
  BY DEF Redigest
<1>2. v \in Value
  BY DEF IInv, DeviceOK, DataOf, Resource
<1> HIDE DEF v
<1>3. u \in RunType /\ u.pc = "sync"
  BY RunFacts, DoneOK DEF Resource
<1> HIDE DEF u
<1>4. p \in Pos /\ p.digest = v
  BY <1>2, <1>3 DEF RunType, Pos
<1> HIDE DEF p
<1>5. w \in RunType /\ w.pc = "sync" /\ w.pos = p
  BY <1>3, <1>4 DEF RunType
<1> HIDE DEF w
<1>6. v # NoDigest
  BY <1>2, SelfLockAssumption
<1>7. \A b, k : RunFits(w, b, k)
  BY <1>4, <1>5, <1>6 DEF RunFits, PushFits, PullFits, ResealFits, RekeyFits
<1>8. events' \in 0..MaxEvents
  BY DEF Redigest, IInv, DeviceOK
<1>9. QED
  BY <1>1, <1>5, <1>7, <1>8, RunOnly DEF Redigest

-----------------------------------------------------------------------------
(* Reseals.                                                                 *)

LEMMA ProbeInv == ASSUME IInv, NEW d \in Device, NEW r \in Resource, Probe(d, r) PROVE IInv'
<1>1. events' \in 0..MaxEvents
  BY DEF Probe, IInv, DeviceOK
<1>2. RecoverOrphan(run[d], d, r) \/ run' = [run EXCEPT ![d] = Done(run[d], r)]
  BY DEF Probe
<1>3. CASE RecoverOrphan(run[d], d, r)
  BY <1>3, RecoverOnly DEF Probe
<1>4. CASE run' = [run EXCEPT ![d] = Done(run[d], r)]
  BY <1>1, <1>4, DoneOnly DEF Probe
<1>5. QED
  BY <1>2, <1>3, <1>4

LEMMA RekeyNextInv == ASSUME IInv, NEW d \in Device, NEW r \in Resource, RekeyNext(d, r) PROVE IInv'
<1>1. run[d] \in RunType /\ RekeyFits(run[d])
  BY RunFacts
<1>2. run[d].rekey = TRUE /\ r \in run[d].todo
  BY <1>1 DEF RekeyNext, RunType
<1>3. r = "settings" => run[d].pos.digest # NoDigest
  BY <1>1, <1>2 DEF RekeyFits
<1>4. /\ ToReseal(run[d], d, r) \in RunType
      /\ \A b, k : RunFits(ToReseal(run[d], d, r), b, k)
  BY <1>1, <1>2, <1>3, ToResealOK
<1>5. run' = [run EXCEPT ![d] = ToReseal(run[d], d, r)] /\ events' \in 0..MaxEvents
  BY DEF RekeyNext, IInv, DeviceOK
<1>6. QED
  BY <1>4, <1>5, RunOnly DEF RekeyNext

\* The resource that a reseal is about.
LEMMA ResealFacts ==
    ASSUME IInv, NEW d \in Device, run[d].pc = "reseal"
    PROVE  /\ run[d].cur \in Resource
           /\ run[d].src \in DataOf(run[d].cur)
           /\ run[d].rekey = TRUE \/ run[d].cur \in run[d].approve
           /\ run[d].cur = "settings" => run[d].pos.digest # NoDigest
BY RunFacts DEF RunFits, ResealFits

LEMMA SkipResealInv == ASSUME IInv, NEW d \in Device, SkipReseal(d) PROVE IInv'
<1>1. run[d].cur \in Resource
  BY ResealFacts DEF SkipReseal
<1>2. run' = [run EXCEPT ![d] = Done(run[d], run[d].cur)] /\ events' \in 0..MaxEvents
  BY DEF SkipReseal, IInv, DeviceOK
<1>3. QED
  BY <1>1, <1>2, DoneOnly DEF SkipReseal

LEMMA ResealConflictsInv == ASSUME IInv, NEW d \in Device, ResealConflicts(d) PROVE IInv'
<1> DEFINE w == run[d]
           h == IF w.cur = "contacts" THEN head ELSE w.head
           t == [w EXCEPT !.at = blob[w.cur].ver, !.tries = @ + 1, !.head = h]
<1>1. w \in RunType /\ RunFits(w, blob["settings"], key[d]) /\ w.pc = "reseal"
  BY RunFacts DEF ResealConflicts
<1>2. w.cur \in Resource
  BY ResealFacts, <1>1
<1>3. blob[w.cur].ver \in Nat /\ h \in Nat
  BY <1>1, <1>2 DEF IInv, ServerOK, RunType
<1>4. w.tries + 1 \in 0..mergeBlobMaxAttempts
  BY <1>1, SelfLockAssumption DEF ResealConflicts, RunType
<1>5. run' = [run EXCEPT ![d] = t]
  BY DEF ResealConflicts
<1> HIDE DEF h
<1>6. /\ t \in RunType /\ t.pc = w.pc /\ t.cur = w.cur /\ t.src = w.src /\ t.rekey = w.rekey
      /\ t.approve = w.approve /\ t.todo = w.todo /\ t.pos = w.pos
  BY <1>1, <1>3, <1>4 DEF RunType
<1> HIDE DEF t
<1>7. \A b, k : RunFits(t, b, k)
  BY <1>1, <1>6 DEF RunFits, PushFits, PullFits, ResealFits, RekeyFits
<1>8. events' \in 0..MaxEvents
  BY DEF ResealConflicts, IInv, DeviceOK
<1>9. QED
  BY <1>5, <1>6, <1>7, <1>8, RunOnly DEF ResealConflicts

\* What the server and the device store when a reseal is accepted.
LEMMA ResealInv == ASSUME IInv, NEW d \in Device, Reseal(d) PROVE IInv'
<1> DEFINE w == run[d]
           r == w.cur
           n == [ver |-> blob[r].ver + 1, key |-> key[d], data |-> w.src]
<1>1. w \in RunType /\ RekeyFits(w) /\ w.pc = "reseal"
  BY RunFacts DEF Reseal
<1>2. r \in Resource /\ w.src \in DataOf(r)
  BY ResealFacts, <1>1
<1>3. blob' = [blob EXCEPT ![r] = n]
  BY DEF Reseal
<1>4. blob[r].ver \in Nat /\ key[d] \in Key /\ w.src \in Data
  BY <1>1, <1>2 DEF IInv, ServerOK, DeviceOK, RunType
<1>5. n \in [ver : Nat, key : Key, data : Data] /\ n.ver = blob[r].ver + 1 /\ n.ver # 0 /\ n.data = w.src
  BY <1>4
<1> HIDE DEF n
<1>6. /\ blob' \in [Resource -> [ver : Nat, key : Key, data : Data]]
      /\ blob'[r] = n
      /\ \A q \in Resource \ {r} : blob'[q] = blob[q]
  BY <1>2, <1>3, <1>5 DEF IInv, ServerOK
<1>7. ServerOK'
  <2>1. \A q \in Resource : IF blob'[q].ver = 0 THEN blob'[q].data = {} ELSE blob'[q].data \in DataOf(q)
    BY <1>2, <1>5, <1>6 DEF IInv, ServerOK
  <2>2. through' \in Nat
    BY <1>1 DEF Reseal, IInv, ServerOK, RunType
  <2>3. head' = head /\ ops' \subseteq ops
    BY DEF Reseal
  <2>4. QED
    BY <1>6, <2>1, <2>2, <2>3 DEF IInv, ServerOK
<1>8. DeviceOK'
  <2>1. shadow' \in [Device -> (SUBSET Item) \cup {NoShadow}]
    BY DEF Reseal, IInv, DeviceOK
  <2>2. behind' \in [Device -> BOOLEAN]
    BY DEF Reseal, IInv, DeviceOK
  <2>3. QED
    BY <2>1, <2>2 DEF Reseal, IInv, DeviceOK
<1>9. \E t \in RunType : run' = [run EXCEPT ![d] = t] /\ \A b, k : RunFits(t, b, k)
  <2> DEFINE u == Done(w, r)
  <2>1. u \in RunType /\ u.pc = "sync" /\ u.rekey = w.rekey /\ u.todo \subseteq w.todo /\ u.pos = w.pos
    BY <1>1, <1>2, DoneOK
  <2>2. \A b, k : RunFits(u, b, k)
    BY <1>1, <1>2, DoneFits
  <2>3. CASE r = "contacts"
    <3> DEFINE p == [u.pos EXCEPT !.seq = w.head, !.snap = w.at + 1]
               t == [u EXCEPT !.pos = p]
    <3>1. run' = [run EXCEPT ![d] = [Done(w, r) EXCEPT !.pos.seq = w.head, !.pos.snap = w.at + 1]]
      BY <2>3 DEF Reseal
    <3> HIDE DEF u
    <3>2. [u EXCEPT !.pos.seq = w.head, !.pos.snap = w.at + 1] = t
      BY <2>1 DEF RunType
    <3>3. p \in Pos /\ p.digest = w.pos.digest
      <4>1. u.pos = w.pos /\ w.pos \in Pos /\ w.head \in Nat /\ w.at + 1 \in Nat
        BY <1>1, <2>1 DEF RunType
      <4>2. QED
        BY <4>1 DEF Pos
    <3> HIDE DEF p
    <3>4. t \in RunType /\ t.pc = "sync" /\ t.rekey = w.rekey /\ t.todo = u.todo /\ t.pos = p
      BY <2>1, <3>3 DEF RunType
    <3>5. run' = [run EXCEPT ![d] = t]
      BY <3>1, <3>2 DEF u
    <3> HIDE DEF t
    <3>6. \A b, k : RunFits(t, b, k)
      BY <1>1, <2>1, <3>3, <3>4 DEF RunFits, PushFits, PullFits, ResealFits, RekeyFits
    <3>7. QED
      BY <3>4, <3>5, <3>6
  <2>4. CASE r = "settings"
    <3> DEFINE p == [u.pos EXCEPT !.ver = w.at + 1]
               t == [u EXCEPT !.pos = p]
    <3>1. run' = [run EXCEPT ![d] = [Done(w, r) EXCEPT !.pos.ver = w.at + 1]]
      BY <2>4 DEF Reseal
    <3> HIDE DEF u
    <3>2. [u EXCEPT !.pos.ver = w.at + 1] = t
      BY <2>1 DEF RunType
    <3>3. p \in Pos /\ p.digest = w.pos.digest
      BY <1>1, <2>1 DEF RunType, Pos
    <3> HIDE DEF p
    <3>4. t \in RunType /\ t.pc = "sync" /\ t.rekey = w.rekey /\ t.todo = u.todo /\ t.pos = p
      BY <2>1, <3>3 DEF RunType
    <3>5. run' = [run EXCEPT ![d] = t]
      BY <3>1, <3>2 DEF u
    <3> HIDE DEF t
    <3>6. \A b, k : RunFits(t, b, k)
      BY <1>1, <2>1, <3>3, <3>4 DEF RunFits, PushFits, PullFits, ResealFits, RekeyFits
    <3>7. QED
      BY <3>4, <3>5, <3>6
  <2>5. CASE r \notin {"contacts", "settings"}
    <3>1. run' = [run EXCEPT ![d] = u]
      BY <2>5 DEF Reseal
    <3>2. QED
      BY <3>1, <2>1, <2>2
  <2>6. QED
    BY <2>3, <2>4, <2>5
<1>10. RunsOK'
  <2>1. \/ blob'["settings"] = blob["settings"]
        \/ blob'["settings"].ver = blob["settings"].ver + 1
    BY <1>5, <1>6 DEF Resource
  <2>2. QED
    BY <1>9, <2>1, RunsKeep DEF Reseal
<1>11. QED
  BY <1>7, <1>8, <1>10 DEF IInv

-----------------------------------------------------------------------------
(* Contacts and groups.                                                     *)

LEMMA SyncGroupsInv == ASSUME IInv, NEW d \in Device, SyncGroups(d) PROVE IInv'
<1> DEFINE b == blob["groups"]
           m == local[d]["groups"] \cup b.data
           n == [ver |-> b.ver + 1, key |-> key[d], data |-> m]
<1>1. "groups" \in Resource /\ "settings" \in Resource /\ "groups" # "settings"
  BY DEF Resource
<1>2. CASE ~Openable(d, "groups")
  BY <1>1, <1>2, RecoverOnly DEF SyncGroups, server
<1>3. CASE Openable(d, "groups")
  <2>1. b.ver \in Nat /\ b \in [ver : Nat, key : Key, data : Data] /\ key[d] \in Key
    BY <1>1 DEF IInv, ServerOK, DeviceOK
  <2>2. local[d]["groups"] \in SUBSET Item /\ b.data \in SUBSET Item
    BY <1>1 DEF IInv, ServerOK, DeviceOK, DataOf
  <2>3. m \in Data /\ m \in DataOf("groups")
    BY <1>1, <2>2 DEF Data, DataOf
  <2>4. blob' = blob \/ blob' = [blob EXCEPT !["groups"] = n]
    BY <1>3 DEF SyncGroups
  <2>5. local' = [local EXCEPT ![d]["groups"] = m] /\ run' = [run EXCEPT ![d] = Done(run[d], "groups")]
    BY <1>3 DEF SyncGroups
  <2> HIDE DEF m
  <2>6. n \in [ver : Nat, key : Key, data : Data] /\ n.ver # 0 /\ n.data = m
    BY <2>1, <2>3
  <2> HIDE DEF n
  <2>7. /\ blob' \in [Resource -> [ver : Nat, key : Key, data : Data]]
        /\ blob'["groups"] = blob["groups"] \/ blob'["groups"] = n
        /\ \A q \in Resource \ {"groups"} : blob'[q] = blob[q]
    BY <1>1, <2>4, <2>6 DEF IInv, ServerOK
  <2>8. \A q \in Resource : IF blob'[q].ver = 0 THEN blob'[q].data = {} ELSE blob'[q].data \in DataOf(q)
    BY <2>3, <2>6, <2>7 DEF IInv, ServerOK
  <2>9. ServerOK'
    BY <2>7, <2>8 DEF SyncGroups, IInv, ServerOK
  <2>10. local' \in [Device -> [Resource -> Data]] /\ \A e \in Device, r \in Resource : local'[e][r] \in DataOf(r)
    BY <1>1, <2>3, <2>5 DEF IInv, DeviceOK
  <2>11. DeviceOK'
    BY <2>10 DEF SyncGroups, IInv, DeviceOK
  <2>12. /\ Done(run[d], "groups") \in RunType
         /\ \A c, k : RunFits(Done(run[d], "groups"), c, k)
    BY <1>1, RunFacts, DoneOK, DoneFits
  <2>13. blob'["settings"] = blob["settings"] /\ key' = key
    BY <1>1, <2>7 DEF SyncGroups
  <2>14. RunsOK'
    BY <2>5, <2>12, <2>13, RunsKeep
  <2>15. QED
    BY <2>9, <2>11, <2>14 DEF IInv
<1>4. QED
  BY <1>2, <1>3

\* What a pass works with.
LEMMA PassFacts ==
    ASSUME IInv, NEW d \in Device
    PROVE  /\ "contacts" \in Resource
           /\ run[d] \in RunType /\ RekeyFits(run[d]) /\ run[d].pos \in Pos
           /\ run[d].pos.seq \in Nat /\ run[d].pos.snap \in Nat
           /\ run[d].through \in Nat /\ run[d].head \in Nat
           /\ run[d].ver["contacts"] \in Nat
           /\ Known(d) \in SUBSET Item /\ Mine(d) \in SUBSET Item
           /\ blob["contacts"] \in [ver : Nat, key : Key, data : Data]
           /\ blob["contacts"].data \in SUBSET Item
           /\ head \in Nat /\ through \in Nat /\ NewHead(d) \in Nat /\ head <= NewHead(d)
           /\ ops \subseteq [seq : 1..head, key : Key, data : SUBSET Item]
           /\ News(d) \subseteq ops
           /\ FromSeq(d) \in Nat
<1>1. "contacts" \in Resource /\ run[d] \in RunType /\ RekeyFits(run[d])
  BY RunFacts DEF Resource
<1>2. /\ run[d].pos \in Pos /\ run[d].pos.seq \in Nat /\ run[d].pos.snap \in Nat
      /\ run[d].through \in Nat /\ run[d].head \in Nat /\ run[d].ver["contacts"] \in Nat
  BY <1>1 DEF RunType, Pos
<1>3. Known(d) \in SUBSET Item /\ Mine(d) \in SUBSET Item
  BY <1>1 DEF Known, Mine, IInv, DeviceOK, DataOf
<1>4. blob["contacts"] \in [ver : Nat, key : Key, data : Data] /\ blob["contacts"].data \in SUBSET Item
  BY <1>1 DEF IInv, ServerOK, DataOf
<1>5. /\ head \in Nat /\ through \in Nat
      /\ ops \subseteq [seq : 1..head, key : Key, data : SUBSET Item]
  BY DEF IInv, ServerOK
<1>6. NewHead(d) \in Nat /\ head <= NewHead(d)
  BY <1>5 DEF NewHead
<1>7. News(d) \subseteq ops
  BY DEF News
<1>8. FromSeq(d) \in Nat
  BY <1>2 DEF FromSeq
<1>9. QED
  BY <1>1, <1>2, <1>3, <1>4, <1>5, <1>6, <1>7, <1>8

\* The log after an append.
LEMMA AppendedOK ==
    ASSUME IInv, NEW d \in Device
    PROVE  Appended(d) \subseteq [seq : 1..NewHead(d), key : Key, data : SUBSET Item]
<1>1. key[d] \in Key
  BY DEF IInv, DeviceOK
<1>2. ops \subseteq [seq : 1..NewHead(d), key : Key, data : SUBSET Item]
  BY PassFacts
<1>3. CASE Mine(d) = {}
  BY <1>2, <1>3 DEF Appended
<1>4. CASE Mine(d) # {}
  <2>1. NewHead(d) = head + 1
    BY <1>4 DEF NewHead
  <2>2. [seq |-> head + 1, key |-> key[d], data |-> Mine(d)]
           \in [seq : 1..NewHead(d), key : Key, data : SUBSET Item]
    BY <1>1, <2>1, PassFacts
  <2>3. QED
    BY <1>2, <1>4, <2>2 DEF Appended
<1>5. QED
  BY <1>3, <1>4

\* The run of a pass that met something it cannot open, before recoverOrphan.
Broken(w, n) == [w EXCEPT !.pos.seq = n, !.pos.snap = w.ver["contacts"]]

LEMMA BrokenOK ==
    ASSUME IInv, NEW d \in Device, NEW n \in Nat
    PROVE  /\ Broken(run[d], n) \in RunType
           /\ RekeyFits(Broken(run[d], n))
           /\ Broken(run[d], n).pos = [run[d].pos EXCEPT !.seq = n, !.snap = run[d].ver["contacts"]]
           /\ Broken(run[d], n).pos.seq = n
           /\ Broken(run[d], n).pos.snap = run[d].ver["contacts"]
           /\ Broken(run[d], n).pos.ver = run[d].pos.ver
           /\ Broken(run[d], n).pos.digest = run[d].pos.digest
           /\ \A f \in {"ver", "through", "head", "todo", "approve", "rekey"} :
                 Broken(run[d], n)[f] = run[d][f]
<1> DEFINE w == run[d]
           q == [w.pos EXCEPT !.seq = n, !.snap = w.ver["contacts"]]
           t == [w EXCEPT !.pos = q]
<1>1. w \in RunType /\ RekeyFits(w) /\ w.pos \in Pos /\ w.ver["contacts"] \in Nat
  BY PassFacts
<1>2. Broken(w, n) = t
  BY <1>1 DEF Broken, RunType
<1>3. /\ q \in Pos /\ q.seq = n /\ q.snap = w.ver["contacts"]
      /\ q.ver = w.pos.ver /\ q.digest = w.pos.digest
  BY <1>1 DEF Pos
<1> HIDE DEF q
<1>4. /\ t \in RunType /\ t.pos = q
      /\ \A f \in {"ver", "through", "head", "todo", "approve", "rekey"} : t[f] = w[f]
  BY <1>1, <1>3 DEF RunType
<1> HIDE DEF t
<1>5. RekeyFits(t)
  BY <1>1, <1>3, <1>4 DEF RekeyFits
<1>6. QED
  BY <1>2, <1>3, <1>4, <1>5 DEF q

\* A pass that meets what it cannot open: it recovers from where it stopped.
LEMMA SealedSplit ==
    ASSUME IInv, NEW d \in Device, ContactsSealed(d)
    PROVE  /\ UNCHANGED <<blob, through, local, shadow>>
           /\ \/ /\ ~SnapshotOpens(d)
                 /\ RecoverOrphan(run[d], d, "contacts") /\ UNCHANGED <<ops, head>>
              \/ /\ SnapshotOpens(d)
                 /\ ops' = (IF Fetches(d) THEN ops ELSE Appended(d))
                 /\ head' = (IF Fetches(d) THEN head ELSE NewHead(d))
                 /\ \E n \in Nat : /\ RecoverOrphan(Broken(run[d], n), d, "contacts")
                                   /\ FromSeq(d) <= n
                                   /\ n < head \/ n = FromSeq(d)
                                   /\ \E o \in News(d) : n < o.seq
<1>1. UNCHANGED <<blob, through, local, shadow>>
  BY DEF ContactsSealed
<1>2. CASE ~SnapshotOpens(d)
  BY <1>1, <1>2 DEF ContactsSealed
<1>3. CASE SnapshotOpens(d)
  <2> DEFINE read == {o \in News(d) : \A q \in News(d) : q.seq <= o.seq => q.key = key[d]}
  <2>1. PICK bad \in News(d) : bad.key # key[d]
    BY <1>3 DEF ContactsSealed
  <2>2. PICK n \in {FromSeq(d)} \cup (IF Fetches(d) THEN {o.seq : o \in read} ELSE {}) :
            RecoverOrphan([run[d] EXCEPT !.pos.seq = n, !.pos.snap = run[d].ver["contacts"]],
                          d, "contacts")
    BY <1>3 DEF ContactsSealed
  <2>3. /\ ops' = (IF Fetches(d) THEN ops ELSE Appended(d))
        /\ head' = (IF Fetches(d) THEN head ELSE NewHead(d))
    BY <1>3 DEF ContactsSealed
  <2>4. bad.seq \in 1..head /\ FromSeq(d) < bad.seq /\ FromSeq(d) \in Nat /\ head \in Nat
    BY PassFacts DEF News
  <2>5. n \in Nat /\ FromSeq(d) <= n /\ n < bad.seq
    <3>1. CASE n = FromSeq(d)
      BY <2>4, <3>1
    <3>2. ASSUME NEW o \in read, n = o.seq PROVE n \in Nat /\ FromSeq(d) <= n /\ n < bad.seq
      <4>1. o \in News(d) /\ ~(bad.seq <= o.seq)
        BY <2>1
      <4>2. o.seq \in 1..head /\ FromSeq(d) < o.seq
        BY <4>1, PassFacts DEF News
      <4>3. QED
        BY <2>4, <3>2, <4>1, <4>2
    <3>3. QED
      BY <2>2, <3>1, <3>2
  <2>6. RecoverOrphan(Broken(run[d], n), d, "contacts")
    BY <2>2 DEF Broken
  <2>7. QED
    BY <1>1, <1>3, <2>3, <2>4, <2>5, <2>6
<1>4. QED
  BY <1>2, <1>3

LEMMA SealedInv ==
    ASSUME IInv, NEW d \in Device, ContactsSealed(d),
           UNCHANGED <<key, saved, pending, behind, events>>
    PROVE  IInv'
<1>1. /\ UNCHANGED <<blob, through, local, shadow>>
      /\ head' \in Nat
      /\ (ops' = ops /\ head' = head) \/ (ops' = Appended(d) /\ head' = NewHead(d))
  BY SealedSplit, PassFacts
<1>2. PICK t \in RunType : run' = [run EXCEPT ![d] = t] /\ \A b, k : RunFits(t, b, k)
  <2>1. CASE RecoverOrphan(run[d], d, "contacts")
    BY <2>1, RecoverOrphanOK, PassFacts
  <2>2. ASSUME NEW n \in Nat, RecoverOrphan(Broken(run[d], n), d, "contacts")
        PROVE  \E t \in RunType : run' = [run EXCEPT ![d] = t] /\ \A b, k : RunFits(t, b, k)
    BY <2>2, BrokenOK, RecoverOrphanOK, PassFacts
  <2>3. QED
    BY <2>1, <2>2, SealedSplit
<1>3. ServerOK'
  <2>1. ops' \subseteq [seq : 1..head', key : Key, data : SUBSET Item]
    BY <1>1, AppendedOK, PassFacts
  <2>2. QED
    BY <1>1, <2>1 DEF IInv, ServerOK
<1>4. DeviceOK'
  BY <1>1 DEF IInv, DeviceOK
<1>5. RunsOK'
  BY <1>1, <1>2, RunsKeep
<1>6. QED
  BY <1>3, <1>4, <1>5 DEF IInv

(* The outcome of a pass: the merged list, the last seq, whether it compacts. *)
Merged(d) ==
    (IF Bootstraps(d) THEN blob["contacts"].data ELSE Known(d))
       \cup (UNION {o.data : o \in News(d)}) \cup Mine(d)
Last(d) == IF Mine(d) # {} \/ News(d) # {} THEN NewHead(d) ELSE FromSeq(d)
Compacts(d) == /\ Last(d) - run[d].through > ContactsCompactThreshold
               /\ run[d].ver["contacts"] = blob["contacts"].ver
Snapshot(d) == [ver |-> blob["contacts"].ver + 1, key |-> key[d], data |-> Merged(d)]
AfterPass(d) == [Done(run[d], "contacts") EXCEPT
                   !.pos.seq = Last(d),
                   !.pos.snap = IF Compacts(d) THEN run[d].ver["contacts"] + 1
                                               ELSE run[d].ver["contacts"]]

LEMMA MergedSplit ==
    ASSUME IInv, NEW d \in Device, ContactsMerged(d)
    PROVE  /\ SnapshotOpens(d)
           /\ head' = NewHead(d)
           /\ local' = [local EXCEPT ![d]["contacts"] = Merged(d)]
           /\ shadow' = [shadow EXCEPT ![d] = Merged(d)]
           /\ \/ /\ Compacts(d)
                 /\ blob' = [blob EXCEPT !["contacts"] = Snapshot(d)]
                 /\ through' = Last(d)
                 /\ ops' = {o \in Appended(d) : o.seq > Last(d)}
              \/ ~Compacts(d) /\ ops' = Appended(d) /\ UNCHANGED <<blob, through>>
           /\ run' = [run EXCEPT ![d] = AfterPass(d)]
BY DEF ContactsMerged, Merged, Last, Compacts, Snapshot, AfterPass

LEMMA AfterPassOK ==
    ASSUME IInv, NEW d \in Device
    PROVE  /\ Merged(d) \in SUBSET Item /\ Last(d) \in Nat
           /\ AfterPass(d) \in RunType /\ \A b, k : RunFits(AfterPass(d), b, k)
           /\ AfterPass(d).pc = "sync" /\ "contacts" \notin AfterPass(d).todo
           /\ "contacts" \notin AfterPass(d).probe
           /\ AfterPass(d).pos.seq = Last(d)
           /\ AfterPass(d).pos.snap = IF Compacts(d) THEN run[d].ver["contacts"] + 1
                                                     ELSE run[d].ver["contacts"]
           /\ AfterPass(d).pos.ver = run[d].pos.ver
           /\ AfterPass(d).pos.digest = run[d].pos.digest
           /\ AfterPass(d).ver["contacts"] = 0 /\ AfterPass(d).through = 0
           /\ AfterPass(d).head = 0
<1> DEFINE w == run[d]
           u == Done(w, "contacts")
           v == IF Compacts(d) THEN w.ver["contacts"] + 1 ELSE w.ver["contacts"]
           q == [u.pos EXCEPT !.seq = Last(d), !.snap = v]
           t == [u EXCEPT !.pos = q]
<1>1. Merged(d) \in SUBSET Item
  <2>1. UNION {o.data : o \in News(d)} \subseteq Item
    BY PassFacts
  <2>2. QED
    BY <2>1, PassFacts DEF Merged
<1>2. Last(d) \in Nat /\ v \in Nat
  BY PassFacts DEF Last
<1>3. /\ u \in RunType /\ u.pc = "sync" /\ u.rekey = w.rekey /\ u.todo = w.todo \ {"contacts"}
      /\ u.pos = w.pos /\ w.pos \in Pos /\ RekeyFits(w)
  BY PassFacts, DoneOK
<1>4. /\ u.ver["contacts"] = 0 /\ u.through = 0 /\ u.head = 0
      /\ "contacts" \notin u.probe
  BY PassFacts DEF Done, RunType
<1>5. AfterPass(d) = [u EXCEPT !.pos.seq = Last(d), !.pos.snap = v]
  BY DEF AfterPass
<1> HIDE DEF u, v
<1>6. AfterPass(d) = t
  BY <1>3, <1>5 DEF RunType
<1>7. q \in Pos /\ q.digest = w.pos.digest /\ q.ver = w.pos.ver /\ q.seq = Last(d) /\ q.snap = v
  BY <1>2, <1>3 DEF Pos
<1> HIDE DEF q
<1>8. /\ t \in RunType /\ t.pc = "sync" /\ t.rekey = w.rekey /\ t.todo = u.todo /\ t.pos = q
      /\ t.ver = u.ver /\ t.through = u.through /\ t.head = u.head /\ t.probe = u.probe
  BY <1>3, <1>7 DEF RunType
<1> HIDE DEF t
<1>9. \A b, k : RunFits(t, b, k)
  BY <1>3, <1>7, <1>8 DEF RunFits, PushFits, PullFits, ResealFits, RekeyFits
<1>10. QED
  BY <1>1, <1>2, <1>3, <1>4, <1>6, <1>7, <1>8, <1>9 DEF v

LEMMA MergedInv ==
    ASSUME IInv, NEW d \in Device, ContactsMerged(d),
           UNCHANGED <<key, saved, pending, behind, events>>
    PROVE  IInv'
<1>1. Merged(d) \in Data /\ Merged(d) \in DataOf("contacts")
  BY AfterPassOK DEF Data, DataOf
<1>2. local' \in [Device -> [Resource -> Data]] /\ \A e \in Device, r \in Resource : local'[e][r] \in DataOf(r)
  <2>1. local' = [local EXCEPT ![d]["contacts"] = Merged(d)] /\ "contacts" \in Resource
    BY MergedSplit, PassFacts
  <2>2. QED
    BY <1>1, <2>1 DEF IInv, DeviceOK
<1>3. shadow' \in [Device -> (SUBSET Item) \cup {NoShadow}]
  BY MergedSplit, AfterPassOK DEF IInv, DeviceOK
<1>4. DeviceOK'
  BY <1>2, <1>3 DEF IInv, DeviceOK
<1>5. Snapshot(d) \in [ver : Nat, key : Key, data : Data]
  BY <1>1, PassFacts DEF Snapshot, IInv, DeviceOK
<1>6. Snapshot(d).ver # 0 /\ Snapshot(d).data = Merged(d)
  BY PassFacts DEF Snapshot
<1>7. /\ blob' \in [Resource -> [ver : Nat, key : Key, data : Data]]
      /\ blob'["contacts"] \in {blob["contacts"], Snapshot(d)}
      /\ \A r \in Resource \ {"contacts"} : blob'[r] = blob[r]
  BY <1>5, MergedSplit, PassFacts DEF IInv, ServerOK
<1>8. \A r \in Resource : IF blob'[r].ver = 0 THEN blob'[r].data = {} ELSE blob'[r].data \in DataOf(r)
  BY <1>1, <1>6, <1>7 DEF IInv, ServerOK
<1>9. through' \in Nat /\ head' \in Nat /\ ops' \subseteq Appended(d) /\ head' = NewHead(d)
  BY MergedSplit, AfterPassOK, PassFacts
<1>10. ServerOK'
  BY <1>7, <1>8, <1>9, AppendedOK DEF ServerOK
<1>11. RunsOK'
  <2>1. blob'["settings"] = blob["settings"] /\ key' = key
    BY <1>7 DEF Resource
  <2>2. QED
    BY <2>1, MergedSplit, AfterPassOK, RunsKeep
<1>12. QED
  BY <1>4, <1>10, <1>11 DEF IInv

LEMMA SyncContactsInv == ASSUME IInv, NEW d \in Device, SyncContacts(d) PROVE IInv'
<1>1. UNCHANGED <<key, saved, pending, behind, events>>
  BY DEF SyncContacts
<1>2. CASE ContactsSealed(d)
  BY <1>1, <1>2, SealedInv
<1>3. CASE ContactsMerged(d)
  BY <1>1, <1>3, MergedInv
<1>4. CASE /\ run' = [run EXCEPT ![d] = Done(run[d], "contacts")]
           /\ UNCHANGED <<blob, through, ops, head, local, shadow>>
  <2>1. events' \in 0..MaxEvents /\ "contacts" \in Resource
    BY <1>1, PassFacts DEF IInv, DeviceOK
  <2>2. QED
    BY <1>1, <1>4, <2>1, DoneOnly DEF server
<1>5. QED
  BY <1>2, <1>3, <1>4 DEF SyncContacts

-----------------------------------------------------------------------------
(* The end of a run.                                                        *)

LEMMA FailedOnly ==
    ASSUME IInv, NEW d \in Device, run[d].pc \in {"push", "pull", "reseal"},
           run' = [run EXCEPT ![d] = Failed(d)], events' \in 0..MaxEvents,
           UNCHANGED <<server, key, local, shadow, saved, pending, behind>>
    PROVE  IInv'
<1>1. CASE Failed(d) = NoRun
  BY <1>1, NoRunOnly
<1>2. CASE run[d].pc = "reseal" /\ Failed(d) = Done(run[d], run[d].cur)
  BY <1>2, ResealFacts, DoneOnly
<1>3. CASE Failed(d) = Done(run[d], "settings")
  BY <1>3, DoneOnly DEF Resource
<1>4. QED
  BY <1>1, <1>2, <1>3 DEF Failed

LEMMA TooManyConflictsInv == ASSUME IInv, NEW d \in Device, TooManyConflicts(d) PROVE IInv'
BY FailedOnly DEF TooManyConflicts, IInv, DeviceOK

LEMMA CallFailsInv == ASSUME IInv, NEW d \in Device, CallFails(d) PROVE IInv'
BY FailedOnly, EventOK DEF CallFails

LEMMA CrashInv == ASSUME IInv, NEW d \in Device, Crash(d) PROVE IInv'
BY NoRunOnly, EventOK DEF Crash

LEMMA FinishInv == ASSUME IInv, NEW d \in Device, Finish(d) PROVE IInv'
<1>1. run[d].pos \in Pos /\ run[d].need \in SUBSET Resource
  BY RunFacts DEF RunType
<1>2. ServerOK'
  BY DEF Finish, IInv, ServerOK, server
<1>3. DeviceOK'
  BY <1>1 DEF Finish, IInv, DeviceOK
<1>4. RunsOK'
  BY NoRunOK, RunsKeep DEF Finish, server
<1>5. QED
  BY <1>2, <1>3, <1>4 DEF IInv

LEMMA LogOutInv == ASSUME IInv, NEW d \in Device, LogOut(d) PROVE IInv'
<1>1. NoPos \in Pos
  BY DEF NoPos, Pos
<1>2. ServerOK' /\ RunsOK'
  BY DEF LogOut, IInv, ServerOK, RunsOK, server
<1>3. DeviceOK'
  BY <1>1, EventOK DEF LogOut, IInv, DeviceOK
<1>4. QED
  BY <1>2, <1>3 DEF IInv

LEMMA StutterInv == IInv /\ UNCHANGED vars => IInv'
BY DEF IInv, ServerOK, DeviceOK, RunsOK, vars, server

LEMMA NextInv == IInv /\ [Next]_vars => IInv'
<1>1. SUFFICES ASSUME IInv, Next PROVE IInv'
  BY StutterInv
<1>2. PICK d \in Device : UserStep(d) \/ RunStep(d) \/ CallFails(d) \/ Crash(d) \/ LogOut(d)
  BY <1>1 DEF Next
<1>3. CASE UserStep(d)
  BY <1>1, <1>3, EditSettingsInv, NewDefaultInv, StartInv DEF UserStep
<1>4. CASE RunStep(d)
  <2>1. CASE SyncContacts(d) \/ SyncGroups(d) \/ SyncSettings(d)
    BY <1>1, <2>1, SyncContactsInv, SyncGroupsInv, SyncSettingsInv
  <2>2. CASE Push(d) \/ Pull(d) \/ Redigest(d)
    BY <1>1, <2>2, PushInv, PullInv, RedigestInv
  <2>3. CASE \E r \in Resource : Probe(d, r) \/ RekeyNext(d, r)
    BY <1>1, <2>3, ProbeInv, RekeyNextInv
  <2>4. CASE SkipReseal(d) \/ Reseal(d) \/ ResealConflicts(d) \/ TooManyConflicts(d)
    BY <1>1, <2>4, SkipResealInv, ResealInv, ResealConflictsInv, TooManyConflictsInv
  <2>5. CASE Finish(d)
    BY <1>1, <2>5, FinishInv
  <2>6. QED
    BY <1>4, <2>1, <2>2, <2>3, <2>4, <2>5 DEF RunStep
<1>5. QED
  BY <1>1, <1>2, <1>3, <1>4, CallFailsInv, CrashInv, LogOutInv

-----------------------------------------------------------------------------
(* The theorems.                                                            *)

\* In every reachable state copies, positions and runs are what the labels say.
THEOREM Invariance == Spec => []IInv
BY InitInv, NextInv, PTL DEF Spec

\* Type correctness: in particular every copy of the settings is exactly one
\* value, whatever SyncResource pulls, pushes or re-seals.
THEOREM TypeCorrect == Spec => []TypeOK
BY Invariance, TypeFollows, PTL

\* The steps that write to the cloud; all others leave it alone.
LEMMA Writers ==
    ASSUME [Next]_vars
    PROVE  \/ UNCHANGED <<blob, ops>>
           \/ \E d \in Device : SyncContacts(d) \/ SyncGroups(d) \/ Push(d) \/ Reseal(d)
<1>1. CASE UNCHANGED vars
  BY <1>1 DEF vars, server
<1>2. CASE Next
  <2>1. PICK d \in Device : UserStep(d) \/ RunStep(d) \/ CallFails(d) \/ Crash(d) \/ LogOut(d)
    BY <1>2 DEF Next
  <2>2. CASE UserStep(d)
    BY <2>2 DEF UserStep, EditSettings, NewDefault, Start, server
  <2>3. CASE RunStep(d)
    BY <2>3 DEF RunStep, SyncSettings, Pull, Redigest, Probe, RekeyNext, SkipReseal,
                ResealConflicts, TooManyConflicts, Finish, server
  <2>4. CASE CallFails(d) \/ Crash(d) \/ LogOut(d)
    BY <2>4 DEF CallFails, Crash, LogOut, server
  <2>5. QED
    BY <2>1, <2>2, <2>3, <2>4
<1>3. QED
  BY <1>1, <1>2

-----------------------------------------------------------------------------
(* The contacts' log.  s is a device's shadow; v, t and h are the version   *)
(* and through-seq of the snapshot and the head of the log.                 *)

(* A position that knows the snapshot's version is past its through-seq.    *)
SnapFits(p, v, t) == p.snap <= v /\ (p.snap = v => t <= p.seq)

(* A device without entries has seen no op that is still on the log: ops    *)
(* have entries.  It is before the head, or a reseal took its shadow.       *)
Covered(s, q, h, t) == s \in {{}, NoShadow} => q = 0 \/ q < h \/ (s = NoShadow /\ q <= t)

PosLog(p, s, v, t, h) == SnapFits(p, v, t) /\ p.seq <= h /\ Covered(s, p.seq, h, t)

(* What a run fetched is of one moment.                                     *)
StateLog(w, v, t, h) ==
    /\ w.ver["contacts"] <= v
    /\ w.ver["contacts"] = v => w.through = t
    /\ w.ver["contacts"] = 0 => w.through = 0
    /\ w.through <= t /\ w.through <= w.head /\ w.head <= h

Resealing(w) == w.pc = "reseal" /\ w.cur = "contacts"

(* Until its pass over the contacts, a run's position is the saved one, p.  *)
TodoLog(w, p, s) ==
    "contacts" \in w.todo \cup w.probe /\ ~Resealing(w) =>
        w.pos.seq = p.seq /\ p.seq <= w.head /\ Covered(s, p.seq, w.head, w.through)

ResealLog(w, p, v, t) ==
    Resealing(w) => p.seq <= w.head /\ w.at <= v /\ (w.at = v => t <= w.head)

RunLog(w, p, s, v, t, h) ==
    /\ PosLog(w.pos, s, v, t, h)
    /\ StateLog(w, v, t, h)
    /\ TodoLog(w, p, s)
    /\ ResealLog(w, p, v, t)
    /\ w.pc = "idle" => w = NoRun

LogOK ==
    /\ through <= head
    /\ blob["contacts"].ver = 0 => through = 0
    /\ blob["contacts"].data = {} => through = 0
    /\ head > through => \E o \in ops : o.seq = head
    /\ \A o \in ops : o.data # {}

DeviceLog(d) ==
    /\ PosLog(saved[d], shadow[d], blob["contacts"].ver, through, head)
    /\ RunLog(run[d], saved[d], shadow[d], blob["contacts"].ver, through, head)

LogInv == LogOK /\ \A d \in Device : DeviceLog(d)

LEMMA LogTypes ==
    ASSUME IInv, NEW d \in Device
    PROVE  /\ "contacts" \in Resource /\ {} # NoShadow
           /\ blob["contacts"].ver \in Nat /\ through \in Nat /\ head \in Nat
           /\ saved[d] \in Pos /\ saved[d].seq \in Nat /\ saved[d].snap \in Nat
           /\ run[d] \in RunType /\ run[d].pos.seq \in Nat /\ run[d].pos.snap \in Nat
           /\ run[d].ver["contacts"] \in Nat /\ run[d].through \in Nat
           /\ run[d].head \in Nat /\ run[d].at \in Nat
<1>1. {} # NoShadow
  BY SelfLockAssumption
<1>2. saved[d] \in Pos /\ saved[d].seq \in Nat /\ saved[d].snap \in Nat
  BY DEF IInv, DeviceOK, Pos
<1>3. run[d].at \in Nat
  BY PassFacts DEF RunType
<1>4. QED
  BY <1>1, <1>2, <1>3, PassFacts

\* A step of d disturbs nobody else: versions, through-seq and head only grow, and
\* the through-seq only with the version.
LEMMA LogStep ==
    ASSUME IInv, LogInv, NEW d \in Device,
           \A e \in Device \ {d} : saved'[e] = saved[e] /\ run'[e] = run[e] /\ shadow'[e] = shadow[e],
           \/ blob'["contacts"].ver = blob["contacts"].ver /\ through' = through
           \/ blob'["contacts"].ver = blob["contacts"].ver + 1 /\ through <= through',
           through' \in Nat, head' \in Nat, head <= head',
           LogOK', DeviceLog(d)'
    PROVE  LogInv'
<1> SUFFICES ASSUME NEW e \in Device \ {d} PROVE DeviceLog(e)'
  BY DEF LogInv
<1> DEFINE v == blob["contacts"].ver
           u == blob'["contacts"].ver
           w == run[e]
           p == saved[e]
           s == shadow[e]
<1>1. /\ PosLog(p, s, v, through, head)
      /\ RunLog(w, p, s, v, through, head)
  BY DEF LogInv, DeviceLog
<1>2. /\ v \in Nat /\ through \in Nat /\ head \in Nat
      /\ p.seq \in Nat /\ p.snap \in Nat /\ w.pos.seq \in Nat /\ w.pos.snap \in Nat
      /\ w.ver["contacts"] \in Nat /\ w.through \in Nat /\ w.head \in Nat /\ w.at \in Nat
  BY LogTypes
<1>3. /\ (u = v /\ through' = through) \/ u = v + 1
      /\ through <= through' /\ through' \in Nat /\ head <= head' /\ head' \in Nat
  BY <1>2
<1> HIDE DEF u, v
<1>4. \A q \in {p, w.pos} : PosLog(q, s, v, through, head) => PosLog(q, s, u, through', head')
  BY <1>2, <1>3 DEF PosLog, SnapFits, Covered
<1>5. PosLog(p, s, u, through', head') /\ PosLog(w.pos, s, u, through', head')
  BY <1>1, <1>4 DEF RunLog
<1>6. LogOK'
  OBVIOUS
<1>7. u = 0 => through' = 0
  BY <1>6 DEF LogOK, u
<1>8. StateLog(w, u, through', head')
  BY <1>1, <1>2, <1>3, <1>7 DEF RunLog, StateLog
<1>9. ResealLog(w, p, u, through')
  BY <1>1, <1>2, <1>3 DEF RunLog, ResealLog
<1>10. RunLog(w, p, s, u, through', head')
  BY <1>1, <1>5, <1>8, <1>9 DEF RunLog
<1>11. QED
  BY <1>5, <1>10 DEF DeviceLog, u

\* A step of d's run that leaves the log, the snapshot and the shadow alone.
LEMMA LogRun ==
    ASSUME IInv, LogInv, NEW d \in Device, NEW w, run' = [run EXCEPT ![d] = w],
           blob'["contacts"] = blob["contacts"],
           UNCHANGED <<through, ops, head, shadow, saved>>,
           RunLog(w, saved[d], shadow[d], blob["contacts"].ver, through, head)
    PROVE  LogInv'
<1>1. run'[d] = w /\ \A e \in Device \ {d} : run'[e] = run[e]
  BY DEF IInv, RunsOK
<1>2. DeviceLog(d)'
  BY <1>1 DEF LogInv, DeviceLog
<1>3. LogOK'
  BY DEF LogInv, LogOK
<1>4. QED
  BY <1>1, <1>2, <1>3, LogTypes, LogStep

LEMMA NoRunLog ==
    ASSUME IInv, LogInv, NEW d \in Device
    PROVE  /\ \A s : PosLog(NoPos, s, blob["contacts"].ver, through, head)
           /\ \A p, s : RunLog(NoRun, p, s, blob["contacts"].ver, through, head)
<1>1. NoPos.seq = 0 /\ NoPos.snap = 0
  BY DEF NoPos
<1>2. /\ NoRun.pc = "idle" /\ NoRun.pos = NoPos /\ NoRun.todo = {} /\ NoRun.probe = {}
      /\ NoRun.ver["contacts"] = 0 /\ NoRun.through = 0 /\ NoRun.head = 0
  BY DEF NoRun, Resource
<1>3. LogOK
  BY DEF LogInv
<1> HIDE DEF NoRun
<1>4. \A s : PosLog(NoPos, s, blob["contacts"].ver, through, head)
  BY <1>1, <1>3, LogTypes DEF LogOK, PosLog, SnapFits, Covered
<1>5. StateLog(NoRun, blob["contacts"].ver, through, head)
  BY <1>2, <1>3, LogTypes DEF LogOK, StateLog
<1>6. QED
  BY <1>2, <1>4, <1>5 DEF RunLog, TodoLog, ResealLog, Resealing

\* A run that changes nothing of what concerns the contacts.
LEMMA LogSame ==
    ASSUME NEW w, NEW x, NEW p, NEW s, NEW v, NEW t, NEW h, RunLog(w, p, s, v, t, h),
           ~Resealing(w), ~Resealing(x), x.pc # "idle",
           x.pos.seq = w.pos.seq, x.pos.snap = w.pos.snap,
           x.ver["contacts"] = w.ver["contacts"], x.through = w.through, x.head = w.head,
           x.todo \subseteq w.todo, x.probe \subseteq w.probe
    PROVE  RunLog(x, p, s, v, t, h)
<1>1. PosLog(x.pos, s, v, t, h)
  BY DEF RunLog, PosLog, SnapFits
<1>2. StateLog(x, v, t, h)
  BY DEF RunLog, StateLog
<1>3. TodoLog(x, p, s)
  BY DEF RunLog, TodoLog
<1>4. QED
  BY <1>1, <1>2, <1>3 DEF RunLog, ResealLog

LEMMA DoneFields ==
    ASSUME NEW w \in RunType, NEW r \in Resource
    PROVE  /\ Done(w, r).pc = "sync" /\ Done(w, r).pos = w.pos
           /\ Done(w, r).todo = w.todo \ {r} /\ Done(w, r).probe = w.probe \ {r}
           /\ r = "contacts" => /\ Done(w, r).ver["contacts"] = 0
                                /\ Done(w, r).through = 0 /\ Done(w, r).head = 0
           /\ r # "contacts" => /\ Done(w, r).ver["contacts"] = w.ver["contacts"]
                                /\ Done(w, r).through = w.through /\ Done(w, r).head = w.head
<1>1. "contacts" \in Resource
  BY DEF Resource
<1>2. Done(w, r).pc = "sync" /\ Done(w, r).pos = w.pos
  BY DoneOK
<1>3. Done(w, r).todo = w.todo \ {r} /\ Done(w, r).probe = w.probe \ {r}
  BY DEF Done, RunType
<1>4. r = "contacts" => /\ Done(w, r).ver["contacts"] = 0
                        /\ Done(w, r).through = 0 /\ Done(w, r).head = 0
  BY <1>1 DEF Done, RunType
<1>5. r # "contacts" => /\ Done(w, r).ver["contacts"] = w.ver["contacts"]
                        /\ Done(w, r).through = w.through /\ Done(w, r).head = w.head
  BY <1>1 DEF Done, RunType
<1>6. QED
  BY <1>2, <1>3, <1>4, <1>5

\* A run whose position of the contacts fits and that is done with them.
LEMMA DoneContactsLog ==
    ASSUME IInv, LogInv, NEW d \in Device, NEW x, NEW s, NEW p,
           x.pc = "sync", "contacts" \notin x.todo \cup x.probe,
           x.ver["contacts"] = 0, x.through = 0, x.head = 0,
           PosLog(x.pos, s, blob["contacts"].ver, through, head)
    PROVE  RunLog(x, p, s, blob["contacts"].ver, through, head)
<1>1. StateLog(x, blob["contacts"].ver, through, head)
  BY LogTypes DEF LogInv, LogOK, StateLog
<1>2. QED
  BY <1>1 DEF RunLog, TodoLog, ResealLog, Resealing

LEMMA LogDone ==
    ASSUME IInv, LogInv, NEW d \in Device, NEW r \in Resource,
           r = "contacts" \/ ~Resealing(run[d])
    PROVE  RunLog(Done(run[d], r), saved[d], shadow[d], blob["contacts"].ver, through, head)
<1> DEFINE w == run[d]
<1> SUFFICES ASSUME NEW x, x = Done(w, r)
             PROVE  RunLog(x, saved[d], shadow[d], blob["contacts"].ver, through, head)
  OBVIOUS
<1>1. w \in RunType /\ RunLog(w, saved[d], shadow[d], blob["contacts"].ver, through, head)
  BY LogTypes DEF LogInv, DeviceLog
<1>2. /\ x.pc = "sync" /\ x.pos = w.pos /\ x.todo = w.todo \ {r} /\ x.probe = w.probe \ {r}
      /\ r = "contacts" => x.ver["contacts"] = 0 /\ x.through = 0 /\ x.head = 0
      /\ r # "contacts" => /\ x.ver["contacts"] = w.ver["contacts"]
                           /\ x.through = w.through /\ x.head = w.head
  BY <1>1, DoneFields
<1>3. CASE r = "contacts"
  <2>1. PosLog(x.pos, shadow[d], blob["contacts"].ver, through, head)
    BY <1>1, <1>2 DEF RunLog
  <2>2. "contacts" \notin x.todo \cup x.probe
    BY <1>2, <1>3
  <2>3. QED
    BY <1>2, <1>3, <2>1, <2>2, DoneContactsLog
<1>4. CASE r # "contacts"
  <2>1. ~Resealing(x)
    BY <1>2 DEF Resealing
  <2>2. QED
    BY <1>1, <1>2, <1>4, <2>1, LogSame
<1>5. QED
  BY <1>3, <1>4

LEMMA ToResealFields ==
    ASSUME NEW w \in RunType, NEW d \in Device, NEW r \in Resource
    PROVE  LET x == ToReseal(w, d, r) IN
           /\ x.pc = "reseal" /\ x.cur = r /\ x.at = w.ver[r] /\ x.pos = w.pos
           /\ x.todo = w.todo /\ x.probe = w.probe
           /\ x.ver = w.ver /\ x.through = w.through /\ x.head = w.head
BY DEF ToReseal, RunType

\* A reseal of the contacts starts from the version and the head of one moment.
LEMMA LogToReseal ==
    ASSUME NEW w \in RunType, NEW d \in Device, NEW r \in Resource,
           NEW p, NEW s, NEW v \in Nat, NEW t \in Nat, NEW h \in Nat,
           RunLog(w, p, s, v, t, h) \/
              (r = "contacts" /\ PosLog(w.pos, s, v, t, h) /\ StateLog(w, v, t, h)),
           ~Resealing(w), r = "contacts" => p.seq <= w.head
    PROVE  RunLog(ToReseal(w, d, r), p, s, v, t, h)
<1> DEFINE x == ToReseal(w, d, r)
<1>1. /\ x.pc = "reseal" /\ x.cur = r /\ x.at = w.ver[r] /\ x.pos = w.pos
      /\ x.todo = w.todo /\ x.probe = w.probe
      /\ x.ver = w.ver /\ x.through = w.through /\ x.head = w.head
  BY ToResealFields
<1> HIDE DEF x
<1>2. PosLog(w.pos, s, v, t, h) /\ StateLog(w, v, t, h)
  BY DEF RunLog
<1>3. CASE r = "contacts"
  <2>1. Resealing(x)
    BY <1>1, <1>3 DEF Resealing
  <2>2. StateLog(x, v, t, h)
    BY <1>1, <1>2 DEF StateLog
  <2>3. ResealLog(x, p, v, t)
    BY <1>1, <1>2, <1>3 DEF StateLog, ResealLog
  <2>4. QED
    BY <1>1, <1>2, <2>1, <2>2, <2>3 DEF RunLog, TodoLog, x
<1>4. CASE r # "contacts"
  <2>1. ~Resealing(x) /\ RunLog(w, p, s, v, t, h)
    BY <1>1, <1>4 DEF Resealing
  <2>2. RunLog(x, p, s, v, t, h)
    BY <1>1, <2>1, LogSame
  <2>3. QED
    BY <2>2 DEF x
<1>5. QED
  BY <1>3, <1>4

\* What recoverOrphan leaves.
LEMMA LogRecover ==
    ASSUME IInv, LogInv, NEW d \in Device, NEW r \in Resource, NEW w \in RunType,
           RecoverOrphan(w, d, r), ~Resealing(w), ~Resealing(run[d]),
           w = run[d] \/ (/\ r = "contacts"
                          /\ PosLog(w.pos, shadow[d], blob'["contacts"].ver, through', head')
                          /\ StateLog(w, blob'["contacts"].ver, through', head')),
           saved[d].seq <= w.head \/ r # "contacts",
           blob'["contacts"] = blob["contacts"], UNCHANGED <<through, shadow, saved>>,
           head' \in Nat, head <= head', LogOK'
    PROVE  LogInv'
<1> DEFINE v == blob["contacts"].ver
           p == saved[d]
           s == shadow[d]
<1>1. v \in Nat /\ through \in Nat /\ head \in Nat /\ p.seq \in Nat /\ run[d].pos.seq \in Nat
  BY LogTypes
<1>2. /\ RunLog(run[d], p, s, v, through, head) /\ PosLog(p, s, v, through, head)
  BY DEF LogInv, DeviceLog
<1>3. RunLog(run[d], p, s, v, through, head')
  BY <1>1, <1>2, LogTypes DEF RunLog, PosLog, Covered, StateLog
<1>4. PosLog(p, s, v, through, head')
  BY <1>1, <1>2 DEF PosLog, Covered
<1>5. PosLog(w.pos, s, v, through, head') /\ StateLog(w, v, through, head')
  BY <1>3 DEF RunLog
<1>6. RunLog(w, p, s, v, through, head') \/ r = "contacts"
  BY <1>3
<1>7. RunLog(ToReseal(w, d, r), p, s, v, through, head')
  BY <1>1, <1>5, <1>6, LogToReseal
<1>8. /\ Done(w, r).pc = "sync" /\ Done(w, r).pos = w.pos
      /\ Done(w, r).todo = w.todo \ {r} /\ Done(w, r).probe = w.probe \ {r}
      /\ r = "contacts" => /\ Done(w, r).ver["contacts"] = 0
                           /\ Done(w, r).through = 0 /\ Done(w, r).head = 0
      /\ r # "contacts" => /\ Done(w, r).ver["contacts"] = w.ver["contacts"]
                           /\ Done(w, r).through = w.through /\ Done(w, r).head = w.head
      /\ Done(w, r) \in RunType
  BY DoneFields, DoneOK
<1>9. \A x : /\ x.pc = "sync" /\ x.pos = w.pos
             /\ x.todo = Done(w, r).todo /\ x.probe = Done(w, r).probe
             /\ x.ver = Done(w, r).ver /\ x.through = Done(w, r).through /\ x.head = Done(w, r).head
             => RunLog(x, p, s, v, through, head')
  <2> TAKE x
  <2> HAVE /\ x.pc = "sync" /\ x.pos = w.pos
           /\ x.todo = Done(w, r).todo /\ x.probe = Done(w, r).probe
           /\ x.ver = Done(w, r).ver /\ x.through = Done(w, r).through /\ x.head = Done(w, r).head
  <2>1. ~Resealing(x) /\ x.pc # "idle"
    BY DEF Resealing
  <2>2. CASE r = "contacts"
    <3>1. StateLog(x, v, through, head')
      BY <1>1, <1>8, <2>2 DEF LogInv, LogOK, StateLog
    <3>2. QED
      BY <1>5, <1>8, <2>1, <2>2, <3>1 DEF RunLog, TodoLog, ResealLog
  <2>3. CASE r # "contacts"
    BY <1>6, <1>8, <2>1, <2>3, LogSame
  <2>4. QED
    BY <2>2, <2>3
<1>10. \E x : run' = [run EXCEPT ![d] = x] /\ RunLog(x, p, s, v, through, head')
  <2>1. CASE ~CanRecover(w, d, r)
    <3>1. run' = [run EXCEPT ![d] = Done(w, r)]
      BY <2>1 DEF RecoverOrphan
    <3>2. QED
      BY <1>8, <1>9, <3>1
  <2>2. CASE CanRecover(w, d, r) /\ r \notin w.approve
    <3> DEFINE x == [Done(w, r) EXCEPT !.need = w.need \cup {r}]
    <3>1. run' = [run EXCEPT ![d] = x]
      BY <2>2 DEF RecoverOrphan
    <3>2. /\ x.pc = "sync" /\ x.pos = w.pos
          /\ x.todo = Done(w, r).todo /\ x.probe = Done(w, r).probe
          /\ x.ver = Done(w, r).ver /\ x.through = Done(w, r).through /\ x.head = Done(w, r).head
      BY <1>8 DEF RunType
    <3> HIDE DEF x
    <3>3. QED
      BY <1>9, <3>1, <3>2
  <2>3. CASE CanRecover(w, d, r) /\ r \in w.approve
    BY <1>7, <2>3 DEF RecoverOrphan
  <2>4. QED
    BY <2>1, <2>2, <2>3
<1>11. PICK x : run' = [run EXCEPT ![d] = x] /\ RunLog(x, p, s, v, through, head')
  BY <1>10
<1>12. run'[d] = x /\ \A e \in Device \ {d} : run'[e] = run[e]
  BY <1>11 DEF IInv, RunsOK
<1>13. DeviceLog(d)'
  BY <1>4, <1>11, <1>12 DEF DeviceLog
<1>14. QED
  BY <1>1, <1>12, <1>13, LogStep

LEMMA FromCovers ==
    ASSUME IInv, LogInv, NEW d \in Device
    PROVE  /\ FromSeq(d) <= head
           /\ run[d].ver["contacts"] = blob["contacts"].ver => through <= FromSeq(d)
<1> DEFINE w == run[d]
           v == blob["contacts"].ver
<1>1. /\ PosLog(w.pos, shadow[d], v, through, head) /\ StateLog(w, v, through, head)
      /\ v = 0 => through = 0
  BY DEF LogInv, LogOK, DeviceLog, RunLog
<1>2. CASE Bootstraps(d)
  BY <1>1, <1>2, LogTypes DEF FromSeq, StateLog
<1>3. CASE ~Bootstraps(d)
  <2>1. FromSeq(d) = w.pos.seq
    BY <1>3 DEF FromSeq
  <2>2. \/ w.ver["contacts"] = w.pos.snap
        \/ w.ver["contacts"] = 0
        \/ w.through <= w.pos.seq
    BY <1>3, LogTypes DEF Bootstraps
  <2>3. QED
    BY <1>1, <2>1, <2>2, LogTypes DEF PosLog, SnapFits, StateLog
<1>4. QED
  BY <1>2, <1>3

LEMMA AppendedLog ==
    ASSUME IInv, LogInv, NEW d \in Device
    PROVE  /\ through <= NewHead(d)
           /\ NewHead(d) > through => \E o \in Appended(d) : o.seq = NewHead(d)
           /\ \A o \in Appended(d) : o.data # {}
<1>1. LogOK
  BY DEF LogInv
<1>2. CASE Mine(d) = {}
  BY <1>1, <1>2 DEF NewHead, Appended, LogOK
<1>3. CASE Mine(d) # {}
  <2> DEFINE n == [seq |-> head + 1, key |-> key[d], data |-> Mine(d)]
  <2>1. Appended(d) = ops \cup {n} /\ NewHead(d) = head + 1
    BY <1>3 DEF Appended, NewHead
  <2>2. n.seq = head + 1 /\ n.data # {}
    BY <1>3
  <2> HIDE DEF n
  <2>3. QED
    BY <1>1, <2>1, <2>2, LogTypes DEF LogOK
<1>4. QED
  BY <1>2, <1>3

\* A compaction has entries to write: it is past the through-seq, and ops have
\* entries.
LEMMA CompactsSome ==
    ASSUME IInv, LogInv, NEW d \in Device, run[d].pc = "sync", "contacts" \in run[d].todo,
           Compacts(d)
    PROVE  Merged(d) # {}
<1> DEFINE w == run[d]
<1>1. SUFFICES ASSUME Merged(d) = {} PROVE FALSE
  OBVIOUS
<1>2. LogOK /\ RunLog(w, saved[d], shadow[d], blob["contacts"].ver, through, head)
  BY DEF LogInv, DeviceLog
<1>3. /\ Mine(d) = {} /\ \A o \in News(d) : o.data = {}
      /\ ~Bootstraps(d) => Known(d) = {}
  BY <1>1 DEF Merged
<1>4. News(d) = {}
  BY <1>2, <1>3, PassFacts DEF LogOK
<1>5. Last(d) = FromSeq(d) /\ Last(d) > w.through /\ w.through = through
  <2>1. ContactsCompactThreshold \in Nat
    BY SelfLockAssumption
  <2>2. Last(d) = FromSeq(d)
    BY <1>3, <1>4 DEF Last
  <2>3. w.through = through
    BY <1>2 DEF Compacts, RunLog, StateLog
  <2>4. QED
    BY <2>1, <2>2, <2>3, PassFacts DEF Compacts
<1>6. ~Bootstraps(d) /\ FromSeq(d) = w.pos.seq
  BY <1>5, LogTypes DEF FromSeq
<1>7. shadow[d] \in {{}, NoShadow}
  BY <1>3, <1>6 DEF Known
<1>8. Covered(shadow[d], w.pos.seq, w.head, w.through)
  BY <1>2 DEF RunLog, TodoLog, Resealing
<1>9. w.pos.seq < w.head
  BY <1>5, <1>6, <1>7, <1>8, LogTypes DEF Covered
<1>10. w.head <= head
  BY <1>2 DEF RunLog, StateLog
<1>11. PICK o \in ops : o.seq = head
  BY <1>2, <1>5, <1>6, <1>9, <1>10, LogTypes DEF LogOK
<1>12. o \in News(d)
  BY <1>6, <1>9, <1>10, <1>11, LogTypes DEF News, Fetches
<1>13. QED
  BY <1>4, <1>12

LEMMA SealedLog ==
    ASSUME IInv, LogInv, NEW d \in Device, run[d].pc = "sync", "contacts" \in run[d].todo,
           ContactsSealed(d), saved' = saved
    PROVE  LogInv'
<1> DEFINE w == run[d]
<1>1. ~Resealing(w) /\ RunLog(w, saved[d], shadow[d], blob["contacts"].ver, through, head)
  BY DEF Resealing, LogInv, DeviceLog
<1>2. saved[d].seq <= w.head
  BY <1>1 DEF RunLog, TodoLog
<1>3. UNCHANGED <<blob, through, local, shadow>> /\ "contacts" \in Resource /\ w \in RunType
  BY SealedSplit, PassFacts
<1>4. LogOK
  BY DEF LogInv
<1>5. CASE RecoverOrphan(w, d, "contacts") /\ UNCHANGED <<ops, head>>
  <2>1. LogOK'
    BY <1>3, <1>4, <1>5 DEF LogOK
  <2>2. QED
    BY <1>1, <1>2, <1>3, <1>5, <2>1, LogRecover, LogTypes
<1>6. ASSUME NEW n \in Nat, RecoverOrphan(Broken(w, n), d, "contacts"),
             FromSeq(d) <= n, \E o \in News(d) : n < o.seq,
             ops' = (IF Fetches(d) THEN ops ELSE Appended(d)),
             head' = (IF Fetches(d) THEN head ELSE NewHead(d))
      PROVE  LogInv'
  <2> DEFINE x == Broken(w, n)
  <2>1. LogOK'
    BY <1>3, <1>4, <1>6, AppendedLog DEF LogOK
  <2>2. head' \in Nat /\ head <= head'
    BY <1>6, PassFacts
  <2>3. n < head
    BY <1>6, PassFacts
  <2>4. /\ x \in RunType /\ x.pos.seq = n /\ x.pos.snap = w.ver["contacts"]
        /\ x.ver = w.ver /\ x.through = w.through /\ x.head = w.head
    BY BrokenOK
  <2>5. x.pc = w.pc /\ x.cur = w.cur
    BY <1>3 DEF Broken, RunType
  <2> HIDE DEF x
  <2>6. ~Resealing(x)
    BY <2>5 DEF Resealing
  <2>7. StateLog(x, blob["contacts"].ver, through, head')
    BY <1>1, <2>2, <2>4, LogTypes DEF RunLog, StateLog
  <2>8. PosLog(x.pos, shadow[d], blob["contacts"].ver, through, head')
    <3>1. w.ver["contacts"] = blob["contacts"].ver => through <= n
      BY <1>6, FromCovers, PassFacts
    <3>2. w.ver["contacts"] <= blob["contacts"].ver
      BY <1>1 DEF RunLog, StateLog
    <3>3. QED
      BY <2>2, <2>3, <2>4, <3>1, <3>2, LogTypes DEF PosLog, SnapFits, Covered
  <2>9. RecoverOrphan(x, d, "contacts")
    BY <1>6 DEF x
  <2>10. blob' = blob /\ through' = through /\ shadow' = shadow
    BY <1>3
  <2>11. QED
    BY <1>1, <1>2, <1>3, <2>1, <2>2, <2>4, <2>6, <2>7, <2>8, <2>9, <2>10, LogRecover
<1>7. QED
  BY <1>5, <1>6, SealedSplit

LEMMA MergedLog ==
    ASSUME IInv, LogInv, NEW d \in Device, run[d].pc = "sync", "contacts" \in run[d].todo,
           ContactsMerged(d), saved' = saved
    PROVE  LogInv'
<1> DEFINE w == run[d]
           p == saved[d]
           v == blob["contacts"].ver
           u == blob'["contacts"].ver
           x == AfterPass(d)
<1>1. /\ LogOK /\ PosLog(p, shadow[d], v, through, head)
      /\ RunLog(w, p, shadow[d], v, through, head)
  BY DEF LogInv, DeviceLog
<1>2. /\ w.pos.seq = p.seq /\ p.seq <= w.head
      /\ Covered(shadow[d], p.seq, w.head, w.through)
  BY <1>1 DEF RunLog, TodoLog, Resealing
<1>3. StateLog(w, v, through, head)
  BY <1>1 DEF RunLog
<1>4. FromSeq(d) <= Last(d) /\ Last(d) <= NewHead(d) /\ Last(d) \in Nat
  BY FromCovers, AfterPassOK, PassFacts DEF Last
<1>5. Compacts(d) => through < Last(d) /\ Merged(d) # {} /\ w.ver["contacts"] = v
  <2>1. ContactsCompactThreshold \in Nat
    BY SelfLockAssumption
  <2>2. Compacts(d) => w.through = through /\ w.ver["contacts"] = v
    BY <1>3 DEF Compacts, StateLog
  <2>3. QED
    BY <1>4, <2>1, <2>2, CompactsSome, PassFacts DEF Compacts
<1>6. \/ /\ Compacts(d) /\ u = v + 1 /\ blob'["contacts"].data = Merged(d)
         /\ through' = Last(d) /\ ops' = {o \in Appended(d) : o.seq > Last(d)}
      \/ /\ ~Compacts(d) /\ blob'["contacts"] = blob["contacts"] /\ u = v
         /\ through' = through /\ ops' = Appended(d)
  <2>1. CASE Compacts(d)
    <3>1. blob' = [blob EXCEPT !["contacts"] = Snapshot(d)]
      BY <2>1, MergedSplit
    <3>2. blob'["contacts"] = Snapshot(d)
      BY <3>1, PassFacts DEF IInv, ServerOK
    <3>3. Snapshot(d).ver = v + 1 /\ Snapshot(d).data = Merged(d)
      BY DEF Snapshot
    <3>4. QED
      BY <2>1, <3>2, <3>3, MergedSplit
  <2>2. CASE ~Compacts(d)
    BY <2>2, MergedSplit
  <2>3. QED
    BY <2>1, <2>2
<1>7. head' = NewHead(d) /\ shadow' = [shadow EXCEPT ![d] = Merged(d)] /\ run' = [run EXCEPT ![d] = x]
  BY MergedSplit
<1>8. /\ run'[d] = x /\ shadow'[d] = Merged(d)
      /\ \A e \in Device \ {d} : run'[e] = run[e] /\ shadow'[e] = shadow[e]
  BY <1>7 DEF IInv, RunsOK, DeviceOK
<1>9. /\ v \in Nat /\ u \in Nat /\ through' \in Nat /\ head' \in Nat /\ head <= head'
      /\ through <= through'
  BY <1>4, <1>5, <1>6, <1>7, LogTypes, PassFacts
<1>10. LogOK'
  <2>1. CASE ~Compacts(d)
    <3>1. blob'["contacts"] = blob["contacts"] /\ through' = through /\ ops' = Appended(d)
      BY <1>6, <2>1
    <3>2. QED
      BY <1>1, <1>7, <3>1, AppendedLog DEF LogOK
  <2>2. CASE Compacts(d)
    <3>1. /\ u = v + 1 /\ blob'["contacts"].data = Merged(d) /\ Merged(d) # {}
          /\ through' = Last(d) /\ ops' = {o \in Appended(d) : o.seq > Last(d)}
      BY <1>5, <1>6, <2>2
    <3>2. through < Last(d)
      BY <1>5, <2>2
    <3>3. head' > through' => \E o \in ops' : o.seq = head'
      <4>1. SUFFICES ASSUME NewHead(d) > Last(d) PROVE \E o \in ops' : o.seq = NewHead(d)
        BY <1>7, <3>1
      <4>2. PICK o \in Appended(d) : o.seq = NewHead(d)
        BY <1>4, <3>2, <4>1, AppendedLog, LogTypes, PassFacts
      <4>3. QED
        BY <3>1, <4>1, <4>2
    <3>4. QED
      BY <1>4, <1>7, <1>9, <3>1, <3>3, AppendedLog DEF LogOK
  <2>3. QED
    BY <2>1, <2>2
<1>11. Merged(d) = {} => p.seq = 0 \/ p.seq < head'
  <2>1. SUFFICES ASSUME Merged(d) = {}, p.seq # 0 PROVE p.seq < head'
    OBVIOUS
  <2>2. ~Bootstraps(d) => Known(d) = {}
    BY <2>1 DEF Merged
  <2>3. Bootstraps(d) => through = 0
    BY <1>1, <2>1 DEF Merged, LogOK
  <2>4. w.through <= through /\ w.head <= head
    BY <1>3 DEF StateLog
  <2>5. shadow[d] \in {{}, NoShadow}
    BY <1>2, <2>1, <2>2, <2>3, <2>4, LogTypes DEF Known, Bootstraps
  <2>6. shadow[d] = NoShadow => w.through = 0
    BY <1>3, <2>3, <2>4, LogTypes DEF Bootstraps, StateLog
  <2>7. p.seq < w.head
    BY <1>2, <2>1, <2>5, <2>6, LogTypes DEF Covered
  <2>8. QED
    BY <1>9, <2>4, <2>7, LogTypes
<1>12. Merged(d) # NoShadow
  BY AfterPassOK, SelfLockAssumption
<1>13. Merged(d) = {} => Last(d) = 0 \/ Last(d) < head'
  <2>1. SUFFICES ASSUME Merged(d) = {} PROVE Last(d) = 0 \/ Last(d) < head'
    OBVIOUS
  <2>2. Mine(d) = {} /\ \A o \in News(d) : o.data = {}
    BY <2>1 DEF Merged
  <2>3. News(d) = {}
    BY <1>1, <2>2, PassFacts DEF LogOK
  <2>4. Last(d) = FromSeq(d)
    BY <2>2, <2>3 DEF Last
  <2>5. CASE Bootstraps(d)
    <3>1. through = 0
      BY <1>1, <2>1, <2>5 DEF Merged, LogOK
    <3>2. QED
      BY <1>3, <2>4, <2>5, <3>1, LogTypes DEF FromSeq, StateLog
  <2>6. CASE ~Bootstraps(d)
    BY <1>2, <1>11, <2>1, <2>4, <2>6 DEF FromSeq
  <2>7. QED
    BY <2>5, <2>6
<1>14. PosLog(p, Merged(d), u, through', head')
  <2>1. SnapFits(p, u, through')
    BY <1>1, <1>6, <1>9, LogTypes DEF PosLog, SnapFits
  <2>2. p.seq <= head'
    BY <1>1, <1>9, LogTypes DEF PosLog
  <2>3. QED
    BY <1>11, <1>12, <2>1, <2>2 DEF PosLog, Covered
<1>15. PosLog(x.pos, Merged(d), u, through', head')
  <2>1. x.pos.seq = Last(d)
    BY AfterPassOK
  <2>2. SnapFits(x.pos, u, through')
    <3>1. CASE Compacts(d)
      BY <1>4, <1>5, <1>6, <2>1, <3>1, AfterPassOK, LogTypes DEF SnapFits
    <3>2. CASE ~Compacts(d)
      <4>1. x.pos.snap = w.ver["contacts"] /\ u = v /\ through' = through
        BY <1>6, <3>2, AfterPassOK
      <4>2. w.ver["contacts"] <= v
        BY <1>3 DEF StateLog
      <4>3. w.ver["contacts"] = v => through <= Last(d)
        BY <1>4, FromCovers, PassFacts
      <4>4. QED
        BY <2>1, <4>1, <4>2, <4>3 DEF SnapFits
    <3>3. QED
      BY <3>1, <3>2
  <2>3. QED
    BY <1>4, <1>7, <1>12, <1>13, <2>1, <2>2 DEF PosLog, Covered
<1>16. RunLog(x, p, Merged(d), u, through', head')
  <2>1. x.pc = "sync" /\ x.ver["contacts"] = 0 /\ x.through = 0 /\ x.head = 0
    BY AfterPassOK
  <2>2. "contacts" \notin x.todo \cup x.probe
    BY AfterPassOK
  <2>3. StateLog(x, u, through', head')
    BY <1>9, <1>10, <2>1 DEF LogOK, StateLog
  <2> HIDE DEF x
  <2>4. QED
    BY <1>15, <2>1, <2>2, <2>3 DEF RunLog, TodoLog, ResealLog, Resealing
<1>17. DeviceLog(d)'
  BY <1>8, <1>14, <1>16 DEF DeviceLog
<1>18. QED
  BY <1>6, <1>8, <1>9, <1>10, <1>17, LogStep

LEMMA SyncContactsLog ==
    ASSUME IInv, LogInv, NEW d \in Device, SyncContacts(d) PROVE LogInv'
<1>1. run[d].pc = "sync" /\ "contacts" \in run[d].todo /\ saved' = saved /\ "contacts" \in Resource
  BY DEF SyncContacts, Turn, Resource
<1>2. CASE /\ run' = [run EXCEPT ![d] = Done(run[d], "contacts")]
           /\ UNCHANGED <<blob, through, ops, head, local, shadow>>
  <2>1. RunLog(Done(run[d], "contacts"), saved[d], shadow[d], blob["contacts"].ver, through, head)
    BY <1>1, LogDone
  <2>2. QED
    BY <1>1, <1>2, <2>1, LogRun
<1>3. QED
  BY <1>1, <1>2, SealedLog, MergedLog DEF SyncContacts

\* The settings and the groups do not concern the log of the contacts.
LEMMA LogDoneOnly ==
    ASSUME IInv, LogInv, NEW d \in Device, NEW r \in Resource,
           run' = [run EXCEPT ![d] = Done(run[d], r)], r = "contacts" \/ ~Resealing(run[d]),
           blob'["contacts"] = blob["contacts"], UNCHANGED <<through, ops, head, shadow, saved>>
    PROVE  LogInv'
BY LogDone, LogRun

LEMMA LogRecoverOnly ==
    ASSUME IInv, LogInv, NEW d \in Device, NEW r \in Resource, RecoverOrphan(run[d], d, r),
           run[d].pc # "reseal", r = "contacts" => "contacts" \in run[d].todo \cup run[d].probe,
           UNCHANGED <<blob, through, ops, head, shadow, saved>>
    PROVE  LogInv'
<1>1. ~Resealing(run[d]) /\ run[d] \in RunType
  BY LogTypes DEF Resealing
<1>2. saved[d].seq <= run[d].head \/ r # "contacts"
  BY <1>1 DEF LogInv, DeviceLog, RunLog, TodoLog
<1>3. LogOK'
  BY DEF LogInv, LogOK
<1>4. QED
  BY <1>1, <1>2, <1>3, LogRecover, LogTypes

LEMMA LogSameOnly ==
    ASSUME IInv, LogInv, NEW d \in Device, NEW x, run' = [run EXCEPT ![d] = x],
           ~Resealing(run[d]), ~Resealing(x), x.pc # "idle",
           x.pos.seq = run[d].pos.seq, x.pos.snap = run[d].pos.snap,
           x.ver["contacts"] = run[d].ver["contacts"], x.through = run[d].through,
           x.head = run[d].head, x.todo \subseteq run[d].todo, x.probe \subseteq run[d].probe,
           blob'["contacts"] = blob["contacts"], UNCHANGED <<through, ops, head, shadow, saved>>
    PROVE  LogInv'
<1>1. RunLog(run[d], saved[d], shadow[d], blob["contacts"].ver, through, head)
  BY DEF LogInv, DeviceLog
<1>2. RunLog(x, saved[d], shadow[d], blob["contacts"].ver, through, head)
  BY <1>1, LogSame
<1>3. QED
  BY <1>2, LogRun

LEMMA SyncGroupsLog ==
    ASSUME IInv, LogInv, NEW d \in Device, SyncGroups(d) PROVE LogInv'
<1>1. /\ run[d].pc = "sync" /\ "groups" \in Resource
      /\ UNCHANGED <<through, ops, head, shadow, saved>>
  BY DEF SyncGroups, Turn, Resource
<1>2. CASE Openable(d, "groups")
  <2>1. run' = [run EXCEPT ![d] = Done(run[d], "groups")]
    BY <1>2 DEF SyncGroups
  <2>2. blob'["contacts"] = blob["contacts"]
    BY <1>2 DEF SyncGroups, IInv, ServerOK, Resource
  <2>3. ~Resealing(run[d])
    BY <1>1 DEF Resealing
  <2>4. QED
    BY <1>1, <2>1, <2>2, <2>3, LogDoneOnly
<1>3. CASE ~Openable(d, "groups")
  BY <1>1, <1>3, LogRecoverOnly DEF SyncGroups
<1>4. QED
  BY <1>2, <1>3

LEMMA AdoptLog ==
    ASSUME IInv, LogInv, NEW d \in Device, run[d].pc \in {"sync", "pull"}, Adopt(d),
           UNCHANGED <<server, shadow, saved>>
    PROVE  LogInv'
<1> DEFINE w == run[d]
           q == [w.pos EXCEPT !.ver = blob["settings"].ver]
           x == [w EXCEPT !.pc = "digest", !.pos = q]
<1>1. w \in RunType /\ w.pos \in Pos
  BY PassFacts
<1>2. run' = [run EXCEPT ![d] = x]
  BY <1>1 DEF Adopt, RunType, IInv, RunsOK
<1>3. q.seq = w.pos.seq /\ q.snap = w.pos.snap
  BY <1>1 DEF Pos
<1> HIDE DEF q
<1>4. /\ x.pc = "digest" /\ x.pos = q /\ x.ver = w.ver /\ x.through = w.through
      /\ x.head = w.head /\ x.todo = w.todo /\ x.probe = w.probe
  BY <1>1 DEF RunType
<1> HIDE DEF x
<1>5. ~Resealing(w) /\ ~Resealing(x)
  BY <1>4 DEF Resealing
<1>6. QED
  BY <1>2, <1>3, <1>4, <1>5, LogSameOnly DEF server

LEMMA SyncSettingsLog ==
    ASSUME IInv, LogInv, NEW d \in Device, SyncSettings(d) PROVE LogInv'
<1> DEFINE w == run[d]
           b == blob["settings"]
           x == [w EXCEPT !.pc = "push", !.at = b.ver, !.src = local[d]["settings"]]
<1>1. /\ "settings" \in Resource /\ w.pc = "sync" /\ w \in RunType
      /\ UNCHANGED <<server, shadow, saved>>
  BY RunFacts DEF Resource, SyncSettings, Turn
<1>2. ~Resealing(w)
  BY <1>1 DEF Resealing
<1>3. CASE run' = [run EXCEPT ![d] = Done(w, "settings")]
  BY <1>1, <1>2, <1>3, LogDoneOnly DEF server
<1>4. CASE RecoverOrphan(w, d, "settings")
  BY <1>1, <1>4, LogRecoverOnly DEF server
<1>5. CASE run' = [run EXCEPT ![d].pc = "push", ![d].at = b.ver, ![d].src = local[d]["settings"]]
  <2>1. run' = [run EXCEPT ![d] = x]
    BY <1>1, <1>5 DEF IInv, RunsOK, RunType
  <2>2. /\ x.pc = "push" /\ x.pos = w.pos /\ x.ver = w.ver /\ x.through = w.through
        /\ x.head = w.head /\ x.todo = w.todo /\ x.probe = w.probe
    BY <1>1 DEF RunType
  <2> HIDE DEF x
  <2>3. ~Resealing(x)
    BY <2>2 DEF Resealing
  <2>4. QED
    BY <1>1, <1>2, <2>1, <2>2, <2>3, LogSameOnly DEF server
<1>6. CASE Adopt(d)
  BY <1>1, <1>6, AdoptLog
<1>7. QED
  BY <1>3, <1>4, <1>5, <1>6 DEF SyncSettings

LEMMA PushLog == ASSUME IInv, LogInv, NEW d \in Device, Push(d) PROVE LogInv'
<1> DEFINE w == run[d]
<1>1. /\ w.pc = "push" /\ w \in RunType /\ w.pos \in Pos /\ "settings" \in Resource
      /\ UNCHANGED <<through, ops, head, shadow, saved>> /\ ~Resealing(w)
  BY PassFacts DEF Push, Resealing, Resource
<1>2. blob'["contacts"] = blob["contacts"]
  BY DEF Push, IInv, ServerOK, Resource
<1>3. CASE w.at = blob["settings"].ver
  <2> DEFINE q == [w.pos EXCEPT !.ver = w.at + 1]
             x == [w EXCEPT !.pc = "digest", !.pos = q]
  <2>1. run' = [run EXCEPT ![d] = x]
    BY <1>1, <1>3 DEF Push, IInv, RunsOK, RunType
  <2>2. q.seq = w.pos.seq /\ q.snap = w.pos.snap
    BY <1>1 DEF Pos
  <2> HIDE DEF q
  <2>3. /\ x.pc = "digest" /\ x.pos = q /\ x.ver = w.ver /\ x.through = w.through
        /\ x.head = w.head /\ x.todo = w.todo /\ x.probe = w.probe
    BY <1>1 DEF RunType
  <2> HIDE DEF x
  <2>4. ~Resealing(x)
    BY <2>3 DEF Resealing
  <2>5. QED
    BY <1>1, <1>2, <2>1, <2>2, <2>3, <2>4, LogSameOnly
<1>4. CASE w.at # blob["settings"].ver /\ w.at = 0
  <2>1. run' = [run EXCEPT ![d] = Done(w, "settings")]
    BY <1>4 DEF Push
  <2>2. QED
    BY <1>1, <1>2, <2>1, LogDoneOnly
<1>5. CASE w.at # blob["settings"].ver /\ w.at # 0
  <2> DEFINE x == [w EXCEPT !.pc = "pull"]
  <2>1. run' = [run EXCEPT ![d] = x]
    BY <1>5 DEF Push
  <2>2. /\ x.pc = "pull" /\ x.pos = w.pos /\ x.ver = w.ver /\ x.through = w.through
        /\ x.head = w.head /\ x.todo = w.todo /\ x.probe = w.probe
    BY <1>1 DEF RunType
  <2> HIDE DEF x
  <2>3. ~Resealing(x)
    BY <2>2 DEF Resealing
  <2>4. QED
    BY <1>1, <1>2, <2>1, <2>2, <2>3, LogSameOnly
<1>6. QED
  BY <1>3, <1>4, <1>5

LEMMA PullLog == ASSUME IInv, LogInv, NEW d \in Device, Pull(d) PROVE LogInv'
<1>1. run[d].pc = "pull" /\ "settings" \in Resource /\ UNCHANGED <<server, shadow, saved>>
  BY DEF Pull, Resource
<1>2. CASE Adopt(d)
  BY <1>1, <1>2, AdoptLog
<1>3. CASE RecoverOrphan(run[d], d, "settings")
  BY <1>1, <1>3, LogRecoverOnly DEF server
<1>4. QED
  BY <1>2, <1>3 DEF Pull

LEMMA RedigestLog == ASSUME IInv, LogInv, NEW d \in Device, Redigest(d) PROVE LogInv'
<1> DEFINE w == run[d]
           u == Done(w, "settings")
           g == CHOOSE v \in Value : local[d]["settings"] = {v}
           q == [u.pos EXCEPT !.digest = g]
           x == [u EXCEPT !.pos = q]
<1>1. /\ "settings" \in Resource /\ w.pc = "digest" /\ w \in RunType /\ w.pos \in Pos
      /\ UNCHANGED <<server, shadow, saved>> /\ ~Resealing(w)
  BY PassFacts DEF Redigest, Resealing, Resource
<1>2. /\ u \in RunType /\ u.pc = "sync" /\ u.pos = w.pos /\ u.todo \subseteq w.todo
      /\ u.probe \subseteq w.probe /\ u.ver["contacts"] = w.ver["contacts"]
      /\ u.through = w.through /\ u.head = w.head
  BY <1>1, DoneFields, DoneOK
<1>3. run' = [run EXCEPT ![d] = [u EXCEPT !.pos.digest = g]]
  BY DEF Redigest
<1> HIDE DEF u, g
<1>4. [u EXCEPT !.pos.digest = g] = x
  BY <1>2 DEF RunType
<1>5. q.seq = w.pos.seq /\ q.snap = w.pos.snap
  BY <1>1, <1>2 DEF Pos
<1> HIDE DEF q
<1>6. /\ x.pc = "sync" /\ x.pos = q /\ x.ver = u.ver /\ x.through = u.through
      /\ x.head = u.head /\ x.todo = u.todo /\ x.probe = u.probe
  BY <1>2 DEF RunType
<1> HIDE DEF x
<1>7. ~Resealing(x) /\ run' = [run EXCEPT ![d] = x]
  BY <1>3, <1>4, <1>6 DEF Resealing
<1>8. QED
  BY <1>1, <1>2, <1>5, <1>6, <1>7, LogSameOnly DEF server

LEMMA ProbeLog ==
    ASSUME IInv, LogInv, NEW d \in Device, NEW r \in Resource, Probe(d, r) PROVE LogInv'
<1>1. /\ run[d].pc = "sync" /\ r \in run[d].probe /\ UNCHANGED <<server, shadow, saved>>
      /\ RecoverOrphan(run[d], d, r) \/ run' = [run EXCEPT ![d] = Done(run[d], r)]
  BY DEF Probe
<1>2. ~Resealing(run[d])
  BY <1>1 DEF Resealing
<1>3. CASE RecoverOrphan(run[d], d, r)
  BY <1>1, <1>3, LogRecoverOnly DEF server
<1>4. CASE run' = [run EXCEPT ![d] = Done(run[d], r)]
  BY <1>1, <1>2, <1>4, LogDoneOnly DEF server
<1>5. QED
  BY <1>1, <1>3, <1>4

LEMMA RekeyNextLog ==
    ASSUME IInv, LogInv, NEW d \in Device, NEW r \in Resource, RekeyNext(d, r) PROVE LogInv'
<1> DEFINE w == run[d]
<1>1. /\ w.pc = "sync" /\ r \in w.todo /\ UNCHANGED <<server, shadow, saved>>
      /\ run' = [run EXCEPT ![d] = ToReseal(w, d, r)]
  BY DEF RekeyNext
<1>2. ~Resealing(w) /\ RunLog(w, saved[d], shadow[d], blob["contacts"].ver, through, head)
  BY <1>1 DEF Resealing, LogInv, DeviceLog
<1>3. r = "contacts" => saved[d].seq <= w.head
  BY <1>1, <1>2 DEF RunLog, TodoLog
<1>4. RunLog(ToReseal(w, d, r), saved[d], shadow[d], blob["contacts"].ver, through, head)
  BY <1>2, <1>3, LogTypes, LogToReseal
<1>5. QED
  BY <1>1, <1>4, LogRun DEF server

LEMMA SkipResealLog == ASSUME IInv, LogInv, NEW d \in Device, SkipReseal(d) PROVE LogInv'
<1>1. /\ run[d].pc = "reseal" /\ UNCHANGED <<server, shadow, saved>>
      /\ run' = [run EXCEPT ![d] = Done(run[d], run[d].cur)]
  BY DEF SkipReseal
<1>2. run[d].cur \in Resource /\ (run[d].cur = "contacts" \/ ~Resealing(run[d]))
  BY <1>1, ResealFacts DEF Resealing
<1>3. QED
  BY <1>1, <1>2, LogDoneOnly DEF server

LEMMA ResealConflictsLog ==
    ASSUME IInv, LogInv, NEW d \in Device, ResealConflicts(d) PROVE LogInv'
<1> DEFINE w == run[d]
           h == IF w.cur = "contacts" THEN head ELSE w.head
           x == [w EXCEPT !.at = blob[w.cur].ver, !.tries = w.tries + 1, !.head = h]
<1>1. /\ w.pc = "reseal" /\ w \in RunType /\ UNCHANGED <<server, shadow, saved>>
  BY RunFacts DEF ResealConflicts
<1>2. run' = [run EXCEPT ![d] = x]
  BY <1>1 DEF ResealConflicts, IInv, RunsOK, RunType
<1>3. /\ x.pc = w.pc /\ x.cur = w.cur /\ x.pos = w.pos /\ x.todo = w.todo /\ x.probe = w.probe
      /\ x.ver = w.ver /\ x.through = w.through /\ x.head = h /\ x.at = blob[w.cur].ver
  BY <1>1 DEF RunType
<1> HIDE DEF x
<1>4. RunLog(w, saved[d], shadow[d], blob["contacts"].ver, through, head)
  BY DEF LogInv, DeviceLog
<1>5. CASE w.cur = "contacts"
  <2>1. Resealing(w) /\ Resealing(x)
    BY <1>1, <1>3, <1>5 DEF Resealing
  <2>2. x.head = head /\ x.at = blob["contacts"].ver
    BY <1>3, <1>5
  <2>3. PosLog(saved[d], shadow[d], blob["contacts"].ver, through, head) /\ through <= head
    BY DEF LogInv, DeviceLog, LogOK
  <2>4. StateLog(x, blob["contacts"].ver, through, head)
    BY <1>3, <1>4, <2>2, <2>3, LogTypes DEF RunLog, StateLog
  <2>5. ResealLog(x, saved[d], blob["contacts"].ver, through)
    BY <2>2, <2>3, LogTypes DEF ResealLog, PosLog
  <2>6. RunLog(x, saved[d], shadow[d], blob["contacts"].ver, through, head)
    BY <1>1, <1>3, <1>4, <2>1, <2>4, <2>5 DEF RunLog, TodoLog
  <2>7. QED
    BY <1>1, <1>2, <2>6, LogRun DEF server
<1>6. CASE w.cur # "contacts"
  <2>1. ~Resealing(w) /\ ~Resealing(x) /\ x.head = w.head
    BY <1>3, <1>6 DEF Resealing
  <2>2. QED
    BY <1>1, <1>2, <1>3, <2>1, LogSameOnly DEF server
<1>7. QED
  BY <1>5, <1>6

\* The reseal of the contacts truncates through the head that goes with the version
\* it replaces; the run is past it, and all others are behind.
LEMMA ResealLogInv == ASSUME IInv, LogInv, NEW d \in Device, Reseal(d) PROVE LogInv'
<1> DEFINE w == run[d]
           r == w.cur
           u == Done(w, r)
           n == [ver |-> blob[r].ver + 1, key |-> key[d], data |-> w.src]
<1>1. /\ r \in Resource /\ w.pc = "reseal" /\ w \in RunType /\ w.pos \in Pos
      /\ w.at = blob[r].ver /\ ~NothingToSeal(w) /\ blob' = [blob EXCEPT ![r] = n]
      /\ head' = head /\ saved' = saved
  BY ResealFacts, PassFacts DEF Reseal
<1>2. n.ver = blob[r].ver + 1 /\ n.data = w.src
  OBVIOUS
<1> HIDE DEF n
<1>3. /\ u \in RunType /\ u.pc = "sync" /\ u.pos = w.pos /\ u.todo = w.todo \ {r}
      /\ u.probe = w.probe \ {r}
      /\ r = "contacts" => u.ver["contacts"] = 0 /\ u.through = 0 /\ u.head = 0
      /\ r # "contacts" => /\ u.ver["contacts"] = w.ver["contacts"]
                           /\ u.through = w.through /\ u.head = w.head
  BY <1>1, DoneFields, DoneOK
<1>4. /\ LogOK /\ PosLog(saved[d], shadow[d], blob["contacts"].ver, through, head)
      /\ RunLog(w, saved[d], shadow[d], blob["contacts"].ver, through, head)
  BY DEF LogInv, DeviceLog
<1>5. CASE r = "contacts"
  <2> DEFINE q == [u.pos EXCEPT !.seq = w.head, !.snap = w.at + 1]
             x == [u EXCEPT !.pos = q]
             v == blob["contacts"].ver
  <2>1. /\ through' = w.head /\ ops' = {o \in ops : o.seq > w.head}
        /\ shadow' = [shadow EXCEPT ![d] = NoShadow]
        /\ run' = [run EXCEPT ![d] = [u EXCEPT !.pos.seq = w.head, !.pos.snap = w.at + 1]]
    BY <1>5 DEF Reseal
  <2> HIDE DEF u
  <2>2. [u EXCEPT !.pos.seq = w.head, !.pos.snap = w.at + 1] = x
    BY <1>3 DEF RunType
  <2>3. q.seq = w.head /\ q.snap = v + 1
    BY <1>1, <1>3, <1>5 DEF Pos
  <2> HIDE DEF q
  <2>4. /\ x.pc = "sync" /\ x.pos = q /\ x.ver = u.ver /\ x.through = u.through
        /\ x.head = u.head /\ x.todo = u.todo /\ x.probe = u.probe
    BY <1>3 DEF RunType
  <2> HIDE DEF x
  <2>5. /\ run'[d] = x /\ shadow'[d] = NoShadow
        /\ \A e \in Device \ {d} : run'[e] = run[e] /\ shadow'[e] = shadow[e]
    BY <2>1, <2>2 DEF IInv, RunsOK, DeviceOK
  <2>6. Resealing(w) /\ w.at = v
    BY <1>1, <1>5 DEF Resealing
  <2>7. saved[d].seq <= w.head /\ through <= w.head /\ w.head <= head
    BY <1>4, <2>6 DEF RunLog, ResealLog, StateLog
  <2>8. blob'["contacts"] = n /\ n.ver = v + 1
    BY <1>1, <1>2, <1>5 DEF IInv, ServerOK
  <2>9. n.data = {} => w.head = 0
    BY <1>2, <1>5, LogTypes DEF Reseal, NothingToSeal, HasData
  <2>10. LogOK'
    <3>1. head > w.head => \E o \in ops' : o.seq = head
      <4>1. SUFFICES ASSUME head > w.head PROVE \E o \in ops' : o.seq = head
        OBVIOUS
      <4>2. PICK o \in ops : o.seq = head
        BY <1>4, <2>7, <4>1, LogTypes DEF LogOK
      <4>3. QED
        BY <2>1, <4>1, <4>2
    <3>2. \A o \in ops' : o.data # {}
      BY <1>4, <2>1 DEF LogOK
    <3>3. QED
      BY <1>1, <2>1, <2>7, <2>8, <2>9, <3>1, <3>2, LogTypes DEF LogOK
  <2>11. PosLog(saved[d], NoShadow, v + 1, w.head, head)
    BY <1>4, <2>7, LogTypes DEF PosLog, SnapFits, Covered
  <2>12. PosLog(q, NoShadow, v + 1, w.head, head)
    BY <2>3, <2>7, LogTypes DEF PosLog, SnapFits, Covered
  <2>13. RunLog(x, saved[d], NoShadow, v + 1, w.head, head)
    <3>1. StateLog(x, v + 1, w.head, head)
      BY <1>3, <1>5, <2>4, LogTypes DEF StateLog
    <3>2. QED
      BY <1>3, <1>5, <2>4, <2>12, <3>1 DEF RunLog, TodoLog, ResealLog, Resealing
  <2>14. DeviceLog(d)'
    BY <1>1, <2>1, <2>5, <2>8, <2>11, <2>13 DEF DeviceLog
  <2>15. QED
    BY <1>1, <2>1, <2>5, <2>7, <2>8, <2>10, <2>14, LogTypes, LogStep
<1>6. CASE r # "contacts"
  <2>1. blob'["contacts"] = blob["contacts"]
    BY <1>1, <1>6 DEF IInv, ServerOK
  <2>2. UNCHANGED <<through, ops, shadow>> /\ ~Resealing(w)
    BY <1>6 DEF Reseal, Resealing
  <2>3. CASE r = "settings"
    <3> DEFINE q == [u.pos EXCEPT !.ver = w.at + 1]
               x == [u EXCEPT !.pos = q]
    <3>1. run' = [run EXCEPT ![d] = [u EXCEPT !.pos.ver = w.at + 1]]
      BY <2>3 DEF Reseal
    <3> HIDE DEF u
    <3>2. [u EXCEPT !.pos.ver = w.at + 1] = x
      BY <1>3 DEF RunType
    <3>3. q.seq = w.pos.seq /\ q.snap = w.pos.snap
      BY <1>1, <1>3 DEF Pos
    <3> HIDE DEF q
    <3>4. /\ x.pc = "sync" /\ x.pos = q /\ x.ver = u.ver /\ x.through = u.through
          /\ x.head = u.head /\ x.todo = u.todo /\ x.probe = u.probe
      BY <1>3 DEF RunType
    <3> HIDE DEF x
    <3>5. ~Resealing(x) /\ run' = [run EXCEPT ![d] = x]
      BY <3>1, <3>2, <3>4 DEF Resealing
    <3>6. QED
      BY <1>1, <1>3, <1>6, <2>1, <2>2, <3>3, <3>4, <3>5, LogSameOnly
  <2>4. CASE r # "settings"
    <3>1. run' = [run EXCEPT ![d] = u]
      BY <1>6, <2>4 DEF Reseal
    <3>2. QED
      BY <1>1, <2>1, <2>2, <3>1, LogDoneOnly
  <2>5. QED
    BY <2>3, <2>4
<1>7. QED
  BY <1>5, <1>6

\* A run begins with the saved position and a state GET of one moment.
LEMMA FetchedLog ==
    ASSUME IInv, LogInv, NEW d \in Device, NEW x, run' = [run EXCEPT ![d] = x],
           x.pc = "sync", x.pos = saved[d], x.ver = Fetched(d).ver,
           x.through = Fetched(d).through, x.head = Fetched(d).head,
           UNCHANGED <<server, shadow, saved>>
    PROVE  LogInv'
<1>1. x.ver["contacts"] = blob["contacts"].ver /\ x.through = through /\ x.head = head
  BY LogTypes DEF Fetched, NoRun
<1>2. LogOK /\ PosLog(saved[d], shadow[d], blob["contacts"].ver, through, head)
  BY DEF LogInv, DeviceLog
<1>3. StateLog(x, blob["contacts"].ver, through, head)
  BY <1>1, <1>2, LogTypes DEF StateLog, LogOK
<1>4. TodoLog(x, saved[d], shadow[d])
  BY <1>1, <1>2 DEF TodoLog, PosLog
<1>5. RunLog(x, saved[d], shadow[d], blob["contacts"].ver, through, head)
  BY <1>2, <1>3, <1>4 DEF RunLog, ResealLog, Resealing
<1>6. QED
  BY <1>5, LogRun DEF server

LEMMA StartLog ==
    ASSUME IInv, LogInv, NEW d \in Device, NEW e \in Device, NEW mode \in Mode,
           NEW approve \in SUBSET Resource, Start(d, e, mode, approve)
    PROVE  LogInv'
<1> DEFINE p == IF mode.background THEN {} ELSE Resource \ mode.sel
           x == [Fetched(d) EXCEPT !.pc = "sync", !.todo = mode.sel, !.approve = approve,
                             !.probe = p]
<1>1. run' = [run EXCEPT ![d] = x] /\ UNCHANGED <<server, shadow, saved>>
  BY DEF Start
<1>2. Fetched(d) \in RunType /\ Fetched(d).pos = saved[d]
  BY FetchedOK
<1>3. /\ x.pc = "sync" /\ x.pos = saved[d] /\ x.ver = Fetched(d).ver
      /\ x.through = Fetched(d).through /\ x.head = Fetched(d).head
  BY <1>2 DEF RunType
<1> HIDE DEF x
<1>4. QED
  BY <1>1, <1>3, FetchedLog

LEMMA NewDefaultLog ==
    ASSUME IInv, LogInv, NEW d \in Device, NEW k \in Key, NEW online \in BOOLEAN,
           NewDefault(d, k, online)
    PROVE  LogInv'
<1> DEFINE t == IF saved[d].digest = NoDigest THEN Resource \ {"settings"} ELSE Resource
           x == [Fetched(d) EXCEPT !.pc = "sync", !.rekey = TRUE, !.todo = t]
<1>1. UNCHANGED <<server, shadow, saved>> /\ (run' = [run EXCEPT ![d] = x] \/ run' = run)
  BY DEF NewDefault
<1>2. Fetched(d) \in RunType /\ Fetched(d).pos = saved[d]
  BY FetchedOK
<1>3. /\ x.pc = "sync" /\ x.pos = saved[d] /\ x.ver = Fetched(d).ver
      /\ x.through = Fetched(d).through /\ x.head = Fetched(d).head
  BY <1>2 DEF RunType
<1> HIDE DEF x
<1>4. CASE run' = run
  BY <1>1, <1>4 DEF LogInv, LogOK, DeviceLog, server
<1>5. QED
  BY <1>1, <1>3, <1>4, FetchedLog

LEMMA LogNoRun ==
    ASSUME IInv, LogInv, NEW d \in Device, run' = [run EXCEPT ![d] = NoRun],
           UNCHANGED <<server, shadow, saved>>
    PROVE  LogInv'
BY NoRunLog, LogRun DEF server

LEMMA FailedLog ==
    ASSUME IInv, LogInv, NEW d \in Device, run[d].pc \in {"push", "pull", "reseal"},
           run' = [run EXCEPT ![d] = Failed(d)], UNCHANGED <<server, shadow, saved>>
    PROVE  LogInv'
<1>1. CASE Failed(d) = NoRun
  BY <1>1, LogNoRun
<1>2. CASE run[d].pc = "reseal" /\ Failed(d) = Done(run[d], run[d].cur)
  <2>1. run[d].cur \in Resource /\ (run[d].cur = "contacts" \/ ~Resealing(run[d]))
    BY <1>2, ResealFacts DEF Resealing
  <2>2. QED
    BY <1>2, <2>1, LogDoneOnly DEF server
<1>3. CASE run[d].pc # "reseal" /\ Failed(d) = Done(run[d], "settings")
  <2>1. "settings" \in Resource /\ ~Resealing(run[d])
    BY <1>3 DEF Resource, Resealing
  <2>2. QED
    BY <1>3, <2>1, LogDoneOnly DEF server
<1>4. QED
  BY <1>1, <1>2, <1>3 DEF Failed

LEMMA FinishLog == ASSUME IInv, LogInv, NEW d \in Device, Finish(d) PROVE LogInv'
<1>1. /\ UNCHANGED <<server, shadow>> /\ saved' = [saved EXCEPT ![d] = run[d].pos]
      /\ run' = [run EXCEPT ![d] = NoRun]
  BY DEF Finish
<1>2. /\ run'[d] = NoRun /\ \A e \in Device \ {d} : run'[e] = run[e]
      /\ saved'[d] = run[d].pos /\ \A e \in Device \ {d} : saved'[e] = saved[e]
  BY <1>1 DEF IInv, RunsOK, DeviceOK
<1>3. PosLog(run[d].pos, shadow[d], blob["contacts"].ver, through, head)
  BY DEF LogInv, DeviceLog, RunLog
<1>4. DeviceLog(d)'
  BY <1>1, <1>2, <1>3, NoRunLog DEF DeviceLog, server
<1>5. LogOK'
  BY <1>1 DEF LogInv, LogOK, server
<1>6. QED
  BY <1>1, <1>2, <1>4, <1>5, LogTypes, LogStep DEF server

LEMMA LogOutLog == ASSUME IInv, LogInv, NEW d \in Device, LogOut(d) PROVE LogInv'
<1>1. /\ UNCHANGED <<server, run>> /\ saved' = [saved EXCEPT ![d] = NoPos]
      /\ shadow' = [shadow EXCEPT ![d] = NoShadow] /\ run[d].pc = "idle"
  BY DEF LogOut
<1>2. /\ saved'[d] = NoPos /\ shadow'[d] = NoShadow
      /\ \A e \in Device \ {d} : saved'[e] = saved[e] /\ shadow'[e] = shadow[e]
  BY <1>1 DEF IInv, DeviceOK
<1>3. run[d] = NoRun
  BY <1>1 DEF LogInv, DeviceLog, RunLog
<1>4. DeviceLog(d)'
  BY <1>1, <1>2, <1>3, NoRunLog DEF DeviceLog, server
<1>5. LogOK'
  BY <1>1 DEF LogInv, LogOK, server
<1>6. QED
  BY <1>1, <1>2, <1>4, <1>5, LogTypes, LogStep DEF server

LEMMA InitLog == Init => LogInv
<1>1. SUFFICES ASSUME Init PROVE LogInv
  OBVIOUS
<1>2. IInv /\ "contacts" \in Resource
  BY <1>1, InitInv DEF Resource
<1>3. through = 0 /\ head = 0 /\ ops = {} /\ \A d \in Device : run[d] = NoRun
  BY <1>1 DEF Init
<1>4. LogOK
  BY <1>3 DEF LogOK
<1>5. blob["contacts"].ver \in Nat
  BY <1>2 DEF IInv, ServerOK
<1>6. \A d \in Device : saved[d].seq = 0 /\ saved[d].snap <= blob["contacts"].ver
  BY <1>1, <1>2 DEF Init, NoPos
<1>7. \A d \in Device : PosLog(saved[d], shadow[d], blob["contacts"].ver, 0, 0)
  BY <1>6 DEF PosLog, SnapFits, Covered
<1>8. \A p, s : RunLog(NoRun, p, s, blob["contacts"].ver, 0, 0)
  <2>1. /\ NoRun.pc = "idle" /\ NoRun.pos.seq = 0 /\ NoRun.pos.snap = 0
        /\ NoRun.todo = {} /\ NoRun.probe = {}
        /\ NoRun.ver["contacts"] = 0 /\ NoRun.through = 0 /\ NoRun.head = 0
    BY DEF NoRun, NoPos, Resource
  <2> HIDE DEF NoRun
  <2>2. \A s : PosLog(NoRun.pos, s, blob["contacts"].ver, 0, 0)
    BY <1>5, <2>1 DEF PosLog, SnapFits, Covered
  <2>3. StateLog(NoRun, blob["contacts"].ver, 0, 0)
    BY <1>5, <2>1 DEF StateLog
  <2>4. QED
    BY <2>1, <2>2, <2>3 DEF RunLog, TodoLog, ResealLog, Resealing
<1>9. QED
  BY <1>3, <1>4, <1>7, <1>8 DEF LogInv, DeviceLog

LEMMA NextLog == IInv /\ LogInv /\ [Next]_vars => LogInv'
<1>1. SUFFICES ASSUME IInv, LogInv, Next PROVE LogInv'
  BY DEF LogInv, LogOK, DeviceLog, vars, server
<1>2. PICK d \in Device : UserStep(d) \/ RunStep(d) \/ CallFails(d) \/ Crash(d) \/ LogOut(d)
  BY <1>1 DEF Next
<1>3. CASE UserStep(d)
  <2>1. ASSUME NEW v \in Value, EditSettings(d, v) PROVE LogInv'
    BY <1>1, <2>1 DEF EditSettings, LogInv, LogOK, DeviceLog, server
  <2>2. QED
    BY <1>1, <1>3, <2>1, NewDefaultLog, StartLog DEF UserStep
<1>4. CASE RunStep(d)
  <2>1. CASE SyncContacts(d) \/ SyncGroups(d) \/ SyncSettings(d)
    BY <1>1, <2>1, SyncContactsLog, SyncGroupsLog, SyncSettingsLog
  <2>2. CASE Push(d) \/ Pull(d) \/ Redigest(d)
    BY <1>1, <2>2, PushLog, PullLog, RedigestLog
  <2>3. CASE \E r \in Resource : Probe(d, r) \/ RekeyNext(d, r)
    BY <1>1, <2>3, ProbeLog, RekeyNextLog
  <2>4. CASE SkipReseal(d) \/ Reseal(d) \/ ResealConflicts(d)
    BY <1>1, <2>4, SkipResealLog, ResealLogInv, ResealConflictsLog
  <2>5. CASE TooManyConflicts(d)
    BY <1>1, <2>5, FailedLog DEF TooManyConflicts
  <2>6. CASE Finish(d)
    BY <1>1, <2>6, FinishLog
  <2>7. QED
    BY <1>4, <2>1, <2>2, <2>3, <2>4, <2>5, <2>6 DEF RunStep
<1>5. CASE CallFails(d)
  BY <1>1, <1>5, FailedLog DEF CallFails
<1>6. CASE Crash(d)
  BY <1>1, <1>6, LogNoRun DEF Crash
<1>7. CASE LogOut(d)
  BY <1>1, <1>7, LogOutLog
<1>8. QED
  BY <1>2, <1>3, <1>4, <1>5, <1>6, <1>7

LEMMA LogInvariance == Spec => []LogInv
BY InitInv, InitLog, NextInv, NextLog, PTL DEF Spec

-----------------------------------------------------------------------------
(* No list is emptied, no foreign copy replaced unasked.                    *)

\* A reseal from an empty list meets an empty cloud: the guard of resealBlob and
\* of resealContacts is asked before every PUT, and the PUT names the version.
LEMMA ResealKeepsSome ==
    ASSUME IInv, NEW d \in Device, Reseal(d),
           NEW r \in {"contacts", "groups"}, Stored(r) # {}
    PROVE  Stored(r)' # {}
<1> DEFINE w == run[d]
           c == w.cur
           n == [ver |-> blob[c].ver + 1, key |-> key[d], data |-> w.src]
<1>1. w \in RunType /\ c \in Resource /\ w.at \in Nat /\ w.head \in Nat
  BY RunFacts, ResealFacts DEF Reseal, RunType
<1>2. blob' = [blob EXCEPT ![c] = n] /\ w.at = blob[c].ver /\ ~NothingToSeal(w)
  BY DEF Reseal
<1>3. blob \in [Resource -> [ver : Nat, key : Key, data : Data]] /\ r \in Resource
  BY DEF IInv, ServerOK, Resource
<1>4. ops' = IF c = "contacts" THEN {o \in ops : o.seq > w.head} ELSE ops
  BY DEF Reseal
<1>5. CASE c # r
  <2>1. blob'[r] = blob[r]
    BY <1>1, <1>2, <1>3, <1>5
  <2>2. r = "contacts" => ops' = ops
    BY <1>4, <1>5
  <2>3. QED
    BY <2>1, <2>2 DEF Stored
<1>6. CASE c = r /\ w.src # {}
  <2>1. blob'[r].data = w.src
    BY <1>2, <1>3, <1>6
  <2>2. QED
    BY <1>6, <2>1 DEF Stored
<1>7. CASE c = r /\ w.src = {}
  <2>1. w.at = 0 /\ (r = "contacts" => w.head = 0)
    BY <1>1, <1>2, <1>7 DEF NothingToSeal, HasData
  <2>2. blob[r].data = {}
    BY <1>2, <1>3, <1>7, <2>1 DEF IInv, ServerOK
  <2>3. PICK o \in ops : r = "contacts" /\ o.data # {}
    BY <2>2 DEF Stored
  <2>4. o.seq > 0
    BY DEF IInv, ServerOK
  <2>5. o \in ops'
    BY <1>4, <1>7, <2>1, <2>3, <2>4
  <2>6. QED
    BY <2>3, <2>5 DEF Stored
<1>8. QED
  BY <1>5, <1>6, <1>7

LEMMA ContactsKeepSome ==
    ASSUME IInv, LogInv, NEW d \in Device, SyncContacts(d),
           NEW r \in {"contacts", "groups"}, Stored(r) # {}
    PROVE  Stored(r)' # {}
<1>1. CASE blob' = blob /\ ops \subseteq ops'
  <2>1. Stored(r) \subseteq Stored(r)'
    BY <1>1 DEF Stored
  <2>2. QED
    BY <2>1
<1>2. CASE ContactsMerged(d) /\ Compacts(d)
  <2>1. blob' = [blob EXCEPT !["contacts"] = Snapshot(d)]
    BY <1>2, MergedSplit
  <2>2. r = "groups" => blob'[r] = blob[r]
    BY <2>1 DEF IInv, ServerOK, Resource
  <2>3. blob'["contacts"].data = Merged(d)
    BY <2>1, PassFacts DEF Snapshot, IInv, ServerOK
  <2>4. Merged(d) # {}
    BY <1>2, CompactsSome DEF SyncContacts, Turn
  <2>5. QED
    BY <2>2, <2>3, <2>4 DEF Stored
<1>3. CASE ContactsMerged(d) /\ ~Compacts(d)
  BY <1>1, <1>3, MergedSplit DEF Appended
<1>4. CASE ContactsSealed(d)
  BY <1>1, <1>4, SealedSplit DEF Appended
<1>5. QED
  BY <1>1, <1>2, <1>3, <1>4 DEF SyncContacts

LEMMA StepKeepsSome ==
    ASSUME IInv, LogInv, [Next]_vars, NEW r \in {"contacts", "groups"}, Stored(r) # {}
    PROVE  Stored(r)' # {}
<1>1. blob \in [Resource -> [ver : Nat, key : Key, data : Data]] /\ r \in Resource
  BY DEF IInv, ServerOK, Resource
<1>2. CASE UNCHANGED <<blob, ops>>
  BY <1>2 DEF Stored
<1>3. ASSUME NEW d \in Device, SyncContacts(d) PROVE Stored(r)' # {}
  BY <1>3, ContactsKeepSome
<1>4. ASSUME NEW d \in Device, SyncGroups(d) PROVE Stored(r)' # {}
  <2> DEFINE merged == local[d]["groups"] \cup blob["groups"].data
             n      == [ver |-> blob["groups"].ver + 1, key |-> key[d], data |-> merged]
  <2>1. ops' = ops
    BY <1>4 DEF SyncGroups
  <2>2. blob' = blob \/ blob' = [blob EXCEPT !["groups"] = n]
    BY <1>4 DEF SyncGroups
  <2>3. n.data = merged
    OBVIOUS
  <2> HIDE DEF n
  <2>4. blob[r].data \subseteq blob'[r].data
    BY <1>1, <2>2, <2>3
  <2>5. QED
    BY <2>1, <2>4 DEF Stored
<1>5. ASSUME NEW d \in Device, Push(d) PROVE Stored(r)' # {}
  <2>1. blob'[r] = blob[r] /\ ops' = ops
    BY <1>1, <1>5 DEF Push
  <2>2. QED
    BY <2>1 DEF Stored
<1>6. QED
  BY <1>2, <1>3, <1>4, <1>5, ResealKeepsSome, Writers

\* No list of the cloud is ever emptied: the guard of resealBlob and of
\* resealContacts (ErrNoLocalToRecover) holds through conflicts and retries, and a
\* compaction has the entries of the ops that it truncates.
THEOREM NothingWiped == Spec => NeverWiped
<1>1. IInv /\ LogInv /\ [Next]_vars =>
        [\A r \in {"contacts", "groups"} : Stored(r) # {} => Stored(r)' # {}]_vars
  BY StepKeepsSome
<1>2. QED
  BY <1>1, Invariance, LogInvariance, PTL DEF NeverWiped, Spec

\* A compaction over a snapshot of another key is by a device that is past it.
LEMMA CompactionIsPast ==
    ASSUME IInv, LogInv, NEW d \in Device, SyncContacts(d),
           NEW r \in Resource, ReplacesForeign(d, r)
    PROVE  r = "contacts" /\ shadow[d] # NoShadow /\ run[d].pos.seq >= through
<1> DEFINE w == run[d]
<1>1. ContactsMerged(d) /\ Compacts(d)
  BY MergedSplit, SealedSplit DEF SyncContacts, ReplacesForeign
<1>2. r = "contacts"
  BY <1>1, MergedSplit, PassFacts DEF ReplacesForeign, IInv, ServerOK
<1>3. ~Bootstraps(d) /\ w.ver["contacts"] # 0 /\ w.ver["contacts"] = blob["contacts"].ver
  BY <1>1, <1>2, MergedSplit DEF ReplacesForeign, SnapshotOpens, Openable, Compacts
<1>4. shadow[d] # NoShadow
  BY <1>3 DEF Bootstraps
<1>5. through <= FromSeq(d) /\ FromSeq(d) = w.pos.seq
  BY <1>3, FromCovers DEF FromSeq
<1>6. QED
  BY <1>2, <1>4, <1>5, PassFacts

LEMMA WriteIsApproved ==
    ASSUME IInv, LogInv, NEW d \in Device, NEW r \in Resource, ReplacesForeign(d, r)
    PROVE  \/ Approved(d, r)
           \/ /\ r = "contacts" /\ SyncContacts(d)
              /\ shadow[d] # NoShadow /\ run[d].pos.seq >= through
<1>1. /\ blob \in [Resource -> [ver : Nat, key : Key, data : Data]]
      /\ RunStep(d) /\ blob[r].ver # 0 /\ blob[r].key # key[d] /\ blob'[r] # blob[r]
  BY DEF IInv, ServerOK, ReplacesForeign
<1>2. CASE SyncGroups(d)
  <2>1. r = "groups"
    BY <1>1, <1>2 DEF SyncGroups
  <2>2. Openable(d, "groups")
    BY <1>1, <1>2 DEF SyncGroups
  <2>3. QED
    BY <1>1, <2>1, <2>2 DEF Openable
<1>3. CASE Push(d)
  <2>1. r = "settings" /\ run[d].at = blob["settings"].ver
    BY <1>1, <1>3 DEF Push
  <2>2. QED
    BY <1>1, <1>3, <2>1, RunFacts DEF Push, RunFits, PushFits
<1>4. CASE Reseal(d)
  <2>1. r = run[d].cur
    BY <1>1, <1>4 DEF Reseal
  <2>2. QED
    BY <1>4, <2>1, ResealFacts DEF Reseal, Approved
<1>5. CASE SyncContacts(d)
  BY <1>5, CompactionIsPast
<1>6. CASE ~(SyncContacts(d) \/ SyncGroups(d) \/ Push(d) \/ Reseal(d))
  BY <1>1, <1>6 DEF RunStep, SyncSettings, Pull, Redigest, Probe, RekeyNext,
                    SkipReseal, ResealConflicts, TooManyConflicts, Finish, server
<1>7. QED
  BY <1>2, <1>3, <1>4, <1>5, <1>6

\* recoverOrphan's rule for every interleaving: a copy sealed to another key is
\* replaced only by a re-key, with the user's approval of that resource, or by the
\* compaction of a device that is past the snapshot's through-seq.  The version that
\* a settings push names was sealed to the device's own key.
THEOREM ForeignApproved == Spec => ForeignNeedsApproval
<1>1. IInv /\ LogInv /\ [Next]_vars =>
        [\A d \in Device : \A r \in Resource :
            ReplacesForeign(d, r) =>
               \/ Approved(d, r)
               \/ /\ r = "contacts" /\ SyncContacts(d)
                  /\ shadow[d] # NoShadow /\ run[d].pos.seq >= through]_vars
  BY WriteIsApproved
<1>2. QED
  BY <1>1, Invariance, LogInvariance, PTL DEF ForeignNeedsApproval, Spec

LEMMA WriterHasSynced ==
    ASSUME IInv, NEW d \in Device, Push(d) \/ Reseal(d),
           blob["settings"].ver # 0, blob["settings"] # blob'["settings"]
    PROVE  run[d].pos.digest # NoDigest \/ run[d].pos.ver # 0
<1>1. blob \in [Resource -> [ver : Nat, key : Key, data : Data]]
  BY DEF IInv, ServerOK
<1>2. CASE Push(d)
  <2>1. run[d].pc = "push" /\ run[d].at = blob["settings"].ver
    BY <1>2 DEF Push
  <2>2. QED
    BY <2>1, RunFacts DEF RunFits, PushFits
<1>3. CASE Reseal(d)
  <2>1. run[d].pc = "reseal" /\ run[d].cur = "settings"
    BY <1>1, <1>3 DEF Reseal, Resource
  <2>2. QED
    BY <2>1, ResealFacts
<1>4. QED
  BY <1>2, <1>3

\* A device that never synced its settings (SettingsDigest is "") does not replace
\* the account's, neither in SyncResource nor when it re-keys or recovers.
THEOREM SettingsKept == Spec => FreshKeepsSettings
<1>1. IInv /\ [Next]_vars =>
        [\A d \in Device :
            (Push(d) \/ Reseal(d)) /\ blob["settings"].ver # 0 /\ blob["settings"] # blob'["settings"]
               => run[d].pos.digest # NoDigest \/ run[d].pos.ver # 0]_vars
  BY WriterHasSynced
<1>2. QED
  BY <1>1, Invariance, PTL DEF FreshKeepsSettings, Spec

-----------------------------------------------------------------------------
(* The idle check of the settings.                                          *)

(* What a position says of the settings in the cloud.                       *)
Level(p, b, late) ==
    /\ p.ver <= b.ver
    /\ p.ver = b.ver /\ b.ver # 0 /\ ~late => {p.digest} = b.data

(* And that of a run: until Redigest the version is new and the digest old; *)
(* "mine" is the device's copy.                                             *)
RunLevel(w, b, mine, late) ==
    /\ w.pos.ver <= b.ver
    /\ w.pc # "digest" => Level(w.pos, b, late)
    /\ w.pc = "digest" /\ w.pos.ver = b.ver /\ ~late => mine = b.data
    /\ w.pc = "push" /\ ~late => w.src = mine

DeviceLevel(d) ==
    /\ Level(saved[d], blob["settings"], behind[d])
    /\ RunLevel(run[d], blob["settings"], local[d]["settings"], behind[d])

LevelInv == \A d \in Device : DeviceLevel(d)

LEMMA LevelTypes ==
    ASSUME IInv, NEW d \in Device
    PROVE  /\ "settings" \in Resource
           /\ blob["settings"] \in [ver : Nat, key : Key, data : Data]
           /\ saved[d] \in Pos /\ saved[d].ver \in Nat
           /\ run[d] \in RunType /\ run[d].pos \in Pos /\ run[d].pos.ver \in Nat
           /\ behind[d] \in BOOLEAN
BY RunFacts DEF IInv, ServerOK, DeviceOK, Resource, Pos, RunType

\* A step of d disturbs nobody else: a write to the cloud leaves every other
\* position behind.
LEMMA LevelStep ==
    ASSUME IInv, LevelInv, NEW d \in Device,
           \A e \in Device \ {d} : /\ saved'[e] = saved[e]
                                   /\ run'[e] = run[e]
                                   /\ local'[e]["settings"] = local[e]["settings"]
                                   /\ behind'[e] = behind[e],
           \/ blob'["settings"] = blob["settings"]
           \/ blob'["settings"].ver = blob["settings"].ver + 1,
           DeviceLevel(d)'
    PROVE  LevelInv'
<1> SUFFICES ASSUME NEW e \in Device \ {d} PROVE DeviceLevel(e)'
  BY DEF LevelInv
<1>1. /\ Level(saved[e], blob["settings"], behind[e])
      /\ RunLevel(run[e], blob["settings"], local[e]["settings"], behind[e])
  BY DEF LevelInv, DeviceLevel
<1>2. blob["settings"].ver \in Nat /\ saved[e].ver \in Nat /\ run[e].pos.ver \in Nat
  BY LevelTypes
<1>3. Level(saved[e], blob'["settings"], behind[e])
  BY <1>1, <1>2 DEF Level
<1>4. RunLevel(run[e], blob'["settings"], local[e]["settings"], behind[e])
  BY <1>1, <1>2 DEF Level, RunLevel
<1>5. QED
  BY <1>3, <1>4 DEF DeviceLevel

\* A step of d's run that leaves the positions of the settings as they are.
LEMMA LevelRun ==
    ASSUME IInv, LevelInv, NEW d \in Device, NEW w, run' = [run EXCEPT ![d] = w],
           run[d].pc # "digest", w.pc \notin {"digest", "push"},
           w.pos.ver = run[d].pos.ver, w.pos.digest = run[d].pos.digest,
           blob'["settings"] = blob["settings"], saved' = saved, behind' = behind,
           \A e \in Device : local'[e]["settings"] = local[e]["settings"]
    PROVE  LevelInv'
<1>1. run'[d] = w /\ \A e \in Device \ {d} : run'[e] = run[e]
  BY DEF IInv, RunsOK
<1>2. /\ Level(saved[d], blob["settings"], behind[d])
      /\ Level(run[d].pos, blob["settings"], behind[d])
      /\ run[d].pos.ver <= blob["settings"].ver
  BY DEF LevelInv, DeviceLevel, RunLevel
<1>3. Level(w.pos, blob["settings"], behind[d])
  BY <1>2 DEF Level
<1>4. RunLevel(w, blob["settings"], local[d]["settings"], behind[d])
  BY <1>2, <1>3 DEF RunLevel
<1>5. DeviceLevel(d)'
  BY <1>1, <1>2, <1>4 DEF DeviceLevel
<1>6. QED
  BY <1>1, <1>5, LevelStep

\* A run that is over knows nothing.
LEMMA NoRunLevel ==
    ASSUME IInv, NEW d \in Device
    PROVE  \A m : RunLevel(NoRun, blob["settings"], m, behind[d])
<1>1. NoRun.pc = "idle" /\ NoRun.pos.ver = 0
  BY DEF NoRun, NoPos
<1>2. blob["settings"].ver \in Nat
  BY LevelTypes
<1> HIDE DEF NoRun
<1>3. QED
  BY <1>1, <1>2 DEF RunLevel, Level

LEMMA LevelDone ==
    ASSUME IInv, LevelInv, NEW d \in Device, NEW r \in Resource,
           run' = [run EXCEPT ![d] = Done(run[d], r)], run[d].pc # "digest",
           blob'["settings"] = blob["settings"], saved' = saved, behind' = behind,
           \A e \in Device : local'[e]["settings"] = local[e]["settings"]
    PROVE  LevelInv'
<1>1. Done(run[d], r).pc = "sync" /\ Done(run[d], r).pos = run[d].pos
  BY RunFacts, DoneOK
<1>2. QED
  BY <1>1, LevelRun

LEMMA LevelNoRun ==
    ASSUME IInv, LevelInv, NEW d \in Device, run' = [run EXCEPT ![d] = NoRun],
           blob' = blob, behind' = behind, local' = local, saved' = saved
    PROVE  LevelInv'
<1>1. run'[d] = NoRun /\ \A e \in Device \ {d} : run'[e] = run[e]
  BY DEF IInv, RunsOK
<1>2. DeviceLevel(d)'
  BY <1>1, NoRunLevel DEF DeviceLevel, LevelInv
<1>3. QED
  BY <1>1, <1>2, LevelStep

LEMMA LevelRecover ==
    ASSUME IInv, LevelInv, NEW d \in Device, NEW r \in Resource,
           NEW w \in RunType, RekeyFits(w), RecoverOrphan(w, d, r),
           w.pos.ver = run[d].pos.ver, w.pos.digest = run[d].pos.digest,
           run[d].pc # "digest", blob' = blob, saved' = saved, behind' = behind, local' = local
    PROVE  LevelInv'
<1>1. PICK t \in RunType : /\ run' = [run EXCEPT ![d] = t]
                           /\ t.pc \in {"sync", "reseal"} /\ t.pos = w.pos
  BY RecoverOrphanOK
<1>2. QED
  BY <1>1, LevelRun

LEMMA EditSettingsLevel ==
    ASSUME IInv, LevelInv, NEW d \in Device, NEW v \in Value, EditSettings(d, v)
    PROVE  LevelInv'
<1>1. /\ blob' = blob /\ saved' = saved /\ run' = run
      /\ local' = [local EXCEPT ![d]["settings"] = {v}]
      /\ behind' = [behind EXCEPT ![d] = @ \/ run[d].pc \in {"push", "pull", "digest", "reseal"}]
  BY DEF EditSettings, server
<1>2. \A e \in Device \ {d} : /\ local'[e]["settings"] = local[e]["settings"]
                              /\ behind'[e] = behind[e]
  BY <1>1 DEF IInv, DeviceOK
<1>3. behind'[d] = (behind[d] \/ run[d].pc \in {"push", "pull", "digest", "reseal"})
  BY <1>1 DEF IInv, DeviceOK
<1>4. /\ Level(saved[d], blob["settings"], behind[d])
      /\ RunLevel(run[d], blob["settings"], local[d]["settings"], behind[d])
  BY DEF LevelInv, DeviceLevel
<1>5. Level(saved[d], blob["settings"], behind'[d])
  BY <1>3, <1>4 DEF Level
<1>6. RunLevel(run[d], blob["settings"], local'[d]["settings"], behind'[d])
  BY <1>3, <1>4 DEF Level, RunLevel
<1>7. QED
  BY <1>1, <1>2, <1>5, <1>6, LevelStep DEF DeviceLevel

\* A run begins with the saved positions.
LEMMA LevelFetched ==
    ASSUME IInv, LevelInv, NEW d \in Device, NEW w, run' = [run EXCEPT ![d] = w],
           w.pc = "sync", w.pos = saved[d],
           blob' = blob, saved' = saved, behind' = behind, local' = local
    PROVE  LevelInv'
<1>1. run'[d] = w /\ \A e \in Device \ {d} : run'[e] = run[e]
  BY DEF IInv, RunsOK
<1>2. Level(saved[d], blob["settings"], behind[d])
  BY DEF LevelInv, DeviceLevel
<1>3. RunLevel(w, blob["settings"], local[d]["settings"], behind[d])
  BY <1>2 DEF RunLevel, Level
<1>4. DeviceLevel(d)'
  BY <1>1, <1>2, <1>3 DEF DeviceLevel
<1>5. QED
  BY <1>1, <1>4, LevelStep

LEMMA StartLevel ==
    ASSUME IInv, LevelInv, NEW d \in Device, NEW e \in Device, NEW mode \in Mode,
           NEW approve \in SUBSET Resource, Start(d, e, mode, approve)
    PROVE  LevelInv'
<1> DEFINE p == IF mode.background THEN {} ELSE Resource \ mode.sel
           w == [Fetched(d) EXCEPT !.pc = "sync", !.todo = mode.sel, !.approve = approve,
                             !.probe = p]
<1>1. run' = [run EXCEPT ![d] = w]
  BY DEF Start
<1>2. w.pc = "sync" /\ w.pos = saved[d]
  BY FetchedOK DEF RunType
<1> HIDE DEF w
<1>3. QED
  BY <1>1, <1>2, LevelFetched DEF Start, server

LEMMA NewDefaultLevel ==
    ASSUME IInv, LevelInv, NEW d \in Device, NEW k \in Key, NEW online \in BOOLEAN,
           NewDefault(d, k, online)
    PROVE  LevelInv'
<1> DEFINE t == IF saved[d].digest = NoDigest THEN Resource \ {"settings"} ELSE Resource
           w == [Fetched(d) EXCEPT !.pc = "sync", !.rekey = TRUE, !.todo = t]
<1>1. w.pc = "sync" /\ w.pos = saved[d]
  BY FetchedOK DEF RunType
<1>2. blob' = blob /\ saved' = saved /\ behind' = behind /\ local' = local
  BY DEF NewDefault, server
<1>3. CASE run' = run
  BY <1>2, <1>3 DEF LevelInv, DeviceLevel
<1>4. CASE run' = [run EXCEPT ![d] = w]
  <2> HIDE DEF w
  <2>1. QED
    BY <1>1, <1>2, <1>4, LevelFetched
<1>5. QED
  BY <1>3, <1>4 DEF NewDefault

LEMMA SyncContactsLevel ==
    ASSUME IInv, LevelInv, NEW d \in Device, SyncContacts(d) PROVE LevelInv'
<1> DEFINE w == run[d]
<1>1. /\ "contacts" \in Resource /\ w.pc = "sync" /\ w \in RunType /\ RekeyFits(w)
      /\ saved' = saved /\ behind' = behind
  BY PassFacts DEF SyncContacts, Turn
<1>2. CASE run' = [run EXCEPT ![d] = Done(w, "contacts")] /\ UNCHANGED <<blob, local>>
  BY <1>1, <1>2, LevelDone
<1>3. CASE ContactsSealed(d)
  <2>1. CASE RecoverOrphan(w, d, "contacts")
    BY <1>1, <1>3, <2>1, SealedSplit, LevelRecover
  <2>2. ASSUME NEW n \in Nat, RecoverOrphan(Broken(w, n), d, "contacts") PROVE LevelInv'
    BY <1>1, <1>3, <2>2, SealedSplit, BrokenOK, LevelRecover
  <2>3. QED
    BY <1>3, <2>1, <2>2, SealedSplit
<1>4. CASE ContactsMerged(d)
  <2>1. blob'["settings"] = blob["settings"]
    BY <1>4, MergedSplit DEF IInv, ServerOK, Resource
  <2>2. \A e \in Device : local'[e]["settings"] = local[e]["settings"]
    BY <1>4, MergedSplit DEF IInv, DeviceOK, Resource
  <2>3. QED
    BY <1>1, <1>4, <2>1, <2>2, MergedSplit, AfterPassOK, LevelRun
<1>5. QED
  BY <1>2, <1>3, <1>4 DEF SyncContacts

LEMMA SyncGroupsLevel ==
    ASSUME IInv, LevelInv, NEW d \in Device, SyncGroups(d) PROVE LevelInv'
<1>1. "groups" \in Resource /\ run[d].pc = "sync" /\ saved' = saved /\ behind' = behind
  BY DEF Resource, SyncGroups, Turn
<1>2. CASE Openable(d, "groups")
  <2>1. run' = [run EXCEPT ![d] = Done(run[d], "groups")]
    BY <1>2 DEF SyncGroups
  <2> DEFINE merged == local[d]["groups"] \cup blob["groups"].data
             n      == [ver |-> blob["groups"].ver + 1, key |-> key[d], data |-> merged]
  <2>5. blob' = blob \/ blob' = [blob EXCEPT !["groups"] = n]
    BY <1>2 DEF SyncGroups
  <2>6. local' = [local EXCEPT ![d]["groups"] = merged]
    BY <1>2 DEF SyncGroups
  <2> HIDE DEF n, merged
  <2>2. blob'["settings"] = blob["settings"]
    BY <2>5 DEF IInv, ServerOK, Resource
  <2>3. \A e \in Device : local'[e]["settings"] = local[e]["settings"]
    BY <2>6 DEF IInv, DeviceOK, Resource
  <2>4. QED
    BY <1>1, <2>1, <2>2, <2>3, LevelDone
<1>3. CASE ~Openable(d, "groups")
  <2>1. RecoverOrphan(run[d], d, "groups") /\ UNCHANGED <<blob, local>>
    BY <1>3 DEF SyncGroups
  <2>2. QED
    BY <1>1, <2>1, RunFacts, LevelRecover
<1>4. QED
  BY <1>2, <1>3

\* Until the digest is taken the device has the cloud's copy, as Adopt wrote it.
LEMMA AdoptLevel ==
    ASSUME IInv, LevelInv, NEW d \in Device, Adopt(d),
           blob' = blob, saved' = saved, behind' = behind
    PROVE  LevelInv'
<1> DEFINE w == run[d]
           p == [w.pos EXCEPT !.ver = blob["settings"].ver]
           t == [w EXCEPT !.pc = "digest", !.pos = p]
<1>1. w \in RunType /\ w.pos \in Pos /\ blob["settings"].ver \in Nat /\ "settings" \in Resource
  BY LevelTypes
<1>2. run' = [run EXCEPT ![d] = t]
  BY <1>1 DEF Adopt, RunType, IInv, RunsOK
<1>3. p.ver = blob["settings"].ver
  BY <1>1 DEF Pos
<1> HIDE DEF p
<1>4. t.pc = "digest" /\ t.pos = p
  BY <1>1 DEF RunType
<1> HIDE DEF t
<1>5. run'[d] = t /\ \A e \in Device \ {d} : run'[e] = run[e]
  BY <1>2 DEF IInv, RunsOK
<1>6. /\ local'[d]["settings"] = blob["settings"].data
      /\ \A e \in Device \ {d} : local'[e]["settings"] = local[e]["settings"]
  BY <1>1 DEF Adopt, IInv, DeviceOK
<1>7. RunLevel(t, blob["settings"], local'[d]["settings"], behind[d])
  BY <1>1, <1>3, <1>4, <1>6 DEF RunLevel
<1>8. DeviceLevel(d)'
  BY <1>5, <1>7 DEF DeviceLevel, LevelInv
<1>9. QED
  BY <1>5, <1>6, <1>8, LevelStep

LEMMA SyncSettingsLevel ==
    ASSUME IInv, LevelInv, NEW d \in Device, SyncSettings(d) PROVE LevelInv'
<1> DEFINE w == run[d]
           b == blob["settings"]
           t == [w EXCEPT !.pc = "push", !.at = b.ver, !.src = local[d]["settings"]]
<1>1. /\ "settings" \in Resource /\ w.pc = "sync" /\ w \in RunType
      /\ blob' = blob /\ saved' = saved /\ behind' = behind
  BY RunFacts DEF Resource, SyncSettings, Turn, server
<1>2. \/ run' = [run EXCEPT ![d] = Done(w, "settings")] /\ local' = local
      \/ RecoverOrphan(run[d], d, "settings") /\ local' = local
      \/ /\ run' = [run EXCEPT ![d].pc = "push", ![d].at = b.ver, ![d].src = local[d]["settings"]]
         /\ local' = local
      \/ Adopt(d)
  BY DEF SyncSettings
<1>3. CASE run' = [run EXCEPT ![d] = Done(w, "settings")] /\ local' = local
  BY <1>1, <1>3, LevelDone
<1>4. CASE RecoverOrphan(run[d], d, "settings") /\ local' = local
  BY <1>1, <1>4, RunFacts, LevelRecover
<1>5. CASE /\ run' = [run EXCEPT ![d].pc = "push", ![d].at = b.ver, ![d].src = local[d]["settings"]]
           /\ local' = local
  <2>1. run'[d] = t /\ \A e \in Device \ {d} : run'[e] = run[e]
    BY <1>1, <1>5 DEF IInv, RunsOK, RunType
  <2>2. t.pc = "push" /\ t.pos = w.pos /\ t.src = local[d]["settings"]
    BY <1>1 DEF RunType
  <2> HIDE DEF t
  <2>3. RunLevel(t, blob["settings"], local[d]["settings"], behind[d])
    BY <1>1, <2>2 DEF RunLevel, LevelInv, DeviceLevel
  <2>4. DeviceLevel(d)'
    BY <1>1, <1>5, <2>1, <2>3 DEF DeviceLevel, LevelInv
  <2>5. QED
    BY <1>1, <1>5, <2>1, <2>4, LevelStep
<1>6. CASE Adopt(d)
  BY <1>1, <1>6, AdoptLevel
<1>7. QED
  BY <1>2, <1>3, <1>4, <1>5, <1>6

LEMMA PullLevel == ASSUME IInv, LevelInv, NEW d \in Device, Pull(d) PROVE LevelInv'
<1>1. /\ "settings" \in Resource /\ run[d].pc = "pull"
      /\ blob' = blob /\ saved' = saved /\ behind' = behind
  BY DEF Resource, Pull, server
<1>2. CASE Adopt(d)
  BY <1>1, <1>2, AdoptLevel
<1>3. CASE RecoverOrphan(run[d], d, "settings") /\ local' = local
  BY <1>1, <1>3, RunFacts, LevelRecover
<1>4. QED
  BY <1>2, <1>3 DEF Pull

LEMMA PushLevel == ASSUME IInv, LevelInv, NEW d \in Device, Push(d) PROVE LevelInv'
<1> DEFINE w == run[d]
           b == blob["settings"]
<1>1. /\ "settings" \in Resource /\ w.pc = "push" /\ w \in RunType /\ w.pos \in Pos
      /\ b.ver \in Nat /\ w.pos.ver \in Nat /\ saved[d].ver \in Nat
      /\ local' = local /\ saved' = saved /\ behind' = behind
  BY LevelTypes DEF Push
<1>2. CASE w.at = b.ver
  <2> DEFINE n == [ver |-> b.ver + 1, key |-> key[d], data |-> w.src]
             p == [w.pos EXCEPT !.ver = w.at + 1]
             t == [w EXCEPT !.pc = "digest", !.pos = p]
  <2>1. blob' = [blob EXCEPT !["settings"] = n]
    BY <1>2 DEF Push
  <2>2. blob'["settings"] = n
    BY <1>1, <2>1 DEF IInv, ServerOK
  <2>3. run' = [run EXCEPT ![d] = t]
    BY <1>1, <1>2 DEF Push, IInv, RunsOK, RunType
  <2>4. p.ver = b.ver + 1
    BY <1>1, <1>2 DEF Pos
  <2> HIDE DEF p
  <2>5. t.pc = "digest" /\ t.pos = p
    BY <1>1 DEF RunType
  <2>6. n.ver = b.ver + 1 /\ n.data = w.src
    OBVIOUS
  <2> HIDE DEF t, n
  <2>7. run'[d] = t /\ \A e \in Device \ {d} : run'[e] = run[e]
    BY <2>3 DEF IInv, RunsOK
  <2>8. ~behind[d] => w.src = local[d]["settings"]
    BY <1>1 DEF LevelInv, DeviceLevel, RunLevel
  <2>9. RunLevel(t, n, local[d]["settings"], behind[d])
    BY <1>1, <2>4, <2>5, <2>6, <2>8 DEF RunLevel
  <2>10. saved[d].ver <= b.ver
    BY DEF LevelInv, DeviceLevel, Level
  <2>11. Level(saved[d], n, behind[d])
    BY <1>1, <2>6, <2>10 DEF Level
  <2>12. DeviceLevel(d)'
    BY <1>1, <2>2, <2>7, <2>9, <2>11 DEF DeviceLevel
  <2>13. QED
    BY <1>1, <2>2, <2>6, <2>7, <2>12, LevelStep
<1>3. CASE w.at # b.ver /\ w.at = 0
  <2>1. run' = [run EXCEPT ![d] = Done(w, "settings")] /\ blob' = blob
    BY <1>3 DEF Push
  <2>2. QED
    BY <1>1, <2>1, LevelDone
<1>4. CASE w.at # b.ver /\ w.at # 0
  <2> DEFINE t == [w EXCEPT !.pc = "pull"]
  <2>1. run' = [run EXCEPT ![d] = t] /\ blob' = blob
    BY <1>4 DEF Push
  <2>2. t.pc = "pull" /\ t.pos = w.pos
    BY <1>1 DEF RunType
  <2> HIDE DEF t
  <2>3. QED
    BY <1>1, <2>1, <2>2, LevelRun
<1>5. QED
  BY <1>2, <1>3, <1>4

\* The digest is that of the copy on disk, which is still the cloud's unless the
\* user edited it meanwhile.
LEMMA RedigestLevel == ASSUME IInv, LevelInv, NEW d \in Device, Redigest(d) PROVE LevelInv'
<1> DEFINE w == run[d]
           u == Done(w, "settings")
           g == CHOOSE v \in Value : local[d]["settings"] = {v}
           p == [u.pos EXCEPT !.digest = g]
           t == [u EXCEPT !.pos = p]
<1>1. /\ "settings" \in Resource /\ w.pc = "digest" /\ w \in RunType /\ w.pos \in Pos
      /\ blob' = blob /\ local' = local /\ saved' = saved /\ behind' = behind
  BY LevelTypes DEF Redigest, server
<1>2. local[d]["settings"] = {g}
  BY <1>1 DEF IInv, DeviceOK, DataOf
<1> HIDE DEF g
<1>3. u \in RunType /\ u.pc = "sync" /\ u.pos = w.pos
  BY <1>1, DoneOK
<1>4. run' = [run EXCEPT ![d] = [u EXCEPT !.pos.digest = g]]
  BY DEF Redigest, g
<1> HIDE DEF u
<1>5. [u EXCEPT !.pos.digest = g] = t
  BY <1>3 DEF RunType
<1>6. p.ver = w.pos.ver /\ p.digest = g
  BY <1>1, <1>3 DEF Pos
<1> HIDE DEF p
<1>7. t.pc = "sync" /\ t.pos = p
  BY <1>3 DEF RunType
<1> HIDE DEF t
<1>8. run'[d] = t /\ \A e \in Device \ {d} : run'[e] = run[e]
  BY <1>4, <1>5 DEF IInv, RunsOK
<1>9. RunLevel(w, blob["settings"], local[d]["settings"], behind[d])
  BY DEF LevelInv, DeviceLevel
<1>10. Level(p, blob["settings"], behind[d])
  BY <1>1, <1>2, <1>6, <1>9 DEF RunLevel, Level
<1>11. RunLevel(t, blob["settings"], local[d]["settings"], behind[d])
  BY <1>7, <1>10 DEF RunLevel, Level
<1>12. DeviceLevel(d)'
  BY <1>1, <1>8, <1>11 DEF DeviceLevel, LevelInv
<1>13. QED
  BY <1>1, <1>8, <1>12, LevelStep

LEMMA ProbeLevel ==
    ASSUME IInv, LevelInv, NEW d \in Device, NEW r \in Resource, Probe(d, r) PROVE LevelInv'
<1>1. /\ run[d].pc = "sync" /\ blob' = blob /\ local' = local /\ saved' = saved /\ behind' = behind
      /\ RecoverOrphan(run[d], d, r) \/ run' = [run EXCEPT ![d] = Done(run[d], r)]
  BY DEF Probe, server
<1>2. QED
  BY <1>1, RunFacts, LevelDone, LevelRecover

LEMMA RekeyNextLevel ==
    ASSUME IInv, LevelInv, NEW d \in Device, NEW r \in Resource, RekeyNext(d, r) PROVE LevelInv'
<1> DEFINE w == ToReseal(run[d], d, r)
<1>1. /\ run[d].pc = "sync" /\ blob' = blob /\ local' = local /\ saved' = saved /\ behind' = behind
      /\ run' = [run EXCEPT ![d] = w]
  BY DEF RekeyNext, server
<1>2. w.pc = "reseal" /\ w.pos = run[d].pos
  BY RunFacts DEF RunType, ToReseal
<1> HIDE DEF w
<1>3. QED
  BY <1>1, <1>2, LevelRun

LEMMA SkipResealLevel ==
    ASSUME IInv, LevelInv, NEW d \in Device, SkipReseal(d) PROVE LevelInv'
<1>1. /\ run[d].pc = "reseal" /\ blob' = blob /\ local' = local /\ saved' = saved /\ behind' = behind
      /\ run' = [run EXCEPT ![d] = Done(run[d], run[d].cur)]
  BY DEF SkipReseal, server
<1>2. QED
  BY <1>1, ResealFacts, LevelDone

LEMMA ResealConflictsLevel ==
    ASSUME IInv, LevelInv, NEW d \in Device, ResealConflicts(d) PROVE LevelInv'
<1> DEFINE w == run[d]
           h == IF w.cur = "contacts" THEN head ELSE w.head
           t == [w EXCEPT !.at = blob[w.cur].ver, !.tries = w.tries + 1, !.head = h]
<1>1. /\ w.pc = "reseal" /\ blob' = blob /\ local' = local /\ saved' = saved /\ behind' = behind
      /\ w \in RunType
  BY RunFacts DEF ResealConflicts, server
<1>2. run' = [run EXCEPT ![d] = t]
  BY <1>1 DEF ResealConflicts, IInv, RunsOK, RunType
<1>3. t.pc = "reseal" /\ t.pos = w.pos
  BY <1>1 DEF RunType
<1> HIDE DEF t
<1>4. QED
  BY <1>1, <1>2, <1>3, LevelRun

LEMMA FailedLevel ==
    ASSUME IInv, LevelInv, NEW d \in Device, run[d].pc \in {"push", "pull", "reseal"},
           run' = [run EXCEPT ![d] = Failed(d)],
           blob' = blob, local' = local, saved' = saved, behind' = behind
    PROVE  LevelInv'
<1>1. CASE Failed(d) = NoRun
  BY <1>1, LevelNoRun
<1>2. CASE run[d].pc = "reseal" /\ Failed(d) = Done(run[d], run[d].cur)
  BY <1>2, ResealFacts, LevelDone
<1>3. CASE Failed(d) = Done(run[d], "settings")
  BY <1>3, LevelDone DEF Resource
<1>4. QED
  BY <1>1, <1>2, <1>3 DEF Failed

LEMMA FinishLevel == ASSUME IInv, LevelInv, NEW d \in Device, Finish(d) PROVE LevelInv'
<1>1. /\ run[d].pc = "sync" /\ blob' = blob /\ local' = local /\ behind' = behind
      /\ saved' = [saved EXCEPT ![d] = run[d].pos] /\ run' = [run EXCEPT ![d] = NoRun]
  BY DEF Finish, server
<1>2. /\ run'[d] = NoRun /\ \A e \in Device \ {d} : run'[e] = run[e]
      /\ saved'[d] = run[d].pos /\ \A e \in Device \ {d} : saved'[e] = saved[e]
  BY <1>1 DEF IInv, RunsOK, DeviceOK
<1>3. Level(run[d].pos, blob["settings"], behind[d])
  BY <1>1 DEF LevelInv, DeviceLevel, RunLevel
<1>4. DeviceLevel(d)'
  BY <1>1, <1>2, <1>3, NoRunLevel DEF DeviceLevel
<1>5. QED
  BY <1>1, <1>2, <1>4, LevelStep

LEMMA LogOutLevel == ASSUME IInv, LevelInv, NEW d \in Device, LogOut(d) PROVE LevelInv'
<1>1. /\ blob' = blob /\ local' = local /\ behind' = behind /\ run' = run
      /\ saved' = [saved EXCEPT ![d] = NoPos]
  BY DEF LogOut, server
<1>2. saved'[d] = NoPos /\ \A e \in Device \ {d} : saved'[e] = saved[e]
  BY <1>1 DEF IInv, DeviceOK
<1>3. NoPos.ver = 0 /\ blob["settings"].ver \in Nat
  BY LevelTypes DEF NoPos
<1>4. Level(NoPos, blob["settings"], behind[d])
  BY <1>3 DEF Level
<1>5. DeviceLevel(d)'
  BY <1>1, <1>2, <1>4 DEF DeviceLevel, LevelInv
<1>6. QED
  BY <1>1, <1>2, <1>5, LevelStep

\* A reseal keeps the digest and moves the version: "late" when it uploaded
\* something else than what the digest is of.
LEMMA ResealLevel == ASSUME IInv, LevelInv, NEW d \in Device, Reseal(d) PROVE LevelInv'
<1> DEFINE w == run[d]
           r == w.cur
           u == Done(w, r)
           n == [ver |-> blob[r].ver + 1, key |-> key[d], data |-> w.src]
<1>1. /\ r \in Resource /\ w.pc = "reseal" /\ w \in RunType /\ w.pos \in Pos
      /\ "settings" \in Resource /\ w.at = blob[r].ver
      /\ local' = local /\ saved' = saved /\ blob' = [blob EXCEPT ![r] = n]
  BY LevelTypes, ResealFacts DEF Reseal
<1>2. behind' = [behind EXCEPT ![d] = @ \/ (r = "settings" /\ w.src # {w.pos.digest})]
  BY DEF Reseal
<1>3. /\ behind'[d] = (behind[d] \/ (r = "settings" /\ w.src # {w.pos.digest}))
      /\ \A e \in Device \ {d} : behind'[e] = behind[e]
  BY <1>2 DEF IInv, DeviceOK
<1>4. u \in RunType /\ u.pc = "sync" /\ u.pos = w.pos
  BY <1>1, DoneOK
<1>5. n.ver = blob[r].ver + 1 /\ n.data = w.src
  OBVIOUS
<1>6. blob[r].ver \in Nat /\ blob["settings"].ver \in Nat /\ saved[d].ver \in Nat /\ w.pos.ver \in Nat
  BY <1>1, LevelTypes DEF IInv, ServerOK
<1>7. /\ Level(saved[d], blob["settings"], behind[d])
      /\ Level(w.pos, blob["settings"], behind[d])
  BY <1>1 DEF LevelInv, DeviceLevel, RunLevel
<1> HIDE DEF n
<1>8. CASE r = "settings"
  <2> DEFINE p == [u.pos EXCEPT !.ver = w.at + 1]
             t == [u EXCEPT !.pos = p]
  <2>1. run' = [run EXCEPT ![d] = [u EXCEPT !.pos.ver = w.at + 1]]
    BY <1>8 DEF Reseal
  <2> HIDE DEF u
  <2>2. [u EXCEPT !.pos.ver = w.at + 1] = t
    BY <1>4 DEF RunType
  <2>3. p.ver = w.at + 1 /\ p.digest = w.pos.digest
    BY <1>1, <1>4 DEF Pos
  <2> HIDE DEF p
  <2>4. t.pc = "sync" /\ t.pos = p
    BY <1>4 DEF RunType
  <2> HIDE DEF t
  <2>5. run'[d] = t /\ \A e \in Device \ {d} : run'[e] = run[e]
    BY <2>1, <2>2 DEF IInv, RunsOK
  <2>6. blob'["settings"] = n
    BY <1>1, <1>8 DEF IInv, ServerOK
  <2>7. Level(p, n, behind'[d])
    <3>1. ~behind'[d] => w.src = {w.pos.digest}
      BY <1>3, <1>8
    <3>2. p.ver = n.ver /\ n.ver \in Nat
      BY <1>1, <1>5, <1>6, <1>8, <2>3
    <3>3. QED
      BY <1>5, <2>3, <3>1, <3>2 DEF Level
  <2>8. RunLevel(t, n, local[d]["settings"], behind'[d])
    BY <2>4, <2>7 DEF RunLevel, Level
  <2>9. Level(saved[d], n, behind'[d])
    BY <1>5, <1>6, <1>7, <1>8 DEF Level
  <2>10. DeviceLevel(d)'
    BY <1>1, <2>5, <2>6, <2>8, <2>9 DEF DeviceLevel
  <2>11. QED
    BY <1>1, <1>3, <1>5, <1>8, <2>5, <2>6, <2>10, LevelStep
<1>9. CASE r # "settings"
  <2>1. blob'["settings"] = blob["settings"]
    BY <1>1, <1>9 DEF IInv, ServerOK
  <2>2. behind' = behind
    BY <1>2, <1>9 DEF IInv, DeviceOK
  <2>3. CASE r = "contacts"
    <3> DEFINE p == [u.pos EXCEPT !.seq = w.head, !.snap = w.at + 1]
               t == [u EXCEPT !.pos = p]
    <3>1. run' = [run EXCEPT ![d] = [u EXCEPT !.pos.seq = w.head, !.pos.snap = w.at + 1]]
      BY <2>3 DEF Reseal
    <3> HIDE DEF u
    <3>2. [u EXCEPT !.pos.seq = w.head, !.pos.snap = w.at + 1] = t
      BY <1>4 DEF RunType
    <3>3. p.ver = w.pos.ver /\ p.digest = w.pos.digest
      BY <1>1, <1>4 DEF Pos
    <3> HIDE DEF p
    <3>4. t.pc = "sync" /\ t.pos = p
      BY <1>4 DEF RunType
    <3> HIDE DEF t
    <3>5. run' = [run EXCEPT ![d] = t]
      BY <3>1, <3>2
    <3>6. QED
      BY <1>1, <2>1, <2>2, <3>3, <3>4, <3>5, LevelRun
  <2>4. CASE r # "contacts"
    <3>1. run' = [run EXCEPT ![d] = u]
      BY <1>9, <2>4 DEF Reseal
    <3>2. QED
      BY <1>1, <2>1, <2>2, <3>1, LevelDone
  <2>5. QED
    BY <2>3, <2>4
<1>10. QED
  BY <1>8, <1>9

LEMMA InitLevel == Init => LevelInv
<1>1. SUFFICES ASSUME Init, NEW d \in Device PROVE DeviceLevel(d)
  BY DEF LevelInv
<1>2. IInv
  BY <1>1, InitInv
<1>3. run[d] = NoRun
  BY <1>1 DEF Init
<1>4. RunLevel(run[d], blob["settings"], local[d]["settings"], behind[d])
  BY <1>2, <1>3, NoRunLevel
<1>5. CASE /\ blob = [r \in Resource |-> [ver |-> 0, key |-> FirstKey, data |-> {}]]
           /\ saved = [e \in Device |-> NoPos]
  <2>1. blob["settings"].ver = 0 /\ saved[d].ver = 0
    BY <1>5 DEF Resource, NoPos
  <2>2. QED
    BY <1>4, <2>1 DEF DeviceLevel, Level
<1>6. CASE /\ blob = [r \in Resource |-> [ver |-> 1, key |-> FirstKey, data |-> Copy(Item)[r]]]
           /\ saved = [e \in Device |-> [ver |-> 1, digest |-> Default, seq |-> 0, snap |-> 1]]
  <2>1. blob["settings"].ver = 1 /\ saved[d].ver = 1 /\ saved[d].digest = Default
    BY <1>6 DEF Resource
  <2>2. blob["settings"].data = {Default}
    BY <1>6 DEF Resource, Copy
  <2>3. QED
    BY <1>4, <2>1, <2>2 DEF DeviceLevel, Level
<1>7. QED
  BY <1>1, <1>5, <1>6 DEF Init

LEMMA NextLevel == IInv /\ LevelInv /\ [Next]_vars => LevelInv'
<1>1. SUFFICES ASSUME IInv, LevelInv, Next PROVE LevelInv'
  BY DEF LevelInv, DeviceLevel, vars, server
<1>2. PICK d \in Device : UserStep(d) \/ RunStep(d) \/ CallFails(d) \/ Crash(d) \/ LogOut(d)
  BY <1>1 DEF Next
<1>3. CASE UserStep(d)
  BY <1>1, <1>3, EditSettingsLevel, NewDefaultLevel, StartLevel DEF UserStep
<1>4. CASE RunStep(d)
  <2>1. CASE SyncContacts(d) \/ SyncGroups(d) \/ SyncSettings(d)
    BY <1>1, <2>1, SyncContactsLevel, SyncGroupsLevel, SyncSettingsLevel
  <2>2. CASE Push(d) \/ Pull(d) \/ Redigest(d)
    BY <1>1, <2>2, PushLevel, PullLevel, RedigestLevel
  <2>3. CASE \E r \in Resource : Probe(d, r) \/ RekeyNext(d, r)
    BY <1>1, <2>3, ProbeLevel, RekeyNextLevel
  <2>4. CASE SkipReseal(d) \/ Reseal(d) \/ ResealConflicts(d)
    BY <1>1, <2>4, SkipResealLevel, ResealLevel, ResealConflictsLevel
  <2>5. CASE TooManyConflicts(d)
    BY <1>1, <2>5, FailedLevel DEF TooManyConflicts, server
  <2>6. CASE Finish(d)
    BY <1>1, <2>6, FinishLevel
  <2>7. QED
    BY <1>4, <2>1, <2>2, <2>3, <2>4, <2>5, <2>6 DEF RunStep
<1>5. CASE CallFails(d)
  BY <1>1, <1>5, FailedLevel DEF CallFails, server
<1>6. CASE Crash(d)
  BY <1>1, <1>6, LevelNoRun DEF Crash, server
<1>7. CASE LogOut(d)
  BY <1>1, <1>7, LogOutLevel
<1>8. QED
  BY <1>2, <1>3, <1>4, <1>5, <1>6, <1>7

\* The idle check of SyncSettingsGated is right for every interleaving of passes,
\* edits, reseals, failures and crashes: a device whose saved version and digest say
\* that nothing moved has the cloud's settings, but for the exceptions in "behind".
THEOREM IdleIsSame == Spec => []IdleMeansSame
<1>1. LevelInv => IdleMeansSame
  BY DEF LevelInv, DeviceLevel, Level, IdleMeansSame
<1>2. QED
  BY <1>1, InitInv, InitLevel, NextInv, NextLevel, PTL DEF Spec

=============================================================================
