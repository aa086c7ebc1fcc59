------------------------ MODULE IdentityRoamingProofs ------------------------
(***************************************************************************)
(* Proofs about IdentityRoaming, for every set of devices and names.       *)
(*                                                                         *)
(* StoreInv says how the keystore and the index of a device relate at each *)
(* step of a run; it needs that an import is not cut short.  GateInv says  *)
(* what a run that the key-swap gate compared may still import; it needs   *)
(* also that runs do not overlap, so that the blob the gate looked at is   *)
(* the one that is pulled.  CloudInv says what recorded versions and       *)
(* digests tell about the blob, under the same two conditions.  EarnInv    *)
(* counts the pushes that are still owed; it needs no condition.           *)
(***************************************************************************)
EXTENDS IdentityRoaming, FiniteSetTheorems, TLAPS

-----------------------------------------------------------------------------
(* The invariants.                                                         *)

\* Keystore and index agree, up to what an import has already stored.
StoreFits(d) ==
    /\ hand[d].fps = hand[d].keys
    /\ pc[d] # "import" => keys[d] = index[d]
    /\ pc[d] = "import" =>
          /\ todo[d] \subseteq NamesOf(hand[d].fps)
          /\ \A n \in Name : keys[d][n] = IF n \in todo[d] THEN index[d][n] ELSE MergedIndex(d)[n]

StoreInv ==
    /\ blob.fps = blob.keys
    /\ \A d \in Device : StoreFits(d)

\* The blob does not replace the keys of d's default.
KeepsDefault(d) ==
    index[d][dflt[d]] = 0 \/ blob.fps[dflt[d]] \in {0, index[d][dflt[d]]}

\* A run that has to ask before it replaces the default's keys.
MustAsk(d) ==
    /\ dflt[d] # NoName
    /\ ~ungated[d]
    /\ approve[d] # <<"key", dflt[d]>>

GateFits(d) ==
    /\ pc[d] = "gate" => remote[d] = blob.ver
    /\ pc[d] = "import" => hand[d].fps = blob.fps
    /\ pc[d] \in {"sync", "pull", "import", "redigest", "push", "establish"} /\ MustAsk(d)
         => KeepsDefault(d)

GateInv ==
    /\ \A d, e \in Device : pc[d] # "idle" /\ pc[e] # "idle" => d = e
    /\ \A d \in Device : GateFits(d)

-----------------------------------------------------------------------------
(* Type correctness.                                                       *)

LEMMA BundleTypes ==
    /\ NoKeys \in Ring
    /\ NoBlob \in Bundle /\ NoBlob.fps = NoKeys /\ NoBlob.keys = NoKeys
    /\ OldBlob \in Bundle /\ OldBlob.fps = NoKeys /\ OldBlob.keys = NoKeys
    /\ NoPos \in Position
BY DEF NoKeys, Ring, NoBlob, OldBlob, Bundle, NoPos, Position

LEMMA TypeInit == Init => TypeOK
BY BundleTypes, RoamingAssumption DEF Init, TypeOK, Label

LEMMA DigestType == ASSUME TypeOK, NEW d \in Device PROVE RoamingDigest(d) \in Ring
BY DEF TypeOK, RoamingDigest, Ring

LEMMA ExportType ==
    ASSUME TypeOK, NEW d \in Device, NEW v \in Nat
    PROVE  [ExportIdentities(d) EXCEPT !.ver = v] \in Bundle
<1>1. index[d] \in Ring /\ legacy[d] \in SUBSET Name /\ dflt[d] \in Name \cup {NoName}
  BY DEF TypeOK
<1> QED
  BY <1>1, DigestType DEF ExportIdentities, Bundle

\* A stored bundle is the bundle under the next version.
LEMMA StoreType ==
    ASSUME TypeOK, NEW b \in Bundle, Store(b)
    PROVE  blob' \in Bundle /\ blob'.fps = b.fps /\ blob'.keys = b.keys
<1>1. blob.ver + 1 \in Nat
  BY DEF TypeOK, Bundle
<1> QED
  BY <1>1 DEF Store, Bundle

\* Updating a device's position, whole or one field of it.
LEMMA PositionUpdate ==
    ASSUME NEW f \in [Device -> Position], NEW d \in Device, NEW v \in Nat, NEW r \in Ring
    PROVE  /\ [f EXCEPT ![d] = [ver |-> v, digest |-> {r}]] \in [Device -> Position]
           /\ [f EXCEPT ![d].ver = v] \in [Device -> Position]
<1>1. /\ [ver |-> v, digest |-> {r}] \in Position
      /\ [f[d] EXCEPT !.ver = v] \in Position
  BY DEF Position
<1> QED
  BY <1>1

LEMMA DigestUpdate ==
    ASSUME NEW f \in [Device -> Position], NEW d \in Device, NEW r \in Ring
    PROVE  [f EXCEPT ![d].digest = {r}] \in [Device -> Position]
<1>1. [f[d] EXCEPT !.digest = {r}] \in Position
  BY DEF Position
<1> QED
  BY <1>1

LEMMA FaultType == TypeOK /\ Fault => faults' \in 0..MaxFaults
BY RoamingAssumption DEF TypeOK, Fault

LEMMA EditType == ASSUME TypeOK, NEW d \in Device, Edit(d)
                  PROVE  edits' \in 0..MaxEdits /\ edits + 1 \in Nat /\ pc[d] = "idle"
BY RoamingAssumption DEF TypeOK, Edit

LEMMA TypeNext == TypeOK /\ [Next]_vars => TypeOK'
<1> SUFFICES ASSUME TypeOK, [Next]_vars PROVE TypeOK'
  OBVIOUS
<1> USE DEF TypeOK, Goto, Label, deviceVars, runVars, counters
<1>1. CASE UNCHANGED vars
  BY <1>1 DEF vars
<1>2. ASSUME NEW d \in Device, NEW c \in {NoChange, offer[d]}, Begin(d, c) PROVE TypeOK'
  <2>1. blob.ver \in Nat
    BY DEF Bundle
  <2>2. c \in Change \cup {NoChange}
    OBVIOUS
  <2> QED
    BY <1>2, <2>1, <2>2 DEF Begin
<1>3. ASSUME NEW d \in Device, RunStep(d) PROVE TypeOK'
  <2>1. CASE GateBlocks(d)
    <3>1. <<"key", dflt[d]>> \in Change
      BY DEF Change
    <3> QED
      BY <2>1, <3>1 DEF GateBlocks
  <2>2. CASE GatePasses(d)
    <3>1. CannotCompare(d) \in BOOLEAN
      BY DEF CannotCompare
    <3> QED
      BY <2>2, <3>1 DEF GatePasses
  <2>3. CASE SyncIdentities(d)
    <3>1. SyncDecision(d) \in Label
      BY DEF SyncDecision
    <3>2. pc' \in [Device -> Label]
      BY <2>3, <3>1 DEF SyncIdentities
    <3>3. digest' \in [Device -> Ring]
      BY <2>3, DigestType DEF SyncIdentities
    <3>4. changed' \in [Device -> BOOLEAN]
      BY <2>3 DEF SyncIdentities, LocalChanged
    <3> QED
      BY <2>3, <3>2, <3>3, <3>4 DEF SyncIdentities
  <2>4. CASE PullIdentities(d)
    <3>1. blob.ver \in Nat
      BY DEF Bundle
    <3>2. st' \in [Device -> Position]
      <4>1. CASE blob.old
        <5>1. st' = [st EXCEPT ![d].ver = blob.ver]
          BY <2>4, <4>1 DEF PullIdentities
        <5> QED
          BY <3>1, <5>1, BundleTypes, PositionUpdate
      <4>2. CASE ~blob.old
        BY <2>4, <4>2 DEF PullIdentities
      <4> QED
        BY <4>1, <4>2
    <3>3. changed' \in [Device -> BOOLEAN] /\ pc' \in [Device -> Label]
      BY <2>4 DEF PullIdentities
    <3>4. hand' \in [Device -> Bundle] /\ todo' \in [Device -> SUBSET Name]
      BY <2>4 DEF PullIdentities, NamesOf
    <3> QED
      BY <2>4, <3>2, <3>3, <3>4 DEF PullIdentities
  <2>5. ASSUME NEW n \in Name, ImportOne(d, n) PROVE TypeOK'
    <3>1. hand[d].keys[n] \in Nat
      BY DEF Bundle, Ring
    <3>2. keys' \in [Device -> Ring]
      BY <2>5, <3>1 DEF ImportOne, Ring
    <3> QED
      BY <2>5, <3>2 DEF ImportOne
  <2>6. CASE SaveIndex(d)
    <3>1. MergedIndex(d) \in Ring
      BY DEF MergedIndex, Bundle, Ring
    <3>2. st' = [st EXCEPT ![d].ver = hand[d].ver] /\ hand[d].ver \in Nat
      BY <2>6 DEF SaveIndex, Bundle
    <3>3. st' \in [Device -> Position]
      BY <3>2, BundleTypes, PositionUpdate
    <3>4. index' \in [Device -> Ring] /\ legacy' \in [Device -> SUBSET Name]
      BY <2>6, <3>1 DEF SaveIndex, Bundle
    <3> QED
      BY <2>6, <3>3, <3>4 DEF SaveIndex
  <2>7. CASE Redigest(d)
    <3>1. RoamingDigest(d) \in Ring
      BY DigestType
    <3>2. st' \in [Device -> Position] /\ pc' \in [Device -> Label]
      <4>1. st' = st \/ st' = [st EXCEPT ![d].digest = {RoamingDigest(d)}]
        BY <2>7 DEF Redigest
      <4>2. st' \in [Device -> Position]
        <5>1. /\ st \in [Device -> Position]
              /\ [st EXCEPT ![d].digest = {RoamingDigest(d)}] \in [Device -> Position]
          BY <3>1, DigestUpdate
        <5> QED
          BY <4>1, <5>1
      <4>3. pc' \in [Device -> Label]
        BY <2>7 DEF Redigest
      <4> QED
        BY <4>2, <4>3
    <3>3. digest' \in [Device -> Ring]
      BY <2>7, DigestType DEF Redigest
    <3> QED
      BY <2>7, <3>2, <3>3 DEF Redigest
  <2>8. CASE PushIdentities(d)
    <3>1. blob.ver \in Nat
      BY DEF Bundle
    <3>2. hand' \in [Device -> Bundle]
      BY <2>8, <3>1, ExportType DEF PushIdentities
    <3>3. blob' \in Bundle /\ st' \in [Device -> Position] /\ pc' \in [Device -> Label]
      <4>1. CASE blob.ver = 0
        <5>1. ExportIdentities(d) \in Bundle
          BY DigestType DEF ExportIdentities, Bundle
        <5>2. /\ Store(ExportIdentities(d))
              /\ st' = [st EXCEPT ![d] = [ver |-> 1, digest |-> {digest[d]}]]
              /\ pc' = [pc EXCEPT ![d] = "adopt"]
          BY <2>8, <4>1 DEF PushIdentities
        <5>3. blob' \in Bundle
          BY <5>1, <5>2, StoreType
        <5>4. st' \in [Device -> Position]
          BY <5>2, PositionUpdate
        <5> QED
          BY <5>2, <5>3, <5>4
      <4>2. CASE blob.ver # 0
        BY <2>8, <4>2 DEF PushIdentities
      <4> QED
        BY <4>1, <4>2
    <3> QED
      BY <2>8, <3>2, <3>3 DEF PushIdentities
  <2>9. CASE ReplaceBlob(d)
    <3>1. blob' \in Bundle /\ st' \in [Device -> Position] /\ pc' \in [Device -> Label]
      <4>1. CASE hand[d].ver = blob.ver
        <5>1. /\ Store(hand[d])
              /\ st' = [st EXCEPT ![d] = [ver |-> blob.ver + 1, digest |-> {digest[d]}]]
              /\ pc' = [pc EXCEPT ![d] = "adopt"]
          BY <2>9, <4>1 DEF ReplaceBlob
        <5>2. blob.ver + 1 \in Nat
          BY DEF Bundle
        <5>3. blob' \in Bundle
          BY <5>1, StoreType
        <5>4. st' \in [Device -> Position]
          BY <5>1, <5>2, PositionUpdate
        <5> QED
          BY <5>1, <5>3, <5>4
      <4>2. CASE hand[d].ver # blob.ver
        BY <2>9, <4>2 DEF ReplaceBlob
      <4> QED
        BY <4>1, <4>2
    <3> QED
      BY <2>9, <3>1 DEF ReplaceBlob
  <2>10. CASE KeyMissing(d)
    BY <2>10 DEF KeyMissing
  <2>11. CASE EstablishEncKey(d)
    BY <2>11 DEF EstablishEncKey
  <2>12. CASE KeepDefault(d)
    BY <2>12 DEF KeepDefault
  <2>13. CASE AdoptDefault(d)
    BY <2>13 DEF AdoptDefault, Bundle
  <2>14. CASE OfferDefault(d)
    <3>1. <<"pointer", blob.def>> \in Change
      BY DEF Change, Bundle
    <3> QED
      BY <2>14, <3>1 DEF OfferDefault
  <2>15. CASE SavePositions(d)
    BY <2>15, BundleTypes DEF SavePositions, ForgetRun
  <2> QED
    BY <1>3, <2>1, <2>2, <2>3, <2>4, <2>5, <2>6, <2>7, <2>8, <2>9, <2>10, <2>11, <2>12, <2>13,
       <2>14, <2>15 DEF RunStep
<1>4. ASSUME NEW d \in Device, UserStep(d) PROVE TypeOK'
  <2>1. ASSUME NEW n \in Name, NEW old \in BOOLEAN, NewKeys(d, n, old) PROVE TypeOK'
    <3>1. edits' \in 0..MaxEdits /\ edits + 1 \in Nat
      BY <2>1, EditType DEF NewKeys
    <3>2. keys' \in [Device -> Ring] /\ index' \in [Device -> Ring]
      BY <2>1, <3>1 DEF NewKeys, Ring
    <3> QED
      BY <2>1, <3>1, <3>2 DEF NewKeys
  <2>2. ASSUME NEW n \in Name, ConfigSet(d, n) PROVE TypeOK'
    BY <2>2, EditType DEF ConfigSet
  <2>3. ASSUME NEW n \in Name, NEW f \in Firsts(d), SetDefault(d, n, f) PROVE TypeOK'
    BY <2>3, EditType DEF SetDefault
  <2>4. ASSUME NEW v \in Name, NEW s \in Name, NEW f \in Firsts(d), HandoffAndDelete(d, v, s, f)
        PROVE  TypeOK'
    <3>1. keys' \in [Device -> Ring] /\ index' \in [Device -> Ring]
      BY <2>4 DEF HandoffAndDelete, Ring
    <3>2. dflt' \in [Device -> Name \cup {NoName}] /\ removed' \in SUBSET Name
      BY <2>4 DEF HandoffAndDelete
    <3>3. edits' \in 0..MaxEdits
      BY <2>4, EditType DEF HandoffAndDelete
    <3> QED
      BY <2>4, <3>1, <3>2, <3>3 DEF HandoffAndDelete
  <2> QED
    BY <1>4, <2>1, <2>2, <2>3, <2>4 DEF UserStep
<1>5. ASSUME NEW d \in Device, FaultStep(d) PROVE TypeOK'
  <2>1. ASSUME NEW label \in {"positions", "establish"}, CallFails(d, label) PROVE TypeOK'
    BY <2>1, FaultType DEF CallFails
  <2>2. CASE PeekFails(d)
    BY <2>2, FaultType DEF PeekFails
  <2>3. CASE PushAnswerLost(d)
    <3>1. blob' \in Bundle
      BY <2>3, StoreType DEF PushAnswerLost
    <3> QED
      BY <2>3, <3>1, FaultType DEF PushAnswerLost
  <2>4. CASE Crash(d)
    BY <2>4, FaultType, BundleTypes DEF Crash, ForgetRun
  <2>5. CASE LoseKey(d)
    BY <2>5, FaultType DEF LoseKey
  <2>6. CASE LogOut(d)
    BY <2>6, FaultType, BundleTypes DEF LogOut
  <2> QED
    BY <1>5, <2>1, <2>2, <2>3, <2>4, <2>5, <2>6 DEF FaultStep
<1> QED
  BY <1>1, <1>2, <1>3, <1>4, <1>5 DEF Next

\* Every reachable state of identity roaming is well typed, in every environment.
THEOREM TypeCorrect == Spec => []TypeOK
BY TypeInit, TypeNext, PTL DEF Spec

-----------------------------------------------------------------------------
(* A step of one device leaves the others' state alone.                    *)

Unmoved(e) ==
    /\ keys'[e] = keys[e]
    /\ index'[e] = index[e]
    /\ dflt'[e] = dflt[e]
    /\ pc'[e] = pc[e]
    /\ remote'[e] = remote[e]
    /\ approve'[e] = approve[e]
    /\ ungated'[e] = ungated[e]
    /\ hand'[e] = hand[e]
    /\ todo'[e] = todo[e]
    /\ pos'[e] = pos[e]
    /\ st'[e] = st[e]
    /\ changed'[e] = changed[e]
    /\ digest'[e] = digest[e]

Step(d) ==
    \/ \E approval \in {NoChange, offer[d]} : Begin(d, approval)
    \/ RunStep(d)
    \/ UserStep(d)
    \/ FaultStep(d)

LEMMA OnlyActorMoves ==
    ASSUME TypeOK, NEW d \in Device, Step(d), NEW e \in Device, e # d
    PROVE  Unmoved(e)
<1> USE DEF Unmoved, TypeOK, Goto, deviceVars, runVars, counters
<1>1. CASE \E approval \in {NoChange, offer[d]} : Begin(d, approval)
  BY <1>1 DEF Begin
<1>2. CASE GateBlocks(d) \/ GatePasses(d) \/ SyncIdentities(d)
  BY <1>2 DEF GateBlocks, GatePasses, SyncIdentities
<1>3. CASE PullIdentities(d)
  BY <1>3 DEF PullIdentities
<1>4. CASE \E n \in Name : ImportOne(d, n)
  BY <1>4 DEF ImportOne
<1>5. CASE SaveIndex(d) \/ Redigest(d)
  BY <1>5 DEF SaveIndex, Redigest
<1>6. CASE PushIdentities(d)
  BY <1>6 DEF PushIdentities
<1>7. CASE ReplaceBlob(d)
  BY <1>7 DEF ReplaceBlob
<1>8. CASE KeyMissing(d) \/ EstablishEncKey(d) \/ KeepDefault(d) \/ AdoptDefault(d) \/ OfferDefault(d)
  BY <1>8 DEF KeyMissing, EstablishEncKey, KeepDefault, AdoptDefault, OfferDefault
<1>9. CASE SavePositions(d) \/ Crash(d)
  BY <1>9 DEF SavePositions, Crash, ForgetRun
<1>10. CASE \E n \in Name : (\E old \in BOOLEAN : NewKeys(d, n, old)) \/ ConfigSet(d, n)
  BY <1>10 DEF NewKeys, ConfigSet
<1>11. CASE \E first \in Firsts(d), n \in Name : SetDefault(d, n, first)
  BY <1>11 DEF SetDefault
<1>12. CASE \E first \in Firsts(d), v, s \in Name : HandoffAndDelete(d, v, s, first)
  BY <1>12 DEF HandoffAndDelete
<1>13. CASE \E label \in {"positions", "establish"} : CallFails(d, label)
  BY <1>13 DEF CallFails
<1>14. CASE PeekFails(d) \/ PushAnswerLost(d) \/ LoseKey(d) \/ LogOut(d)
  BY <1>14 DEF PeekFails, PushAnswerLost, LoseKey, LogOut
<1> QED
  BY <1>1, <1>2, <1>3, <1>4, <1>5, <1>6, <1>7, <1>8, <1>9, <1>10, <1>11, <1>12, <1>13,
     <1>14
  DEF Step, RunStep, UserStep, FaultStep

-----------------------------------------------------------------------------
(* The keystore, the index and the bundles.                                *)

LEMMA StoreInit == Init => StoreInv
BY BundleTypes DEF Init, StoreInv, StoreFits

\* It is enough to look at the blob and at the device that moves.
LEMMA StoreStep ==
    ASSUME TypeOK, StoreInv, NEW d \in Device, Step(d), StoreFits(d)', blob'.fps = blob'.keys
    PROVE  StoreInv'
<1>1. ASSUME NEW e \in Device, e # d PROVE StoreFits(e)'
  <2>1. Unmoved(e) /\ StoreFits(e)
    BY <1>1, OnlyActorMoves DEF StoreInv
  <2>2. MergedIndex(e)' = MergedIndex(e)
    BY <2>1 DEF Unmoved, MergedIndex, NamesOf
  <2> QED
    BY <2>1, <2>2 DEF Unmoved, StoreFits, NamesOf
<1> QED
  BY <1>1 DEF StoreInv

LEMMA StoreNext ==
    ASSUME ~ImportsStop, TypeOK, StoreInv, [Next]_vars
    PROVE  StoreInv'
<1> USE DEF Goto, deviceVars, runVars, counters
<1>1. CASE UNCHANGED vars
  BY <1>1 DEF vars, StoreInv, StoreFits, MergedIndex, NamesOf
<1>2. ASSUME NEW d \in Device, Step(d) PROVE StoreInv'
  <2>1. StoreFits(d) /\ blob.fps = blob.keys
    BY DEF StoreInv
  <2>2. /\ pc \in [Device -> Label] /\ keys \in [Device -> Ring] /\ index \in [Device -> Ring]
        /\ hand \in [Device -> Bundle] /\ todo \in [Device -> SUBSET Name]
        /\ blob \in Bundle
    BY DEF TypeOK
  <2> SUFFICES StoreFits(d)' /\ blob'.fps = blob'.keys
    BY <1>2, StoreStep
  <2>3. ASSUME UNCHANGED <<blob, keys, index>>, pc[d] # "import", pc'[d] # "import",
               hand'[d] = hand[d] \/ hand'[d] = NoBlob
        PROVE  StoreFits(d)' /\ blob'.fps = blob'.keys
    BY <2>1, <2>3, BundleTypes DEF StoreFits
  <2>4. CASE \E approval \in {NoChange, offer[d]} : Begin(d, approval)
    BY <2>2, <2>3, <2>4 DEF Begin
  <2>5. CASE GateBlocks(d) \/ GatePasses(d)
    BY <2>2, <2>3, <2>5 DEF GateBlocks, GatePasses
  <2>6. CASE SyncIdentities(d)
    BY <2>2, <2>3, <2>6 DEF SyncIdentities, SyncDecision
  <2>7. CASE PullIdentities(d)
    <3>1. /\ keys' = keys /\ index' = index /\ blob' = blob
          /\ hand'[d] = blob /\ todo'[d] = NamesOf(blob.fps)
          /\ keys[d] = index[d]
      BY <2>1, <2>2, <2>7 DEF PullIdentities, StoreFits
    <3>2. \A n \in Name : n \notin todo'[d] => MergedIndex(d)'[n] = index[d][n]
      BY <3>1 DEF MergedIndex
    <3> QED
      BY <2>1, <3>1, <3>2 DEF StoreFits
  <2>8. ASSUME NEW n \in Name, ImportOne(d, n) PROVE StoreFits(d)' /\ blob'.fps = blob'.keys
    <3>1. /\ pc'[d] = "import" /\ pc[d] = "import" /\ n \in todo[d]
          /\ todo'[d] = todo[d] \ {n} /\ hand' = hand /\ index' = index /\ blob' = blob
          /\ keys'[d][n] = hand[d].keys[n]
          /\ \A m \in Name \ {n} : keys'[d][m] = keys[d][m]
      BY <2>2, <2>8 DEF ImportOne, Ring
    <3>2. MergedIndex(d)' = MergedIndex(d) /\ NamesOf(hand'[d].fps) = NamesOf(hand[d].fps)
      BY <3>1 DEF MergedIndex, NamesOf
    <3>3. MergedIndex(d)[n] = hand[d].keys[n]
      BY <2>1, <3>1 DEF StoreFits, MergedIndex
    <3> QED
      BY <2>1, <3>1, <3>2, <3>3 DEF StoreFits
  <2>9. CASE SaveIndex(d)
    <3>1. /\ pc'[d] = "redigest" /\ pc[d] = "import" /\ todo[d] = {}
          /\ hand' = hand /\ keys' = keys /\ blob' = blob
          /\ index'[d] = MergedIndex(d)
      BY <2>2, <2>9 DEF SaveIndex
    <3>2. keys[d] = MergedIndex(d)
      <4>1. \A n \in Name : keys[d][n] = MergedIndex(d)[n]
        BY <2>1, <3>1 DEF StoreFits
      <4> QED
        BY <2>2, <4>1 DEF Ring, MergedIndex
    <3> QED
      BY <2>1, <3>1, <3>2 DEF StoreFits
  <2>10. CASE Redigest(d)
    BY <2>2, <2>3, <2>10 DEF Redigest
  <2>11. CASE PushIdentities(d)
    <3>1. keys[d] = index[d] /\ index[d] \in Ring
      BY <2>1, <2>2, <2>11 DEF PushIdentities, StoreFits
    <3>2. RoamingDigest(d) = index[d]
      BY <3>1 DEF RoamingDigest, Ring
    <3>3. ExportIdentities(d).fps = ExportIdentities(d).keys
      BY <3>2 DEF ExportIdentities
    <3>4. /\ keys' = keys /\ index' = index /\ pc'[d] # "import"
          /\ hand'[d] = [ExportIdentities(d) EXCEPT !.ver = blob.ver]
          /\ blob' = blob \/ Store(ExportIdentities(d))
      BY <2>2, <2>11 DEF PushIdentities
    <3>5. hand'[d].fps = hand'[d].keys
      BY <3>3, <3>4 DEF ExportIdentities
    <3>6. blob'.fps = blob'.keys
      BY <2>1, <3>3, <3>4 DEF Store, ExportIdentities
    <3> QED
      BY <3>1, <3>4, <3>5, <3>6 DEF StoreFits
  <2>12. CASE ReplaceBlob(d)
    <3>1. /\ keys' = keys /\ index' = index /\ hand' = hand
          /\ pc[d] # "import" /\ pc'[d] # "import"
          /\ blob' = blob \/ Store(hand[d])
      BY <2>2, <2>12 DEF ReplaceBlob
    <3>2. hand[d] \in Bundle /\ hand[d].fps = hand[d].keys
      BY <2>1, <2>2 DEF StoreFits
    <3>3. blob'.fps = blob'.keys
      BY <2>1, <3>1, <3>2, StoreType
    <3> QED
      BY <2>1, <3>1, <3>3 DEF StoreFits
  <2>13. CASE KeyMissing(d) \/ EstablishEncKey(d) \/ KeepDefault(d) \/ AdoptDefault(d) \/ OfferDefault(d)
    BY <2>2, <2>3, <2>13 DEF KeyMissing, EstablishEncKey, KeepDefault, AdoptDefault, OfferDefault
  <2>14. CASE SavePositions(d) \/ Crash(d)
    BY <2>2, <2>3, <2>14 DEF SavePositions, Crash, ForgetRun, MayStop
  <2>15. ASSUME NEW n \in Name, NEW old \in BOOLEAN, NewKeys(d, n, old) PROVE StoreFits(d)' /\ blob'.fps = blob'.keys
    <3>1. /\ pc[d] = "idle" /\ pc' = pc /\ hand' = hand /\ blob' = blob
          /\ keys'[d] = [keys[d] EXCEPT ![n] = edits + 1]
          /\ index'[d] = [index[d] EXCEPT ![n] = edits + 1]
      BY <2>2, <2>15 DEF NewKeys, Edit
    <3> QED
      BY <2>1, <3>1 DEF StoreFits
  <2>16. ASSUME NEW n \in Name, ConfigSet(d, n) PROVE StoreFits(d)' /\ blob'.fps = blob'.keys
    BY <2>3, <2>16 DEF ConfigSet, Edit
  <2>17. ASSUME NEW n \in Name, NEW f \in Firsts(d), SetDefault(d, n, f)
         PROVE  StoreFits(d)' /\ blob'.fps = blob'.keys
    BY <2>3, <2>17 DEF SetDefault, Edit
  <2>18. ASSUME NEW v \in Name, NEW s \in Name, NEW f \in Firsts(d), HandoffAndDelete(d, v, s, f)
         PROVE  StoreFits(d)' /\ blob'.fps = blob'.keys
    <3>1. /\ pc[d] = "idle" /\ pc' = pc /\ hand' = hand /\ blob' = blob
          /\ keys'[d] = [keys[d] EXCEPT ![v] = 0]
          /\ index'[d] = [index[d] EXCEPT ![v] = 0]
      BY <2>2, <2>18 DEF HandoffAndDelete, Edit
    <3> QED
      BY <2>1, <3>1 DEF StoreFits
  <2>19. CASE (\E label \in {"positions", "establish"} : CallFails(d, label)) \/ PeekFails(d)
    BY <2>2, <2>3, <2>19 DEF CallFails, PeekFails, MayStop
  <2>20. CASE PushAnswerLost(d)
    <3>1. /\ keys' = keys /\ index' = index /\ hand' = hand
          /\ pc[d] # "import" /\ pc'[d] # "import"
          /\ Store(hand[d])
      BY <2>2, <2>20 DEF PushAnswerLost
    <3>2. hand[d] \in Bundle /\ hand[d].fps = hand[d].keys
      BY <2>1, <2>2 DEF StoreFits
    <3>3. blob'.fps = blob'.keys
      BY <3>1, <3>2, StoreType
    <3> QED
      BY <2>1, <3>1, <3>3 DEF StoreFits
  <2>21. CASE LoseKey(d) \/ LogOut(d)
    <3>1. UNCHANGED <<blob, keys, index, pc, hand, todo>>
      BY <2>21 DEF LoseKey, LogOut
    <3>2. MergedIndex(d)' = MergedIndex(d)
      BY <3>1 DEF MergedIndex, NamesOf
    <3> QED
      BY <2>1, <3>1, <3>2 DEF StoreFits, NamesOf
  <2> QED
    BY <1>2, <2>4, <2>5, <2>6, <2>7, <2>8, <2>9, <2>10, <2>11, <2>12, <2>13, <2>14, <2>15,
       <2>16, <2>17, <2>18, <2>19, <2>20, <2>21
    DEF Step, RunStep, UserStep, FaultStep
<1> QED
  BY <1>1, <1>2 DEF Next, Step

LEMMA StoreInvariant == ASSUME ~ImportsStop PROVE Spec => [](TypeOK /\ StoreInv)
<1>1. Init => TypeOK /\ StoreInv
  BY TypeInit, StoreInit
<1>2. TypeOK /\ StoreInv /\ [Next]_vars => TypeOK' /\ StoreInv'
  BY TypeNext, StoreNext
<1> QED
  BY <1>1, <1>2, PTL DEF Spec

\* If no import is cut short, then outside an import the index of a device lists
\* exactly the keys in its keystore and the manifest of the cloud's bundle the keys
\* in the bundle, even when runs overlap: the fingerprints the key-swap gate
\* compares are those of the keys.
THEOREM FingerprintsMatch == ASSUME ~ImportsStop PROVE Spec => []FingerprintsMatchKeys
<1>1. StoreInv => FingerprintsMatchKeys
  BY DEF StoreInv, StoreFits, FingerprintsMatchKeys
<1> QED
  BY <1>1, StoreInvariant, PTL

-----------------------------------------------------------------------------
(* The key-swap gate.                                                      *)

LEMMA GateInit == Init => GateInv
BY DEF Init, GateInv, GateFits

\* Where nothing is left to import the gate has nothing to guard.
Past == {"idle", "replace", "adopt", "positions"}

\* A device without a run does not touch the blob, and starts a run only alone.
LEMMA IdleStep ==
    ASSUME ~PassesOverlap, TypeOK, NEW d \in Device, Step(d), pc[d] = "idle"
    PROVE  blob' = blob /\ (pc'[d] = "idle" \/ \A e \in Device : pc[e] = "idle")
<1> USE DEF deviceVars, runVars
<1>1. CASE \E approval \in {NoChange, offer[d]} : Begin(d, approval)
  BY <1>1 DEF Begin
<1>2. CASE RunStep(d)
  BY <1>2 DEF RunStep, GateBlocks, GatePasses, SyncIdentities, PullIdentities, ImportOne,
              SaveIndex, Redigest, PushIdentities, ReplaceBlob, KeyMissing, EstablishEncKey,
              KeepDefault, AdoptDefault, OfferDefault, SavePositions
<1>3. CASE UserStep(d)
  BY <1>3 DEF UserStep, NewKeys, ConfigSet, SetDefault, HandoffAndDelete
<1>4. CASE FaultStep(d)
  BY <1>4 DEF FaultStep, CallFails, PeekFails, PushAnswerLost, Crash, LoseKey, LogOut
<1> QED
  BY <1>1, <1>2, <1>3, <1>4 DEF Step

\* It is enough to look at the device that moves.
LEMMA GateStep ==
    ASSUME ~PassesOverlap, TypeOK, GateInv, NEW d \in Device, Step(d), GateFits(d)'
    PROVE  GateInv'
<1>1. ASSUME NEW e \in Device, e # d PROVE GateFits(e)' /\ (pc'[e] = "idle" \/ pc'[d] = "idle")
  <2>1. Unmoved(e) /\ GateFits(e)
    BY <1>1, OnlyActorMoves DEF GateInv
  <2>2. pc[e] = "idle" \/ pc[d] = "idle"
    BY <1>1 DEF GateInv
  <2>3. CASE pc[e] = "idle"
    BY <2>1, <2>3 DEF Unmoved, GateFits
  <2>4. CASE pc[e] # "idle"
    <3>1. blob' = blob /\ pc'[d] = "idle"
      BY <2>2, <2>4, IdleStep
    <3> QED
      BY <2>1, <3>1 DEF Unmoved, GateFits, MustAsk, KeepsDefault
  <2> QED
    BY <2>3, <2>4
<1>2. ASSUME NEW e \in Device, NEW f \in Device, pc'[e] # "idle", pc'[f] # "idle" PROVE e = f
  <2>1. ASSUME e # d, f # d PROVE e = f
    <3>1. pc[e] # "idle" /\ pc[f] # "idle"
      BY <1>2, <2>1, OnlyActorMoves DEF Unmoved
    <3> QED
      BY <3>1 DEF GateInv
  <2> QED
    BY <1>1, <1>2, <2>1
<1>3. \A e \in Device : GateFits(e)'
  BY <1>1
<1> QED
  BY <1>2, <1>3 DEF GateInv

LEMMA GateNext ==
    ASSUME ~PassesOverlap, ~ImportsStop, TypeOK, StoreInv, GateInv, [Next]_vars
    PROVE  GateInv'
<1> USE DEF Goto, deviceVars, runVars, counters
<1>1. CASE UNCHANGED vars
  BY <1>1 DEF vars, GateInv, GateFits, MustAsk, KeepsDefault
<1>2. ASSUME NEW d \in Device, Step(d) PROVE GateInv'
  <2>1. GateFits(d)
    BY DEF GateInv
  <2>2. /\ pc \in [Device -> Label] /\ index \in [Device -> Ring]
        /\ hand \in [Device -> Bundle] /\ remote \in [Device -> Nat]
        /\ ungated \in [Device -> BOOLEAN] /\ dflt \in [Device -> Name \cup {NoName}]
    BY DEF TypeOK
  <2> SUFFICES GateFits(d)'
    BY <1>2, GateStep
  <2>3. ASSUME pc'[d] \in Past PROVE GateFits(d)'
    BY <2>3 DEF Past, GateFits
  \* Steps of a run that already passed the gate and leave the stores alone.
  <2>4. ASSUME UNCHANGED <<blob, index, dflt, approve, ungated>>,
               pc[d] \in {"sync", "pull", "import", "redigest", "establish", "push"},
               pc'[d] \in {"sync", "pull", "redigest", "establish", "push"} \cup Past
        PROVE  GateFits(d)'
    BY <2>1, <2>4 DEF Past, GateFits, MustAsk, KeepsDefault
  <2>5. CASE \E approval \in {NoChange, offer[d]} : Begin(d, approval)
    BY <2>2, <2>5 DEF Begin, GateFits
  <2>6. CASE GateBlocks(d)
    BY <2>2, <2>3, <2>6 DEF GateBlocks, Past
  <2>7. CASE GatePasses(d)
    <3>1. /\ pc'[d] = "sync" /\ ungated'[d] = CannotCompare(d) /\ ~SwapsDefault(d)
          /\ UNCHANGED <<blob, index, dflt, approve>> /\ remote[d] = blob.ver
      BY <2>1, <2>2, <2>7 DEF GatePasses, GateFits
    <3>2. ASSUME MustAsk(d)' PROVE KeepsDefault(d)'
      <4>1. /\ dflt[d] # NoName /\ CanPeek(d) /\ approve[d] # <<"key", dflt[d]>>
            /\ dflt[d] \notin legacy[d] /\ dflt[d] \notin blob.legacy
        BY <3>1, <3>2 DEF MustAsk, CannotCompare
      <4>2. remote[d] # 0
        BY <3>1, <4>1 DEF CanPeek
      <4>3. KeepsDefault(d)
        BY <3>1, <4>1, <4>2 DEF SwapsDefault, KeepsDefault, localIndexFingerprint,
                                manifestFingerprint
      <4> QED
        BY <3>1, <4>3 DEF KeepsDefault
    <3> QED
      BY <3>1, <3>2 DEF GateFits
  <2>8. CASE SyncIdentities(d)
    BY <2>2, <2>4, <2>8 DEF SyncIdentities, SyncDecision, Past
  <2>9. CASE PullIdentities(d)
    <3>1. /\ UNCHANGED <<blob, index, dflt, approve, ungated>>
          /\ pc[d] = "pull" /\ hand'[d] = blob /\ pc'[d] \in {"import", "redigest"}
      BY <2>2, <2>9 DEF PullIdentities
    <3> QED
      BY <2>1, <3>1 DEF GateFits, MustAsk, KeepsDefault
  <2>10. ASSUME NEW n \in Name, ImportOne(d, n) PROVE GateFits(d)'
    BY <2>1, <2>10 DEF ImportOne, GateFits, MustAsk, KeepsDefault
  <2>11. CASE SaveIndex(d)
    <3>1. /\ UNCHANGED <<blob, dflt, approve, ungated>>
          /\ pc[d] = "import" /\ pc'[d] = "redigest" /\ index'[d] = MergedIndex(d)
      BY <2>2, <2>11 DEF SaveIndex
    <3>2. ASSUME MustAsk(d)' PROVE KeepsDefault(d)'
      <4>1. KeepsDefault(d) /\ hand[d].fps = blob.fps /\ dflt[d] \in Name
        BY <2>1, <2>2, <3>1, <3>2 DEF GateFits, MustAsk
      <4>2. index'[d][dflt[d]] = IF blob.fps[dflt[d]] # 0 THEN blob.fps[dflt[d]]
                                 ELSE index[d][dflt[d]]
        BY <3>1, <4>1 DEF MergedIndex, NamesOf
      <4> QED
        BY <3>1, <4>1, <4>2 DEF KeepsDefault
    <3> QED
      BY <3>1, <3>2 DEF GateFits
  <2>12. CASE Redigest(d)
    BY <2>2, <2>4, <2>12 DEF Redigest, Past
  <2>13. CASE PushIdentities(d)
    BY <2>2, <2>3, <2>13 DEF PushIdentities, Past
  <2>14. CASE ReplaceBlob(d)
    BY <2>2, <2>3, <2>14 DEF ReplaceBlob, Past
  <2>15. CASE KeyMissing(d) \/ EstablishEncKey(d)
    BY <2>2, <2>4, <2>15 DEF KeyMissing, EstablishEncKey, Past
  <2>16. CASE KeepDefault(d) \/ AdoptDefault(d) \/ OfferDefault(d)
    BY <2>2, <2>3, <2>16 DEF KeepDefault, AdoptDefault, OfferDefault, Past
  <2>17. CASE SavePositions(d) \/ Crash(d)
    BY <2>2, <2>3, <2>17 DEF SavePositions, Crash, ForgetRun, Past
  <2>18. CASE UserStep(d)
    BY <2>2, <2>3, <2>18 DEF UserStep, NewKeys, ConfigSet, SetDefault, HandoffAndDelete, Edit, Past
  <2>19. CASE (\E label \in {"positions", "establish"} : CallFails(d, label)) \/ PushAnswerLost(d)
    BY <2>2, <2>3, <2>19 DEF CallFails, PushAnswerLost, MayStop, Past
  <2>20. CASE PeekFails(d)
    <3>1. CASE pc[d] = "gate"
      <4>1. pc'[d] = "sync" /\ ungated'[d]
        BY <2>2, <2>20, <3>1 DEF PeekFails
      <4> QED
        BY <4>1 DEF GateFits, MustAsk
    <3>2. CASE pc[d] # "gate"
      BY <2>2, <2>3, <2>20, <3>2 DEF PeekFails, Past
    <3> QED
      BY <3>1, <3>2
  <2>21. CASE LoseKey(d) \/ LogOut(d)
    BY <2>1, <2>21 DEF LoseKey, LogOut, GateFits, MustAsk, KeepsDefault
  <2> QED
    BY <1>2, <2>5, <2>6, <2>7, <2>8, <2>9, <2>10, <2>11, <2>12, <2>13, <2>14, <2>15, <2>16,
       <2>17, <2>18, <2>19, <2>20, <2>21
    DEF Step, RunStep, FaultStep
<1> QED
  BY <1>1, <1>2 DEF Next, Step

\* Only an import changes the keystore of a device during its run.
LEMMA OnlyImportsSwap ==
    ASSUME TypeOK, NEW d \in Device, Step(d), pc[d] # "idle",
           ~ \E n \in Name : ImportOne(d, n)
    PROVE  keys' = keys
<1> USE DEF deviceVars
<1>1. CASE RunStep(d)
  BY <1>1 DEF RunStep, GateBlocks, GatePasses, SyncIdentities, PullIdentities,
              SaveIndex, Redigest, PushIdentities, ReplaceBlob, KeyMissing, EstablishEncKey,
              KeepDefault, AdoptDefault, OfferDefault, SavePositions
<1>2. CASE UserStep(d)
  BY <1>2 DEF UserStep, NewKeys, ConfigSet, SetDefault, HandoffAndDelete, Edit
<1>3. CASE FaultStep(d)
  BY <1>3 DEF FaultStep, CallFails, PeekFails, PushAnswerLost, Crash, LoseKey, LogOut
<1>4. CASE \E approval \in {NoChange, offer[d]} : Begin(d, approval)
  BY <1>4 DEF Begin
<1> QED
  BY <1>1, <1>2, <1>3, <1>4 DEF Step

LEMMA SwapStep ==
    ASSUME TypeOK, StoreInv, GateInv, [Next]_vars, NEW d \in Device, DefaultKeyReplaced(d)
    PROVE  ungated[d] \/ approve[d] = <<"key", dflt[d]>>
<1> SUFFICES ASSUME ~ungated[d], approve[d] # <<"key", dflt[d]>> PROVE FALSE
  OBVIOUS
<1>1. MustAsk(d) /\ dflt[d] \in Name /\ keys'[d] # keys[d] /\ keys' # keys
  BY DEF DefaultKeyReplaced, MustAsk, TypeOK
<1>2. PICK c \in Device : Step(c)
  BY <1>1 DEF Next, Step, vars, deviceVars
<1>3. c = d
  BY <1>1, <1>2, OnlyActorMoves DEF Unmoved
<1>4. PICK n \in Name : ImportOne(d, n)
  BY <1>1, <1>2, <1>3, OnlyImportsSwap DEF DefaultKeyReplaced
<1>5. /\ pc[d] = "import" /\ n \in todo[d]
      /\ keys'[d] = [keys[d] EXCEPT ![n] = hand[d].keys[n]]
      /\ keys[d] \in [Name -> Nat]
  BY <1>4 DEF ImportOne, TypeOK, Ring
<1>6. n = dflt[d]
  BY <1>1, <1>5 DEF DefaultKeyReplaced
<1>7. /\ hand[d].fps = hand[d].keys /\ n \in NamesOf(hand[d].fps) /\ keys[d][n] = index[d][n]
  BY <1>5 DEF StoreInv, StoreFits
<1>8. hand[d].fps = blob.fps /\ KeepsDefault(d)
  BY <1>1, <1>5 DEF GateInv, GateFits
<1>9. keys[d][n] # 0 /\ keys'[d][n] # keys[d][n] /\ keys'[d][n] = hand[d].fps[n]
  BY <1>5, <1>6, <1>7 DEF DefaultKeyReplaced
<1> QED
  BY <1>6, <1>7, <1>8, <1>9 DEF KeepsDefault, NamesOf

\* If runs do not overlap and no import is cut short, a run whose gate could compare
\* fingerprints never replaces the keys of the device's default identity without
\* the user's approval: what the gate compared is what the import stores.
THEOREM GatedSwap ==
    ASSUME ~PassesOverlap, ~ImportsStop
    PROVE  Spec => GatedSwapApproved
<1>1. Init => TypeOK /\ StoreInv /\ GateInv
  BY TypeInit, StoreInit, GateInit
<1>2. TypeOK /\ StoreInv /\ GateInv /\ [Next]_vars => TypeOK' /\ StoreInv' /\ GateInv'
  BY TypeNext, StoreNext, GateNext
<1>3. TypeOK /\ StoreInv /\ GateInv /\ [Next]_vars
        => [\A d \in Device : DefaultKeyReplaced(d) =>
               ungated[d] \/ approve[d] = <<"key", dflt[d]>>]_vars
  BY SwapStep
<1> QED
  BY <1>1, <1>2, <1>3, PTL DEF Spec, GatedSwapApproved
-----------------------------------------------------------------------------
(* Positions, and what the cloud keeps.                                    *)

\* What a position p of a device whose index is "ring" says of the bundle b, up to
\* the names in "gone": all names of the version it stands for are in the index;
\* names of the digest are in the bundle; and a key that is still the digest's is
\* the bundle's if the version still is.  No key is newer than "top".
PosFits(p, b, ring, gone, top) ==
    /\ p.ver <= b.ver
    /\ p.ver = b.ver => \A n \in Name \ gone : b.keys[n] # 0 => ring[n] # 0
    /\ \A g \in p.digest, n \in Name : g[n] <= top
    /\ \A g \in p.digest, n \in Name \ gone : g[n] # 0 => b.keys[n] # 0
    /\ p.ver = b.ver => \A g \in p.digest, n \in Name \ gone : g[n] = ring[n] => ring[n] = b.keys[n]

\* More names are removed, or more keys generated.
LEMMA PosWeaker ==
    ASSUME NEW p \in Position, NEW b \in Bundle, NEW ring \in Ring,
           NEW gone, NEW gone2, gone \subseteq gone2,
           NEW top \in Nat, NEW top2 \in Nat, top <= top2,
           PosFits(p, b, ring, gone, top)
    PROVE  PosFits(p, b, ring, gone2, top2)
<1>1. \A g \in p.digest, n \in Name : g[n] <= top2
  <2> TAKE g \in p.digest, n \in Name
  <2>1. g[n] \in Nat /\ g[n] <= top
    BY DEF PosFits, Position, Ring
  <2> QED
    BY <2>1
<1> QED
  BY <1>1 DEF PosFits

\* A new version of the bundle that keeps the names: the position is behind.
LEMMA PosStored ==
    ASSUME NEW p \in Position, NEW b \in Bundle, NEW c \in Bundle, NEW ring, NEW gone, NEW top,
           c.ver = b.ver + 1, \A n \in Name \ gone : b.keys[n] # 0 => c.keys[n] # 0,
           PosFits(p, b, ring, gone, top)
    PROVE  PosFits(p, c, ring, gone, top)
<1>1. p.ver \in Nat /\ b.ver \in Nat /\ p.ver <= b.ver
  BY DEF Position, Bundle, PosFits
<1>2. p.ver <= c.ver /\ p.ver # c.ver
  BY <1>1
<1> QED
  BY <1>2 DEF PosFits

\* The bundle is merged into the index, and its version recorded.
LEMMA PosMerged ==
    ASSUME NEW p \in Position, NEW q \in Position, NEW b \in Bundle, NEW ring \in Ring,
           NEW new \in Ring, NEW gone, NEW top,
           q.ver \in {p.ver, b.ver}, q.digest = p.digest,
           \A n \in Name : new[n] = IF b.keys[n] # 0 THEN b.keys[n] ELSE ring[n],
           PosFits(p, b, ring, gone, top)
    PROVE  PosFits(q, b, new, gone, top)
<1>1. b.ver \in Nat /\ q.ver <= b.ver
  BY DEF Bundle, PosFits
<1>2. \A n \in Name \ gone : b.keys[n] # 0 => new[n] # 0
  OBVIOUS
<1>3. \A g \in q.digest, n \in Name \ gone : g[n] = new[n] => new[n] = b.keys[n]
  BY DEF PosFits
<1> QED
  BY <1>1, <1>2, <1>3 DEF PosFits

LEMMA PosKeptMerged ==
    ASSUME NEW p \in Position, NEW b \in Bundle, NEW ring \in Ring,
           NEW new \in Ring, NEW gone, NEW top,
           \A n \in Name : new[n] = IF b.keys[n] # 0 THEN b.keys[n] ELSE ring[n],
           PosFits(p, b, ring, gone, top)
    PROVE  PosFits(p, b, new, gone, top)
<1>1. p.ver \in {p.ver, b.ver} /\ p.digest = p.digest
  OBVIOUS
<1> QED
  BY <1>1, PosMerged

\* The user generates a key, newer than any.
LEMMA PosNewKey ==
    ASSUME NEW p \in Position, NEW b \in Bundle, NEW ring \in Ring, NEW gone, NEW top \in Nat,
           NEW m \in Name, PosFits(p, b, ring, gone, top)
    PROVE  PosFits(p, b, [ring EXCEPT ![m] = top + 1], gone, top + 1)
<1> DEFINE new == [ring EXCEPT ![m] = top + 1]
<1>1. new[m] = top + 1 /\ \A n \in Name \ {m} : new[n] = ring[n]
  BY DEF Ring
<1>2. \A g \in p.digest, n \in Name : g[n] \in Nat /\ g[n] <= top
  BY DEF PosFits, Position, Ring
<1> HIDE DEF new
<1>3. \A g \in p.digest, n \in Name : g[n] <= top + 1 /\ g[n] # top + 1
  BY <1>2
<1>4. \A n \in Name : ring[n] # 0 => new[n] # 0
  BY <1>1
<1>5. \A g \in p.digest, n \in Name : g[n] = new[n] => n # m /\ new[n] = ring[n]
  BY <1>1, <1>3
<1>6. PosFits(p, b, new, gone, top + 1)
  BY <1>3, <1>4, <1>5 DEF PosFits
<1> QED
  BY <1>6 DEF new

\* The user removes an identity.
LEMMA PosRemoved ==
    ASSUME NEW p \in Position, NEW b \in Bundle, NEW ring \in Ring, NEW gone, NEW top \in Nat,
           NEW m \in Name, PosFits(p, b, ring, gone, top)
    PROVE  PosFits(p, b, [ring EXCEPT ![m] = 0], gone \cup {m}, top + 1)
<1> DEFINE new == [ring EXCEPT ![m] = 0]
<1>1. \A n \in Name \ {m} : new[n] = ring[n]
  BY DEF Ring
<1> HIDE DEF new
<1>2. PosFits(p, b, new, gone \cup {m}, top)
  BY <1>1 DEF PosFits
<1>3. \A g \in p.digest, n \in Name : g[n] \in Nat /\ g[n] <= top
  BY DEF PosFits, Position, Ring
<1>4. \A g \in p.digest, n \in Name : g[n] <= top + 1
  BY <1>3
<1>5. PosFits(p, b, new, gone \cup {m}, top + 1)
  BY <1>2, <1>4 DEF PosFits
<1> QED
  BY <1>5 DEF new

LEMMA PosNone ==
    ASSUME NEW b \in Bundle, b.ver = 0 => b.keys = NoKeys
    PROVE  \A ring, gone, top : PosFits(NoPos, b, ring, gone, top)
<1>1. NoPos.ver = 0 /\ NoPos.digest = {} /\ b.ver \in Nat
  BY DEF NoPos, Bundle
<1> HIDE DEF NoPos
<1> QED
  BY <1>1 DEF PosFits, NoKeys

\* A position that was just recorded.
LEMMA PosExact ==
    ASSUME NEW p \in Position, NEW b \in Bundle, NEW ring \in Ring, NEW gone, NEW top,
           p.ver = b.ver, p.digest = {ring},
           \A n \in Name : ring[n] <= top, \A n \in Name \ gone : ring[n] = b.keys[n]
    PROVE  PosFits(p, b, ring, gone, top)
<1>1. b.ver \in Nat
  BY DEF Bundle
<1> QED
  BY <1>1 DEF PosFits

\* Steps of a run that have the FetchSyncState answer before them.
Reads == {"gate", "sync", "pull", "import", "redigest", "push", "establish"}

PassFits(d) ==
    /\ pc[d] \in Reads => remote[d] = blob.ver
    /\ pc[d] \in {"pull", "import"} /\ ~changed[d] => st[d].digest = {index[d]}
    /\ pc[d] = "import" => hand[d] = blob
    /\ pc[d] \in {"redigest", "push", "replace"} => st[d].ver = blob.ver
    /\ pc[d] = "redigest" /\ ~changed[d] => \A n \in Name \ removed : index[d][n] = blob.keys[n]
    /\ pc[d] \in {"push", "replace"} => digest[d] = index[d]
    /\ pc[d] = "replace" => hand[d].keys = index[d] /\ ~hand[d].old

DeviceFits(d) ==
    /\ \A n \in Name : index[d][n] <= edits
    /\ PosFits(pos[d], blob, index[d], removed, edits)
    /\ PosFits(st[d], blob, index[d], removed, edits)
    /\ PassFits(d)

BlobFits ==
    /\ blob.ver = 0 \/ blob.old => blob.keys = NoKeys
    /\ \A n \in Name : blob.keys[n] <= edits

CloudInv == BlobFits /\ \A d \in Device : DeviceFits(d)

\* A write keeps every name that no user removed.
BlobKept ==
    \/ blob' = blob
    \/ /\ blob'.ver = blob.ver + 1
       /\ \A n \in Name \ removed : blob.keys[n] # 0 => blob'.keys[n] # 0

LEMMA CloudInit == Init => CloudInv
<1> SUFFICES ASSUME Init PROVE CloudInv
  OBVIOUS
<1>1. blob \in Bundle /\ blob.keys = NoKeys
  BY BundleTypes DEF Init
<1>2. BlobFits
  BY <1>1 DEF Init, BlobFits, NoKeys
<1>3. ASSUME NEW d \in Device PROVE DeviceFits(d)
  <2>1. pos[d] = NoPos /\ st[d] = NoPos /\ pc[d] = "idle" /\ index[d] = NoKeys /\ edits = 0
    BY DEF Init
  <2>2. \A n \in Name : index[d][n] <= edits
    BY <2>1 DEF NoKeys
  <2>3. PassFits(d)
    BY <2>1 DEF PassFits, Reads
  <2> QED
    BY <1>1, <2>1, <2>2, <2>3, PosNone DEF DeviceFits
<1> QED
  BY <1>2, <1>3 DEF CloudInv

LEMMA CountersGrow ==
    ASSUME TypeOK, NEW d \in Device, Step(d)
    PROVE  removed \subseteq removed' /\ edits \in Nat /\ edits' \in Nat /\ edits <= edits'
<1> USE DEF runVars, counters, TypeOK
<1>1. CASE \E approval \in {NoChange, offer[d]} : Begin(d, approval)
  BY <1>1 DEF Begin
<1>2. CASE RunStep(d)
  BY <1>2 DEF RunStep, GateBlocks, GatePasses, SyncIdentities, PullIdentities, ImportOne,
              SaveIndex, Redigest, PushIdentities, ReplaceBlob, KeyMissing, EstablishEncKey,
              KeepDefault, AdoptDefault, OfferDefault, SavePositions
<1>3. CASE UserStep(d)
  BY <1>3 DEF UserStep, NewKeys, ConfigSet, SetDefault, HandoffAndDelete, Edit
<1>4. CASE FaultStep(d)
  BY <1>4 DEF FaultStep, CallFails, PeekFails, PushAnswerLost, Crash, LoseKey, LogOut
<1> QED
  BY <1>1, <1>2, <1>3, <1>4 DEF Step

\* It is enough to look at the blob and at the device that moves.
LEMMA CloudStep ==
    ASSUME ~PassesOverlap, TypeOK, GateInv, CloudInv, NEW d \in Device, Step(d),
           blob' \in Bundle, BlobKept, BlobFits', DeviceFits(d)'
    PROVE  CloudInv'
<1> SUFFICES ASSUME NEW e \in Device, e # d PROVE DeviceFits(e)'
  BY DEF CloudInv
<1>1. Unmoved(e) /\ DeviceFits(e)
  BY OnlyActorMoves DEF CloudInv
<1>2. removed \subseteq removed' /\ edits \in Nat /\ edits' \in Nat /\ edits <= edits'
  BY CountersGrow
<1>3. /\ pos[e] \in Position /\ st[e] \in Position /\ blob \in Bundle /\ index[e] \in Ring
  BY DEF TypeOK
<1>4. ASSUME NEW p \in Position, PosFits(p, blob, index[e], removed, edits)
      PROVE  PosFits(p, blob', index[e], removed', edits')
  <2>1. PosFits(p, blob', index[e], removed, edits)
    BY <1>3, <1>4, PosStored DEF BlobKept
  <2> QED
    BY <1>2, <1>3, <2>1, PosWeaker
<1>5. \A n \in Name : index[e][n] <= edits'
  <2> TAKE n \in Name
  <2>1. index[e][n] \in Nat /\ index[e][n] <= edits
    BY <1>1, <1>3 DEF DeviceFits, Ring
  <2> QED
    BY <1>2, <2>1
<1>6. PassFits(e)'
  <2>1. CASE pc[e] = "idle"
    BY <1>1, <2>1 DEF Unmoved, PassFits, Reads
  <2>2. CASE pc[e] # "idle"
    <3>1. blob' = blob
      BY <2>2, IdleStep DEF GateInv
    <3> QED
      BY <1>1, <1>2, <3>1 DEF Unmoved, DeviceFits, PassFits
  <2> QED
    BY <2>1, <2>2
<1> QED
  BY <1>1, <1>3, <1>4, <1>5, <1>6 DEF DeviceFits, Unmoved

\* Outside an import the digest is that of the index.
LEMMA DigestIsIndex ==
    ASSUME TypeOK, StoreInv, NEW d \in Device, pc[d] # "import"
    PROVE  RoamingDigest(d) = index[d]
<1>1. keys[d] = index[d] /\ index[d] \in Ring
  BY DEF StoreInv, StoreFits, TypeOK
<1> QED
  BY <1>1 DEF RoamingDigest, Ring

\* What a push or a replacement does to the cloud and to the positions.
LEMMA StoredFits ==
    ASSUME TypeOK, CloudInv, NEW d \in Device, NEW b \in Bundle, Store(b),
           b.keys = index[d], ~b.old, pc[d] \in {"push", "replace"}, UNCHANGED <<removed, edits>>
    PROVE  /\ blob' \in Bundle /\ blob'.ver = blob.ver + 1 /\ blob'.keys = index[d]
           /\ BlobKept /\ BlobFits'
           /\ \A p \in Position : PosFits(p, blob, index[d], removed, edits)
                                    => PosFits(p, blob', index[d], removed, edits)
<1>1. blob' \in Bundle /\ blob'.ver = blob.ver + 1 /\ blob'.keys = index[d] /\ blob'.old = b.old
  BY StoreType DEF Store, Bundle
<1>2. blob.ver \in Nat /\ blob \in Bundle
  BY DEF TypeOK, Bundle
<1>3. \A n \in Name \ removed : blob.keys[n] # 0 => index[d][n] # 0
  BY DEF CloudInv, DeviceFits, PassFits, PosFits
<1>4. \A n \in Name : index[d][n] <= edits
  BY DEF CloudInv, DeviceFits
<1> QED
  BY <1>1, <1>2, <1>3, <1>4, PosStored DEF BlobKept, BlobFits

LEMMA CloudNext ==
    ASSUME ~PassesOverlap, ~ImportsStop, TypeOK, StoreInv, GateInv, CloudInv, [Next]_vars
    PROVE  CloudInv' /\ BlobKept
<1> USE DEF Goto, deviceVars, runVars, counters
<1>1. CASE UNCHANGED vars
  BY <1>1 DEF vars, CloudInv, BlobFits, DeviceFits, PassFits, BlobKept
<1>2. ASSUME NEW d \in Device, Step(d) PROVE CloudInv' /\ BlobKept
  <2>1. /\ \A n \in Name : index[d][n] <= edits
        /\ PosFits(pos[d], blob, index[d], removed, edits)
        /\ PosFits(st[d], blob, index[d], removed, edits)
        /\ PassFits(d) /\ BlobFits
    BY DEF CloudInv, DeviceFits
  <2>2. /\ pc \in [Device -> Label] /\ index \in [Device -> Ring] /\ pos \in [Device -> Position]
        /\ hand \in [Device -> Bundle] /\ remote \in [Device -> Nat] /\ st \in [Device -> Position]
        /\ changed \in [Device -> BOOLEAN] /\ digest \in [Device -> Ring]
        /\ blob \in Bundle /\ blob.ver \in Nat /\ edits \in Nat /\ removed \in SUBSET Name
    BY DEF TypeOK, Bundle
  <2>20. TypeOK'
    BY <1>2, TypeNext DEF Next, Step
  <2>21. st'[d] \in Position /\ pos'[d] \in Position /\ index'[d] \in Ring /\ blob' \in Bundle
    BY <2>20 DEF TypeOK
  \* A step within d's run.
  <2>3. ASSUME UNCHANGED <<blob, index, pos, removed, edits>>, PassFits(d)',
               PosFits(st'[d], blob, index[d], removed, edits)
        PROVE  CloudInv' /\ BlobKept
    <3>1. BlobFits' /\ BlobKept
      BY <2>1, <2>3 DEF BlobFits, BlobKept
    <3>2. DeviceFits(d)'
      BY <2>1, <2>3 DEF DeviceFits
    <3> QED
      BY <1>2, <2>21, <3>1, <3>2, CloudStep
  \* Another write than a user's: d pushes.
  <2>4. ASSUME UNCHANGED <<index, pos, removed, edits>>, PassFits(d)',
               NEW b \in Bundle, Store(b), b.keys = index[d], ~b.old, pc[d] \in {"push", "replace"},
               PosFits(st'[d], blob', index[d], removed, edits)
        PROVE  CloudInv' /\ BlobKept
    <3>1. /\ BlobFits' /\ BlobKept
          /\ PosFits(pos[d], blob', index[d], removed, edits)
      BY <2>1, <2>2, <2>4, StoredFits
    <3>2. DeviceFits(d)'
      BY <2>1, <2>4, <3>1 DEF DeviceFits
    <3> QED
      BY <1>2, <2>21, <3>1, <3>2, CloudStep
  <2>5. CASE \E approval \in {NoChange, offer[d]} : Begin(d, approval)
    <3>1. /\ UNCHANGED <<blob, index, pos, removed, edits>> /\ pc'[d] = "gate"
          /\ st'[d] = pos[d] /\ remote'[d] = blob.ver
      BY <2>2, <2>5 DEF Begin
    <3>2. PassFits(d)'
      BY <3>1 DEF PassFits
    <3> QED
      BY <2>1, <2>3, <3>1, <3>2
  <2>6. CASE GateBlocks(d) \/ GatePasses(d)
    <3>1. /\ UNCHANGED <<blob, index, pos, removed, edits, st, remote>>
          /\ pc[d] = "gate" /\ pc'[d] \in {"positions", "sync"}
      BY <2>2, <2>6 DEF GateBlocks, GatePasses
    <3>2. PassFits(d)'
      BY <2>1, <3>1 DEF PassFits, Reads
    <3> QED
      BY <2>1, <2>3, <3>1, <3>2
  <2>7. CASE SyncIdentities(d)
    <3>1. /\ UNCHANGED <<blob, index, pos, removed, edits, st, remote>>
          /\ pc[d] = "sync" /\ pc'[d] = SyncDecision(d)
          /\ changed'[d] = LocalChanged(d) /\ digest'[d] = RoamingDigest(d)
      BY <2>2, <2>7 DEF SyncIdentities
    <3>2. remote[d] = blob.ver /\ RoamingDigest(d) = index[d]
      BY <2>1, <3>1, DigestIsIndex DEF PassFits, Reads
    <3>3. st[d].ver \in Nat /\ st[d].ver <= blob.ver
      BY <2>1, <2>2 DEF PosFits, Position
    <3>4. pc'[d] \in {"adopt", "pull", "push"} /\ (pc'[d] = "push" => st[d].ver = blob.ver)
      BY <2>2, <3>1, <3>2, <3>3 DEF SyncDecision, RemoteMoved
    <3>5. pc'[d] = "pull" /\ ~changed'[d] => st[d].digest = {index[d]}
      BY <3>1, <3>2 DEF LocalChanged
    <3>6. PassFits(d)'
      BY <3>1, <3>2, <3>4, <3>5 DEF PassFits, Reads
    <3> QED
      BY <2>1, <2>3, <3>1, <3>6
  <2>8. CASE PullIdentities(d)
    <3>1. /\ UNCHANGED <<blob, index, pos, removed, edits, remote>>
          /\ pc[d] = "pull" /\ hand'[d] = blob
      BY <2>2, <2>8 DEF PullIdentities
    <3>2. CASE blob.old
      <4>1. pc'[d] = "redigest" /\ changed'[d] = TRUE /\ st' = [st EXCEPT ![d].ver = blob.ver]
        BY <2>2, <2>8, <3>2 DEF PullIdentities
      <4>2. st'[d].ver = blob.ver /\ st'[d].digest = st[d].digest
        BY <2>2, <4>1 DEF Position
      <4>3. \A n \in Name : blob.keys[n] = 0
        BY <2>1, <3>2 DEF BlobFits, NoKeys
      <4>4. PosFits(st'[d], blob, index[d], removed, edits)
        <5>1. \A n \in Name : index[d][n] = IF blob.keys[n] # 0 THEN blob.keys[n] ELSE index[d][n]
          BY <4>3
        <5>2. st'[d].ver \in {st[d].ver, blob.ver}
          BY <4>2
        <5>3. st[d] \in Position /\ index[d] \in Ring
          BY <2>2
        <5>4. st'[d] \in Position /\ blob \in Bundle
          BY <2>2, <2>21
        <5>5. PosFits(st[d], blob, index[d], removed, edits)
          BY <2>1
        <5> QED
          BY <4>2, <5>1, <5>2, <5>3, <5>4, <5>5, PosMerged
      <4>5. PassFits(d)'
        BY <2>1, <3>1, <4>1, <4>2 DEF PassFits, Reads
      <4> QED
        BY <2>3, <3>1, <4>4, <4>5
    <3>3. CASE ~blob.old
      <4>1. pc'[d] = "import" /\ changed' = changed /\ st' = st
        BY <2>2, <2>8, <3>3 DEF PullIdentities
      <4>2. PassFits(d)'
        BY <2>1, <3>1, <4>1 DEF PassFits, Reads
      <4> QED
        BY <2>1, <2>3, <3>1, <4>1, <4>2
    <3> QED
      BY <3>2, <3>3
  <2>9. CASE \E n \in Name : ImportOne(d, n)
    <3>1. UNCHANGED <<blob, index, pos, removed, edits, st, remote, pc, changed, hand, digest>>
      BY <2>9 DEF ImportOne
    <3>2. PassFits(d)'
      BY <2>1, <3>1 DEF PassFits
    <3> QED
      BY <2>1, <2>3, <3>1, <3>2
  <2>10. CASE SaveIndex(d)
    <3>1. /\ UNCHANGED <<blob, pos, removed, edits, remote, changed>>
          /\ pc[d] = "import" /\ pc'[d] = "redigest" /\ index'[d] = MergedIndex(d)
          /\ st' = [st EXCEPT ![d].ver = hand[d].ver]
      BY <2>2, <2>10 DEF SaveIndex
    <3>2. hand[d] = blob /\ blob.fps = blob.keys
      BY <2>1, <3>1 DEF PassFits, StoreInv
    <3>3. st'[d].ver = blob.ver /\ st'[d].digest = st[d].digest
      BY <2>2, <3>1, <3>2 DEF Position
    <3>4. \A n \in Name : index'[d][n] = IF blob.keys[n] # 0 THEN blob.keys[n] ELSE index[d][n]
      BY <3>1, <3>2 DEF MergedIndex, NamesOf
    <3>5. /\ PosFits(st'[d], blob, index'[d], removed, edits)
          /\ PosFits(pos[d], blob, index'[d], removed, edits)
      <4>1. st'[d].ver \in {st[d].ver, blob.ver} /\ pos[d].ver \in {pos[d].ver, blob.ver}
        BY <3>3
      <4>2. st[d] \in Position /\ pos[d] \in Position /\ index[d] \in Ring
        BY <2>2
      <4> DEFINE new == index'[d]
                 q == st'[d]
      <4>3. /\ new \in Ring /\ q \in Position
            /\ q.ver \in {st[d].ver, blob.ver} /\ q.digest = st[d].digest
            /\ \A n \in Name : new[n] = IF blob.keys[n] # 0 THEN blob.keys[n] ELSE index[d][n]
        BY <2>21, <3>3, <3>4, <4>1
      <4> HIDE DEF new, q
      <4>4. PosFits(q, blob, new, removed, edits)
        BY <2>1, <2>2, <4>2, <4>3, PosMerged
      <4>5. PosFits(pos[d], blob, new, removed, edits)
        BY <2>1, <2>2, <4>2, <4>3, PosKeptMerged
      <4> QED
        BY <4>4, <4>5 DEF new, q
    <3>6. \A n \in Name : index'[d][n] <= edits
      BY <2>1, <3>4 DEF BlobFits
    <3>7. ASSUME ~changed[d], NEW n \in Name \ removed PROVE index'[d][n] = blob.keys[n]
      <4>1. st[d].digest = {index[d]}
        BY <2>1, <3>1, <3>7 DEF PassFits
      <4>2. index[d][n] # 0 => blob.keys[n] # 0
        BY <2>1, <3>7, <4>1 DEF PosFits
      <4> QED
        BY <3>4, <3>7, <4>2
    <3>8. PassFits(d)'
      BY <2>1, <3>1, <3>3, <3>7 DEF PassFits, Reads
    <3>9. DeviceFits(d)' /\ BlobFits' /\ BlobKept
      BY <2>1, <3>1, <3>5, <3>6, <3>8 DEF DeviceFits, BlobFits, BlobKept
    <3> QED
      BY <1>2, <2>21, <3>9, CloudStep
  <2>11. CASE Redigest(d)
    <3>1. /\ UNCHANGED <<blob, index, pos, removed, edits, remote, changed>>
          /\ pc[d] = "redigest" /\ digest'[d] = RoamingDigest(d) /\ RoamingDigest(d) = index[d]
      BY <2>2, <2>11, DigestIsIndex DEF Redigest
    <3>2. CASE changed[d]
      <4>1. pc'[d] = "push" /\ st' = st
        BY <2>2, <2>11, <3>2 DEF Redigest
      <4>2. PassFits(d)'
        BY <2>1, <3>1, <4>1 DEF PassFits, Reads
      <4> QED
        BY <2>1, <2>3, <3>1, <4>1, <4>2
    <3>3. CASE ~changed[d]
      <4>1. pc'[d] = "adopt" /\ st' = [st EXCEPT ![d].digest = {RoamingDigest(d)}]
        BY <2>2, <2>11, <3>3 DEF Redigest
      <4>2. st'[d].ver = blob.ver /\ st'[d].digest = {index[d]}
        BY <2>1, <2>2, <3>1, <4>1 DEF Position, PassFits
      <4>3. \A n \in Name \ removed : index[d][n] = blob.keys[n]
        BY <2>1, <3>1, <3>3 DEF PassFits
      <4>4. PosFits(st'[d], blob, index[d], removed, edits)
        BY <2>1, <2>2, <2>21, <4>2, <4>3, PosExact
      <4>5. PassFits(d)'
        BY <4>1, <2>2, <2>11 DEF PassFits, Reads, Redigest
      <4> QED
        BY <2>3, <3>1, <4>4, <4>5
    <3> QED
      BY <3>2, <3>3
  <2>12. CASE PushIdentities(d)
    <3>1. /\ UNCHANGED <<index, pos, removed, edits, remote, digest>>
          /\ pc[d] = "push" /\ hand'[d] = [ExportIdentities(d) EXCEPT !.ver = blob.ver]
      BY <2>2, <2>12 DEF PushIdentities
    <3>2. digest[d] = index[d] /\ RoamingDigest(d) = index[d]
      BY <2>1, <3>1, DigestIsIndex DEF PassFits
    <3>3. CASE blob.ver = 0
      <4> DEFINE b == ExportIdentities(d)
      <4>1. b \in Bundle
        BY DigestType DEF ExportIdentities, Bundle, TypeOK
      <4>2. b.keys = index[d] /\ ~b.old
        BY <3>2 DEF ExportIdentities
      <4>3. /\ Store(b) /\ pc'[d] = "adopt"
            /\ st'[d] = [ver |-> 1, digest |-> {digest[d]}]
        BY <2>2, <2>12, <3>3 DEF PushIdentities
      <4> HIDE DEF b
      <4>4. blob'.ver = blob.ver + 1 /\ blob'.keys = index[d]
        BY <3>1, <4>1, <4>2, <4>3, StoredFits
      <4>5. st'[d].ver = blob'.ver /\ st'[d].digest = {index[d]}
        BY <3>2, <3>3, <4>3, <4>4
      <4>6. PosFits(st'[d], blob', index[d], removed, edits)
        BY <2>1, <2>2, <2>21, <4>4, <4>5, PosExact
      <4>7. PassFits(d)'
        BY <4>3 DEF PassFits, Reads
      <4> QED
        BY <2>4, <3>1, <4>1, <4>2, <4>3, <4>6, <4>7
    <3>4. CASE blob.ver # 0
      <4>1. blob' = blob /\ st' = st /\ pc'[d] = "replace"
        BY <2>2, <2>12, <3>4 DEF PushIdentities
      <4>2. hand'[d].keys = index[d] /\ ~hand'[d].old
        BY <3>1, <3>2 DEF ExportIdentities
      <4>3. PassFits(d)'
        BY <2>1, <3>1, <3>2, <4>1, <4>2 DEF PassFits, Reads
      <4> QED
        BY <2>1, <2>3, <3>1, <4>1, <4>3
    <3> QED
      BY <3>3, <3>4
  <2>13. CASE ReplaceBlob(d)
    <3>1. /\ UNCHANGED <<index, pos, removed, edits>> /\ pc[d] = "replace"
          /\ pc'[d] \in {"adopt", "positions"}
      BY <2>2, <2>13 DEF ReplaceBlob
    <3>2. hand[d] \in Bundle /\ digest[d] = index[d] /\ hand[d].keys = index[d] /\ ~hand[d].old
      BY <2>1, <2>2, <3>1 DEF PassFits
    <3>3. PassFits(d)'
      BY <3>1 DEF PassFits, Reads
    <3>4. CASE hand[d].ver = blob.ver
      <4>1. Store(hand[d]) /\ st'[d] = [ver |-> blob.ver + 1, digest |-> {digest[d]}]
        BY <2>2, <2>13, <3>4 DEF ReplaceBlob
      <4>2. blob'.ver = blob.ver + 1 /\ blob'.keys = index[d]
        BY <3>1, <3>2, <4>1, StoredFits
      <4>3. st'[d].ver = blob'.ver /\ st'[d].digest = {index[d]}
        BY <3>2, <4>1, <4>2
      <4>4. PosFits(st'[d], blob', index[d], removed, edits)
        BY <2>1, <2>2, <2>21, <4>2, <4>3, PosExact
      <4> QED
        BY <2>4, <3>1, <3>2, <3>3, <4>1, <4>4
    <3>5. CASE hand[d].ver # blob.ver
      <4>1. blob' = blob /\ st' = st
        BY <2>13, <3>5 DEF ReplaceBlob
      <4> QED
        BY <2>1, <2>3, <3>1, <3>3, <4>1
    <3> QED
      BY <3>4, <3>5
  <2>14. CASE PushAnswerLost(d)
    <3>1. /\ UNCHANGED <<index, pos, removed, edits, st>> /\ pc[d] = "replace"
          /\ pc'[d] = "positions" /\ Store(hand[d])
      BY <2>2, <2>14 DEF PushAnswerLost
    <3>2. hand[d] \in Bundle /\ hand[d].keys = index[d] /\ ~hand[d].old
      BY <2>1, <2>2, <3>1 DEF PassFits
    <3>3. PassFits(d)'
      BY <3>1 DEF PassFits, Reads
    <3>4. PosFits(st'[d], blob', index[d], removed, edits)
      BY <2>1, <2>2, <3>1, <3>2, StoredFits
    <3> QED
      BY <2>4, <3>1, <3>2, <3>3, <3>4
  <2>15. CASE KeyMissing(d) \/ EstablishEncKey(d) \/ PeekFails(d)
    <3>1. /\ UNCHANGED <<blob, index, pos, removed, edits, st, remote>>
          /\ pc'[d] \in {"establish", "sync", "positions"}
          /\ pc'[d] # "positions" => pc[d] \in Reads
      BY <2>2, <2>15 DEF KeyMissing, EstablishEncKey, PeekFails, Reads
    <3>2. PassFits(d)'
      BY <2>1, <3>1 DEF PassFits, Reads
    <3> QED
      BY <2>1, <2>3, <3>1, <3>2
  <2>16. CASE KeepDefault(d) \/ AdoptDefault(d) \/ OfferDefault(d)
    <3>1. UNCHANGED <<blob, index, pos, removed, edits, st>> /\ pc'[d] = "positions"
      BY <2>2, <2>16 DEF KeepDefault, AdoptDefault, OfferDefault
    <3>2. PassFits(d)'
      BY <3>1 DEF PassFits, Reads
    <3> QED
      BY <2>1, <2>3, <3>1, <3>2
  <2>17. CASE \E label \in {"positions", "establish"} : CallFails(d, label)
    <3>1. UNCHANGED <<blob, index, pos, removed, edits, st>> /\ pc'[d] = "positions"
      BY <2>2, <2>17 DEF CallFails, MayStop
    <3>2. PassFits(d)'
      BY <3>1 DEF PassFits, Reads
    <3> QED
      BY <2>1, <2>3, <3>1, <3>2
  <2>18. CASE SavePositions(d) \/ Crash(d) \/ LogOut(d)
    <3>1. /\ UNCHANGED <<blob, index, removed, edits>> /\ pc'[d] = "idle"
          /\ pos'[d] \in {pos[d], st[d], NoPos} /\ st'[d] \in {st[d], NoPos}
      BY <2>2, <2>18 DEF SavePositions, Crash, LogOut, ForgetRun
    <3>2. PassFits(d)'
      BY <3>1 DEF PassFits, Reads
    <3>3. PosFits(NoPos, blob, index[d], removed, edits)
      BY <2>1, <2>2, PosNone DEF BlobFits
    <3>4. DeviceFits(d)' /\ BlobFits' /\ BlobKept
      BY <2>1, <3>1, <3>2, <3>3 DEF DeviceFits, BlobFits, BlobKept
    <3> QED
      BY <1>2, <2>21, <3>4, CloudStep
  <2>19. CASE LoseKey(d)
    <3>1. UNCHANGED <<blob, index, pos, removed, edits, st, remote, pc, changed, hand, digest>>
      BY <2>19 DEF LoseKey
    <3>2. PassFits(d)'
      BY <2>1, <3>1 DEF PassFits
    <3> QED
      BY <2>1, <2>3, <3>1, <3>2
  \* The users.
  <2>22. ASSUME pc[d] = "idle", pc' = pc, blob' = blob, pos' = pos, st' = st, edits' = edits + 1,
                \A n \in Name : index'[d][n] <= edits + 1,
                PosFits(pos[d], blob, index'[d], removed', edits + 1),
                PosFits(st[d], blob, index'[d], removed', edits + 1)
         PROVE  CloudInv' /\ BlobKept
    <3>1. \A n \in Name : blob.keys[n] \in Nat /\ blob.keys[n] <= edits
      BY <2>1, <2>2 DEF BlobFits, Bundle, Ring
    <3>2. BlobFits' /\ BlobKept
      BY <2>1, <2>2, <2>22, <3>1 DEF BlobFits, BlobKept
    <3>3. DeviceFits(d)'
      BY <2>22 DEF DeviceFits, PassFits, Reads
    <3> QED
      BY <1>2, <2>21, <3>2, <3>3, CloudStep
  <2>23. \A n \in Name : index[d][n] \in Nat /\ index[d][n] <= edits + 1
    BY <2>1, <2>2 DEF Ring
  <2>24. pos[d] \in Position /\ st[d] \in Position /\ index[d] \in Ring
    BY <2>2
  <2>25. ASSUME NEW n \in Name, NEW old \in BOOLEAN, NewKeys(d, n, old) PROVE CloudInv' /\ BlobKept
    <3>1. /\ pc[d] = "idle" /\ pc' = pc /\ blob' = blob /\ pos' = pos /\ st' = st
          /\ edits' = edits + 1 /\ removed' = removed
          /\ index'[d] = [index[d] EXCEPT ![n] = edits + 1]
      BY <2>2, <2>25 DEF NewKeys, Edit
    <3>2. \A m \in Name : index'[d][m] <= edits + 1
      BY <2>2, <2>23, <2>24, <3>1 DEF Ring
    <3>3. /\ PosFits(pos[d], blob, index'[d], removed, edits + 1)
          /\ PosFits(st[d], blob, index'[d], removed, edits + 1)
      <4>1. /\ PosFits(pos[d], blob, [index[d] EXCEPT ![n] = edits + 1], removed, edits + 1)
            /\ PosFits(st[d], blob, [index[d] EXCEPT ![n] = edits + 1], removed, edits + 1)
        BY <2>1, <2>2, <2>24, PosNewKey
      <4> QED
        BY <3>1, <4>1
    <3> QED
      BY <2>22, <3>1, <3>2, <3>3
  <2>26. CASE \/ \E n \in Name : ConfigSet(d, n)
              \/ \E first \in Firsts(d), n \in Name : SetDefault(d, n, first)
    <3>1. /\ pc[d] = "idle" /\ pc' = pc /\ blob' = blob /\ pos' = pos /\ st' = st
          /\ edits' = edits + 1 /\ removed' = removed /\ index' = index
      BY <2>26 DEF ConfigSet, SetDefault, Edit
    <3>2. edits + 1 \in Nat /\ edits <= edits + 1
      BY <2>2
    <3>3. /\ PosFits(pos[d], blob, index[d], removed, edits + 1)
          /\ PosFits(st[d], blob, index[d], removed, edits + 1)
      BY <2>1, <2>2, <2>24, <3>2, PosWeaker
    <3> QED
      BY <2>22, <2>23, <3>1, <3>3
  <2>27. ASSUME NEW v \in Name, NEW s \in Name, NEW f \in Firsts(d), HandoffAndDelete(d, v, s, f)
         PROVE  CloudInv' /\ BlobKept
    <3>1. /\ pc[d] = "idle" /\ pc' = pc /\ blob' = blob /\ pos' = pos /\ st' = st
          /\ edits' = edits + 1 /\ removed' = removed \cup {v}
          /\ index'[d] = [index[d] EXCEPT ![v] = 0]
      BY <2>2, <2>27 DEF HandoffAndDelete, Edit
    <3>2. \A m \in Name : index'[d][m] <= edits + 1
      BY <2>2, <2>23, <2>24, <3>1 DEF Ring
    <3>3. /\ PosFits(pos[d], blob, index'[d], removed', edits + 1)
          /\ PosFits(st[d], blob, index'[d], removed', edits + 1)
      <4>1. /\ PosFits(pos[d], blob, [index[d] EXCEPT ![v] = 0], removed \cup {v}, edits + 1)
            /\ PosFits(st[d], blob, [index[d] EXCEPT ![v] = 0], removed \cup {v}, edits + 1)
        BY <2>1, <2>2, <2>24, PosRemoved
      <4> QED
        BY <3>1, <4>1
    <3> QED
      BY <2>22, <3>1, <3>2, <3>3
  <2> QED
    BY <1>2, <2>5, <2>6, <2>7, <2>8, <2>9, <2>10, <2>11, <2>12, <2>13, <2>14, <2>15, <2>16,
       <2>17, <2>18, <2>19, <2>25, <2>26, <2>27
    DEF Step, RunStep, UserStep, FaultStep
<1> QED
  BY <1>1, <1>2 DEF Next, Step

\* The four invariants together.
LEMMA CloudInvariant ==
    ASSUME ~PassesOverlap, ~ImportsStop
    PROVE  Spec => [](TypeOK /\ StoreInv /\ GateInv /\ CloudInv)
<1>1. Init => TypeOK /\ StoreInv /\ GateInv /\ CloudInv
  BY TypeInit, StoreInit, GateInit, CloudInit
<1>2. TypeOK /\ StoreInv /\ GateInv /\ CloudInv /\ [Next]_vars
        => TypeOK' /\ StoreInv' /\ GateInv' /\ CloudInv'
  BY TypeNext, StoreNext, GateNext, CloudNext
<1> QED
  BY <1>1, <1>2, PTL DEF Spec

\* If runs do not overlap and no import is cut short, a device that SyncIdentities
\* would report as up to date holds exactly the cloud's keys, up to identities some
\* user removed: recorded version and digest never agree by accident, whatever was
\* generated, rotated, lost in a failed call or crashed in between.
THEOREM UpToDateIsSame ==
    ASSUME ~PassesOverlap, ~ImportsStop
    PROVE  Spec => []UpToDateMeansSame
<1>1. TypeOK /\ StoreInv /\ CloudInv => UpToDateMeansSame
  <2> SUFFICES ASSUME TypeOK, StoreInv, CloudInv, NEW d \in Device, pc[d] = "idle",
                      pos[d].ver = blob.ver, pos[d].digest = {RoamingDigest(d)},
                      NEW n \in Name \ removed
               PROVE  RoamingDigest(d)[n] = blob.keys[n]
    BY DEF UpToDateMeansSame
  <2>1. RoamingDigest(d) = index[d]
    BY DigestIsIndex
  <2>2. PosFits(pos[d], blob, index[d], removed, edits)
    BY DEF CloudInv, DeviceFits
  <2> QED
    BY <2>1, <2>2 DEF PosFits
<1> QED
  BY <1>1, CloudInvariant, PTL

\* Under the same conditions a push, which replaces the whole blob, loses no
\* identity but those some user removed: what is pushed was merged with, or stands
\* for, the version it replaces.
THEOREM CloudKeeps ==
    ASSUME ~PassesOverlap, ~ImportsStop
    PROVE  Spec => CloudKeepsIdentities
<1>1. TypeOK /\ StoreInv /\ GateInv /\ CloudInv /\ StoreInv' /\ [Next]_vars
        => [\A n \in Name : blob.fps[n] # 0 /\ blob'.fps[n] = 0 => n \in removed]_vars
  <2> SUFFICES ASSUME TypeOK, StoreInv, GateInv, CloudInv, StoreInv', [Next]_vars,
                      NEW n \in Name, blob.fps[n] # 0, blob'.fps[n] = 0
               PROVE  n \in removed
    OBVIOUS
  <2>1. BlobKept
    BY CloudNext
  <2>2. blob.fps = blob.keys /\ blob'.fps = blob'.keys
    BY DEF StoreInv
  <2> QED
    BY <2>1, <2>2 DEF BlobKept
<1> QED
  BY <1>1, CloudInvariant, PTL DEF Spec, CloudKeepsIdentities

-----------------------------------------------------------------------------
(* Pushes are earned, in every environment.                                *)

\* A device that may still push: the recorded digest is not that of its identities,
\* or its run has already found that out.
Owes(d) ==
    IF pc[d] = "idle" THEN pos[d].digest # {RoamingDigest(d)}
    ELSE IF pc[d] \in {"import", "redigest", "push", "replace"} THEN changed[d] = TRUE
    ELSE st[d].digest # {RoamingDigest(d)}

Owing == {d \in Device : Owes(d)}

\* A run pushes only what it found changed; nobody has a digest while the blob is an
\* old one, so that its replacement is somebody's first push.
EarnFits(d) ==
    /\ pos[d].ver <= blob.ver /\ st[d].ver <= blob.ver
    /\ pc[d] = "import" => hand[d].ver <= blob.ver
    /\ pc[d] \in Reads /\ remote[d] = 0
         => st[d].ver = 0 /\ pc[d] \notin {"pull", "import", "redigest"}
    /\ pc[d] = "pull" => (changed[d] = TRUE <=> st[d].digest # {RoamingDigest(d)})
    /\ pc[d] \in {"push", "replace"} => changed[d] = TRUE /\ digest[d] = RoamingDigest(d)
    /\ pc[d] = "replace" => ~hand[d].old
    /\ blob.old => /\ pos[d].digest = {} /\ st[d].digest = {}
                   /\ pc[d] # "import"
                   /\ pc[d] = "redigest" => changed[d] = TRUE

EarnInv ==
    /\ \A d \in Device : EarnFits(d)
    /\ blob.ver + Cardinality(Owing) <= 1 + Cardinality(Device) + edits + faults

LEMMA OwingFinite ==
    /\ IsFiniteSet(Owing) /\ Cardinality(Owing) \in Nat
    /\ Cardinality(Owing) <= Cardinality(Device) /\ Cardinality(Device) \in Nat
<1>1. Owing \in SUBSET Device /\ IsFiniteSet(Device)
  BY RoamingAssumption DEF Owing
<1> QED
  BY <1>1, FS_Subset, FS_CardinalityType

LEMMA EarnInit == Init => EarnInv
<1> SUFFICES ASSUME Init PROVE EarnInv
  OBVIOUS
<1>1. blob.ver \in {0, 1}
  <2>1. NoBlob.ver = 0 /\ OldBlob.ver = 1
    BY DEF NoBlob, OldBlob
  <2> QED
    BY <2>1 DEF Init
<1>2. ASSUME NEW d \in Device PROVE EarnFits(d)
  <2>1. pos[d] = NoPos /\ st[d] = NoPos /\ pc[d] = "idle"
    BY DEF Init
  <2>2. NoPos.ver = 0 /\ NoPos.digest = {}
    BY DEF NoPos
  <2> QED
    BY <1>1, <2>1, <2>2 DEF EarnFits, Reads
<1> QED
  BY <1>1, <1>2, OwingFinite DEF EarnInv, Init

\* How one device's step changes the number of those that owe.
LEMMA OwingStep ==
    ASSUME NEW d \in Device, \A e \in Device \ {d} : Owes(e)' <=> Owes(e)
    PROVE  /\ Cardinality(Owing') <= Cardinality(Owing) + 1
           /\ (Owes(d)' => Owes(d)) => Cardinality(Owing') <= Cardinality(Owing)
           /\ Owes(d) /\ ~Owes(d)' => Cardinality(Owing') = Cardinality(Owing) - 1
<1> DEFINE S == Owing
           T == {e \in Device : Owes(e)'}
<1>1. IsFiniteSet(S) /\ Cardinality(S) \in Nat
  BY OwingFinite
<1>2. T = Owing'
  BY DEF Owing
<1>3. T \subseteq S \cup {d} /\ ((Owes(d)' => Owes(d)) => T \subseteq S)
  BY DEF Owing
<1>4. Owes(d) /\ ~Owes(d)' => d \in S /\ T = S \ {d}
  BY DEF Owing
<1> HIDE DEF S, T
<1>5. /\ IsFiniteSet(S \cup {d}) /\ Cardinality(S \cup {d}) <= Cardinality(S) + 1
      /\ Cardinality(S \cup {d}) \in Nat
  <2>1. /\ IsFiniteSet(S \cup {d})
        /\ Cardinality(S \cup {d}) = IF d \in S THEN Cardinality(S) ELSE Cardinality(S) + 1
    BY <1>1, FS_AddElement
  <2> QED
    BY <1>1, <2>1
<1>6. IsFiniteSet(T) /\ Cardinality(T) <= Cardinality(S \cup {d}) /\ Cardinality(T) \in Nat
  BY <1>3, <1>5, FS_Subset, FS_CardinalityType
<1>7. T \subseteq S => Cardinality(T) <= Cardinality(S)
  BY <1>1, FS_Subset
<1>8. d \in S => Cardinality(S \ {d}) = Cardinality(S) - 1
  BY <1>1, FS_RemoveElement
<1>9. Cardinality(T) <= Cardinality(S) + 1
  BY <1>1, <1>5, <1>6
<1> QED
  BY <1>2, <1>3, <1>4, <1>7, <1>8, <1>9 DEF S

\* The four kinds of steps: nothing spent, an event spent, an owed push, and a push
\* whose answer is lost.
OneMore(e, e2, f, f2) == \/ e2 = e + 1 /\ f2 = f
                         \/ e2 = e /\ f2 = f + 1
Event       == OneMore(edits, edits', faults, faults')
Quiet(d)    == blob'.ver = blob.ver /\ (Owes(d)' => Owes(d)) /\ UNCHANGED <<edits, faults>>
Spent(d)    == blob'.ver = blob.ver /\ Event
Pushed(d)   == blob'.ver = blob.ver + 1 /\ Owes(d) /\ ~Owes(d)' /\ UNCHANGED <<edits, faults>>
LostPush(d) == blob'.ver = blob.ver + 1 /\ (Owes(d)' => Owes(d)) /\ Event

LEMMA EarnStep ==
    ASSUME TypeOK, TypeOK', EarnInv, NEW d \in Device, Step(d),
           Quiet(d) \/ Spent(d) \/ Pushed(d) \/ LostPush(d),
           blob'.old => blob.old, EarnFits(d)'
    PROVE  EarnInv'
<1>1. /\ blob.ver \in Nat /\ blob'.ver \in Nat /\ blob.ver <= blob'.ver
      /\ edits \in Nat /\ faults \in Nat /\ edits' \in Nat /\ faults' \in Nat
  <2>1. blob.ver \in Nat /\ blob'.ver \in Nat
    BY DEF TypeOK, Bundle
  <2>2. blob'.ver = blob.ver \/ blob'.ver = blob.ver + 1
    BY DEF Quiet, Spent, Pushed, LostPush
  <2>3. edits \in Nat /\ faults \in Nat /\ edits' \in Nat /\ faults' \in Nat
    BY RoamingAssumption DEF TypeOK
  <2> QED
    BY <2>1, <2>2, <2>3
<1>2. ASSUME NEW e \in Device, e # d PROVE EarnFits(e)' /\ (Owes(e)' <=> Owes(e))
  <2>1. Unmoved(e) /\ EarnFits(e)
    BY <1>2, OnlyActorMoves DEF EarnInv
  <2>2. RoamingDigest(e)' = RoamingDigest(e)
    BY <2>1 DEF Unmoved, RoamingDigest
  <2>3. Owes(e)' <=> Owes(e)
    BY <2>1, <2>2 DEF Unmoved, Owes
  <2>4. pos[e].ver \in Nat /\ st[e].ver \in Nat /\ hand[e].ver \in Nat
    BY <1>2 DEF TypeOK, Position, Bundle
  <2>5. EarnFits(e)'
    BY <1>1, <2>1, <2>2, <2>4 DEF Unmoved, EarnFits
  <2> QED
    BY <2>3, <2>5
<1>3. \A e \in Device \ {d} : Owes(e)' <=> Owes(e)
  BY <1>2
<1>4. Cardinality(Owing) \in Nat /\ Cardinality(Device) \in Nat
  BY OwingFinite
<1>5. Cardinality(Owing') \in Nat
  <2>1. Owing' \in SUBSET Device /\ IsFiniteSet(Device)
    BY RoamingAssumption DEF Owing
  <2> QED
    BY <2>1, FS_Subset, FS_CardinalityType
<1>6. /\ Cardinality(Owing') <= Cardinality(Owing) + 1
      /\ (Owes(d)' => Owes(d)) => Cardinality(Owing') <= Cardinality(Owing)
      /\ Owes(d) /\ ~Owes(d)' => Cardinality(Owing') = Cardinality(Owing) - 1
  BY <1>3, OwingStep
<1>7. blob.ver + Cardinality(Owing) <= 1 + Cardinality(Device) + edits + faults
  BY DEF EarnInv
<1>8. blob'.ver + Cardinality(Owing') <= 1 + Cardinality(Device) + edits' + faults'
  <2> DEFINE n == Cardinality(Owing)
             m == Cardinality(Owing')
  <2>1. \/ blob'.ver = blob.ver /\ m <= n /\ edits' = edits /\ faults' = faults
        \/ blob'.ver = blob.ver /\ OneMore(edits, edits', faults, faults')
        \/ blob'.ver = blob.ver + 1 /\ m = n - 1 /\ edits' = edits /\ faults' = faults
        \/ blob'.ver = blob.ver + 1 /\ m <= n /\ OneMore(edits, edits', faults, faults')
    BY <1>6 DEF Quiet, Spent, Pushed, LostPush, Event
  <2> HIDE DEF n, m
  <2>2. n \in Nat /\ m \in Nat /\ m <= n + 1 /\ blob.ver + n <= 1 + Cardinality(Device) + edits + faults
    BY <1>4, <1>5, <1>6, <1>7 DEF n, m
  <2>3. blob'.ver + m <= 1 + Cardinality(Device) + edits' + faults'
    <3>1. PICK e \in Nat, f \in Nat, v \in Nat : e = edits' /\ f = faults' /\ v = blob'.ver
      BY <1>1
    <3>2. \/ v = blob.ver /\ m <= n /\ e = edits /\ f = faults
          \/ v = blob.ver /\ OneMore(edits, e, faults, f)
          \/ v = blob.ver + 1 /\ m = n - 1 /\ e = edits /\ f = faults
          \/ v = blob.ver + 1 /\ m <= n /\ OneMore(edits, e, faults, f)
      BY <2>1, <3>1
    <3>3. v + m <= 1 + Cardinality(Device) + e + f
      <4> DEFINE c == Cardinality(Device)
                 o == blob.ver
      <4>1. c \in Nat /\ o \in Nat /\ edits \in Nat /\ faults \in Nat /\ o + n <= 1 + c + edits + faults
        BY <1>1, <1>4, <2>2
      <4>2. \/ v = o /\ m <= n /\ e = edits /\ f = faults
            \/ v = o /\ OneMore(edits, e, faults, f)
            \/ v = o + 1 /\ m = n - 1 /\ e = edits /\ f = faults
            \/ v = o + 1 /\ m <= n /\ OneMore(edits, e, faults, f)
        BY <3>2
      <4> HIDE DEF c, o
      <4>3. v + m <= 1 + c + e + f
        BY <2>2, <4>1, <4>2 DEF OneMore
      <4> QED
        BY <4>3 DEF c
    <3> QED
      BY <3>1, <3>3, Zenon
  <2> QED
    BY <2>3 DEF m
<1> QED
  BY <1>2, <1>8 DEF EarnInv

\* One case per action: what it does to the device's debt and to the budget.
LEMMA EarnNext == TypeOK /\ EarnInv /\ [Next]_vars => EarnInv'
<1> SUFFICES ASSUME TypeOK, EarnInv, [Next]_vars PROVE EarnInv'
  OBVIOUS
<1> USE DEF Goto, deviceVars, runVars, counters
<1>1. CASE UNCHANGED vars
  <2>1. \A d \in Device : RoamingDigest(d)' = RoamingDigest(d)
    BY <1>1 DEF vars, RoamingDigest
  <2>2. Owing' = Owing
    BY <1>1, <2>1 DEF vars, Owing, Owes
  <2>3. \A d \in Device : EarnFits(d)'
    BY <1>1, <2>1 DEF vars, EarnInv, EarnFits
  <2> QED
    BY <1>1, <2>2, <2>3 DEF vars, EarnInv
<1>2. ASSUME NEW d \in Device, Step(d) PROVE EarnInv'
  <2>1. EarnFits(d)
    BY DEF EarnInv
  <2>2. /\ pc \in [Device -> Label] /\ pos \in [Device -> Position] /\ st \in [Device -> Position]
        /\ hand \in [Device -> Bundle] /\ remote \in [Device -> Nat]
        /\ changed \in [Device -> BOOLEAN] /\ digest \in [Device -> Ring]
        /\ index \in [Device -> Ring] /\ keys \in [Device -> Ring]
        /\ blob \in Bundle /\ blob.ver \in Nat
    BY DEF TypeOK, Bundle
  <2>3. TypeOK'
    BY <1>2, TypeNext DEF Next, Step
  <2>4. pos[d].ver \in Nat /\ st[d].ver \in Nat /\ hand[d].ver \in Nat /\ changed[d] \in BOOLEAN
    BY <2>2 DEF Position, Bundle
  <2> DEFINE D == RoamingDigest(d)
  <2>5. ASSUME keys' = keys, index' = index PROVE RoamingDigest(d)' = D
    BY <2>5 DEF RoamingDigest
  <2>6. ASSUME blob' = blob, EarnFits(d)', (Owes(d)' => Owes(d)), UNCHANGED <<edits, faults>>
        PROVE  EarnInv'
    BY <1>2, <2>3, <2>6, EarnStep DEF Quiet
  <2>7. ASSUME blob' = blob, EarnFits(d)', Event PROVE EarnInv'
    BY <1>2, <2>3, <2>7, EarnStep DEF Spent
  <2>8. CASE \E approval \in {NoChange, offer[d]} : Begin(d, approval)
    <3>1. /\ UNCHANGED <<blob, keys, index, pos, edits, faults>> /\ pc[d] = "idle" /\ pc'[d] = "gate"
          /\ st'[d] = pos[d] /\ remote'[d] = blob.ver
      BY <2>2, <2>8 DEF Begin
    <3>2. RoamingDigest(d)' = D
      BY <2>5, <3>1
    <3>3. EarnFits(d)'
      BY <2>1, <2>4, <3>1, <3>2 DEF EarnFits, Reads
    <3>4. Owes(d)' => Owes(d)
      BY <3>1, <3>2 DEF Owes
    <3> QED
      BY <2>6, <3>1, <3>3, <3>4
  <2>9. CASE \/ GateBlocks(d) \/ GatePasses(d) \/ KeepDefault(d) \/ AdoptDefault(d) \/ OfferDefault(d)
             \/ EstablishEncKey(d)
    <3>1. /\ UNCHANGED <<blob, keys, index, pos, st, remote, edits, faults>>
          /\ pc[d] \in {"gate", "adopt", "establish"} /\ pc'[d] \in {"positions", "sync"}
          /\ pc'[d] = "sync" => pc[d] \in Reads
      BY <2>2, <2>9 DEF GateBlocks, GatePasses, KeepDefault, AdoptDefault, OfferDefault,
                        EstablishEncKey, Reads
    <3>2. RoamingDigest(d)' = D
      BY <2>5, <3>1
    <3>3. EarnFits(d)'
      BY <2>1, <3>1, <3>2 DEF EarnFits, Reads
    <3>4. Owes(d)' => Owes(d)
      BY <3>1, <3>2 DEF Owes
    <3> QED
      BY <2>6, <3>1, <3>3, <3>4
  <2>10. CASE SyncIdentities(d)
    <3>1. /\ UNCHANGED <<blob, keys, index, pos, st, remote, hand, edits, faults>>
          /\ pc[d] = "sync" /\ pc'[d] = SyncDecision(d)
          /\ changed'[d] = LocalChanged(d) /\ digest'[d] = D
      BY <2>2, <2>10 DEF SyncIdentities
    <3>2. RoamingDigest(d)' = D
      BY <2>5, <3>1
    <3>3. changed'[d] = TRUE <=> st[d].digest # {D}
      BY <3>1 DEF LocalChanged
    <3>4. remote[d] = 0 => st[d].ver = 0
      BY <2>1, <3>1 DEF EarnFits, Reads
    <3>5. /\ pc'[d] \in {"adopt", "push", "pull"}
          /\ pc'[d] = "push" => st[d].digest # {D}
          /\ pc'[d] = "pull" => remote[d] # 0
      BY <3>1, <3>4 DEF SyncDecision, RemoteMoved, LocalChanged
    <3>6. EarnFits(d)'
      BY <2>1, <3>1, <3>2, <3>3, <3>4, <3>5 DEF EarnFits, Reads
    <3>7. Owes(d)' => Owes(d)
      BY <3>1, <3>2, <3>3, <3>5 DEF Owes
    <3> QED
      BY <2>6, <3>1, <3>6, <3>7
  <2>11. CASE PullIdentities(d)
    <3>1. /\ UNCHANGED <<blob, keys, index, pos, remote, edits, faults>>
          /\ pc[d] = "pull" /\ hand'[d] = blob
      BY <2>2, <2>11 DEF PullIdentities
    <3>2. RoamingDigest(d)' = D
      BY <2>5, <3>1
    <3>3. remote[d] # 0 /\ (changed[d] = TRUE <=> st[d].digest # {D})
      BY <2>1, <3>1 DEF EarnFits, Reads
    <3>4. CASE blob.old
      <4>1. pc'[d] = "redigest" /\ changed'[d] = TRUE /\ st' = [st EXCEPT ![d].ver = blob.ver]
        BY <2>2, <2>11, <3>4 DEF PullIdentities
      <4>2. st'[d].ver = blob.ver /\ st'[d].digest = st[d].digest /\ st[d].digest = {}
        BY <2>1, <2>2, <3>4, <4>1 DEF Position, EarnFits
      <4>3. EarnFits(d)'
        BY <2>1, <2>2, <3>1, <3>3, <4>1, <4>2 DEF EarnFits, Reads
      <4>4. Owes(d)
        BY <3>1, <4>2 DEF Owes
      <4> QED
        BY <2>6, <3>1, <4>3, <4>4
    <3>5. CASE ~blob.old
      <4>1. pc'[d] = "import" /\ changed' = changed /\ st' = st
        BY <2>2, <2>11, <3>5 DEF PullIdentities
      <4>2. EarnFits(d)'
        BY <2>1, <2>2, <3>1, <3>3, <3>5, <4>1 DEF EarnFits, Reads
      <4>3. Owes(d)' => Owes(d)
        BY <3>1, <3>3, <4>1 DEF Owes
      <4> QED
        BY <2>6, <3>1, <4>2, <4>3
    <3> QED
      BY <3>4, <3>5
  <2>12. CASE \E n \in Name : ImportOne(d, n)
    <3>1. /\ UNCHANGED <<blob, pos, st, remote, changed, pc, hand, edits, faults>>
          /\ pc[d] = "import"
      BY <2>12 DEF ImportOne
    <3>2. EarnFits(d)'
      BY <2>1, <3>1 DEF EarnFits, Reads
    <3>3. Owes(d)' => Owes(d)
      BY <3>1 DEF Owes
    <3> QED
      BY <2>6, <3>1, <3>2, <3>3
  <2>13. CASE SaveIndex(d)
    <3>1. /\ UNCHANGED <<blob, pos, remote, changed, edits, faults>>
          /\ pc[d] = "import" /\ pc'[d] = "redigest"
          /\ st' = [st EXCEPT ![d].ver = hand[d].ver]
      BY <2>2, <2>13 DEF SaveIndex
    <3>2. st'[d].ver = hand[d].ver /\ st'[d].digest = st[d].digest
      BY <2>2, <3>1 DEF Position
    <3>3. EarnFits(d)'
      BY <2>1, <3>1, <3>2 DEF EarnFits, Reads
    <3>4. Owes(d)' => Owes(d)
      BY <3>1 DEF Owes
    <3> QED
      BY <2>6, <3>1, <3>3, <3>4
  <2>14. CASE Redigest(d)
    <3>1. /\ UNCHANGED <<blob, keys, index, pos, remote, changed, hand, edits, faults>>
          /\ pc[d] = "redigest" /\ digest'[d] = D
      BY <2>2, <2>14 DEF Redigest
    <3>2. RoamingDigest(d)' = D
      BY <2>5, <3>1
    <3>3. CASE changed[d]
      <4>1. pc'[d] = "push" /\ st' = st
        BY <2>2, <2>14, <3>3 DEF Redigest
      <4>2. EarnFits(d)'
        BY <2>1, <2>4, <3>1, <3>2, <3>3, <4>1 DEF EarnFits, Reads
      <4>3. Owes(d)
        BY <2>4, <3>1, <3>3 DEF Owes
      <4> QED
        BY <2>6, <3>1, <4>2, <4>3
    <3>4. CASE ~changed[d]
      <4>1. pc'[d] = "adopt" /\ st' = [st EXCEPT ![d].digest = {D}]
        BY <2>2, <2>14, <3>4 DEF Redigest
      <4>2. st'[d].ver = st[d].ver /\ st'[d].digest = {D}
        BY <2>2, <4>1 DEF Position
      <4>3. ~blob.old
        BY <2>1, <3>1, <3>4 DEF EarnFits
      <4>4. EarnFits(d)'
        BY <2>1, <3>1, <4>1, <4>2, <4>3 DEF EarnFits, Reads
      <4>5. ~Owes(d)'
        BY <3>2, <4>1, <4>2 DEF Owes
      <4> QED
        BY <2>6, <3>1, <4>4, <4>5
    <3> QED
      BY <3>3, <3>4
  <2>15. CASE PushIdentities(d)
    <3>1. /\ UNCHANGED <<keys, index, pos, remote, digest, changed, edits, faults>>
          /\ pc[d] = "push" /\ hand'[d] = [ExportIdentities(d) EXCEPT !.ver = blob.ver]
      BY <2>2, <2>15 DEF PushIdentities
    <3>2. RoamingDigest(d)' = D /\ changed[d] = TRUE /\ digest[d] = D /\ Owes(d)
      BY <2>1, <2>5, <3>1 DEF EarnFits, Owes
    <3>3. CASE blob.ver = 0
      <4>1. /\ Store(ExportIdentities(d)) /\ pc'[d] = "adopt"
            /\ st'[d] = [ver |-> 1, digest |-> {digest[d]}]
        BY <2>2, <2>15, <3>3 DEF PushIdentities
      <4>2. blob'.ver = blob.ver + 1 /\ ~blob'.old
        BY <4>1 DEF Store, ExportIdentities
      <4>3. st'[d].ver = blob'.ver /\ st'[d].digest = {D}
        BY <3>2, <3>3, <4>1, <4>2
      <4>4. EarnFits(d)'
        BY <2>1, <2>2, <2>4, <3>1, <3>3, <4>1, <4>2, <4>3 DEF EarnFits, Reads
      <4>5. ~Owes(d)'
        BY <3>2, <4>1, <4>3 DEF Owes
      <4> QED
        BY <1>2, <2>3, <3>1, <3>2, <4>2, <4>4, <4>5, EarnStep DEF Pushed
    <3>4. CASE blob.ver # 0
      <4>1. blob' = blob /\ st' = st /\ pc'[d] = "replace"
        BY <2>2, <2>15, <3>4 DEF PushIdentities
      <4>2. ~hand'[d].old
        BY <3>1 DEF ExportIdentities
      <4>3. EarnFits(d)'
        BY <2>1, <3>1, <3>2, <4>1, <4>2 DEF EarnFits, Reads
      <4> QED
        BY <2>6, <3>1, <3>2, <4>1, <4>3
    <3> QED
      BY <3>3, <3>4
  <2>16. CASE ReplaceBlob(d)
    <3>1. /\ UNCHANGED <<keys, index, pos, edits, faults>> /\ pc[d] = "replace"
      BY <2>16 DEF ReplaceBlob
    <3>2. RoamingDigest(d)' = D /\ digest[d] = D /\ Owes(d) /\ ~hand[d].old
      BY <2>1, <2>5, <3>1 DEF EarnFits, Owes
    <3>3. CASE hand[d].ver = blob.ver
      <4>1. /\ Store(hand[d]) /\ pc'[d] = "adopt"
            /\ st'[d] = [ver |-> blob.ver + 1, digest |-> {digest[d]}]
        BY <2>2, <2>16, <3>3 DEF ReplaceBlob
      <4>2. blob'.ver = blob.ver + 1 /\ ~blob'.old
        BY <2>2, <3>2, <4>1 DEF Store, Bundle
      <4>3. st'[d].ver = blob'.ver /\ st'[d].digest = {D}
        BY <3>2, <4>1, <4>2
      <4>4. EarnFits(d)'
        BY <2>1, <2>2, <2>4, <3>1, <4>1, <4>2, <4>3 DEF EarnFits, Reads
      <4>5. ~Owes(d)'
        BY <3>2, <4>1, <4>3 DEF Owes
      <4> QED
        BY <1>2, <2>3, <3>1, <3>2, <4>2, <4>4, <4>5, EarnStep DEF Pushed
    <3>4. CASE hand[d].ver # blob.ver
      <4>1. blob' = blob /\ st' = st /\ pc'[d] = "positions"
        BY <2>2, <2>16, <3>4 DEF ReplaceBlob
      <4>2. EarnFits(d)'
        BY <2>1, <3>1, <4>1 DEF EarnFits, Reads
      <4> QED
        BY <2>6, <3>1, <3>2, <4>1, <4>2
    <3> QED
      BY <3>3, <3>4
  <2>17. CASE KeyMissing(d)
    <3>1. /\ UNCHANGED <<blob, keys, index, pos, st, remote, edits, faults>>
          /\ pc[d] \in {"pull", "push"} /\ pc'[d] \in {"positions", "establish"}
      BY <2>2, <2>17 DEF KeyMissing
    <3>2. RoamingDigest(d)' = D
      BY <2>5, <3>1
    <3>3. EarnFits(d)'
      BY <2>1, <3>1, <3>2 DEF EarnFits, Reads
    <3>4. Owes(d)' => Owes(d)
      BY <2>1, <3>1, <3>2 DEF Owes, EarnFits
    <3> QED
      BY <2>6, <3>1, <3>3, <3>4
  <2>18. CASE SavePositions(d)
    <3>1. /\ UNCHANGED <<blob, keys, index, edits, faults>> /\ pc[d] = "positions"
          /\ pc'[d] = "idle" /\ pos'[d] = st[d] /\ st'[d] = NoPos
      BY <2>2, <2>18 DEF SavePositions, ForgetRun
    <3>2. RoamingDigest(d)' = D
      BY <2>5, <3>1
    <3>3. EarnFits(d)'
      BY <2>1, <2>2, <3>1 DEF EarnFits, Reads, NoPos
    <3>4. Owes(d)' => Owes(d)
      BY <3>1, <3>2 DEF Owes
    <3> QED
      BY <2>6, <3>1, <3>3, <3>4
  <2>19. CASE UserStep(d)
    <3>1. /\ UNCHANGED <<blob, pos, st, remote, pc>> /\ pc[d] = "idle"
          /\ edits' = edits + 1 /\ faults' = faults
      BY <2>19 DEF UserStep, NewKeys, ConfigSet, SetDefault, HandoffAndDelete, Edit
    <3>2. EarnFits(d)'
      BY <2>1, <3>1 DEF EarnFits, Reads
    <3> QED
      BY <2>7, <3>1, <3>2 DEF Event, OneMore
  <2>20. CASE \/ \E label \in {"positions", "establish"} : CallFails(d, label)
              \/ PeekFails(d)
    <3>1. /\ UNCHANGED <<blob, keys, index, pos, st, remote>>
          /\ pc'[d] \in {"positions", "establish", "sync"}
          /\ pc'[d] # "positions" => pc[d] \in Reads
          /\ edits' = edits /\ faults' = faults + 1
      BY <2>2, <2>20 DEF CallFails, PeekFails, Fault, Reads
    <3>2. RoamingDigest(d)' = D
      BY <2>5, <3>1
    <3>3. EarnFits(d)'
      BY <2>1, <3>1, <3>2 DEF EarnFits, Reads
    <3> QED
      BY <2>7, <3>1, <3>3 DEF Event, OneMore
  <2>21. CASE PushAnswerLost(d)
    <3>1. /\ UNCHANGED <<pos, st>> /\ pc[d] = "replace" /\ pc'[d] = "positions"
          /\ Store(hand[d]) /\ edits' = edits /\ faults' = faults + 1
      BY <2>2, <2>21 DEF PushAnswerLost, Fault
    <3>2. Owes(d) /\ ~hand[d].old
      BY <2>1, <3>1 DEF EarnFits, Owes
    <3>3. blob'.ver = blob.ver + 1 /\ ~blob'.old
      BY <2>2, <3>1, <3>2 DEF Store, Bundle
    <3>4. EarnFits(d)'
      BY <2>1, <2>2, <2>4, <3>1, <3>3 DEF EarnFits, Reads
    <3> QED
      BY <1>2, <2>3, <3>1, <3>2, <3>3, <3>4, EarnStep DEF LostPush, Event, OneMore
  <2>22. CASE Crash(d) \/ LogOut(d)
    <3>1. /\ blob' = blob /\ pc'[d] = "idle" /\ pos'[d] \in {pos[d], NoPos} /\ st'[d] \in {st[d], NoPos}
          /\ edits' = edits /\ faults' = faults + 1
      BY <2>2, <2>22 DEF Crash, LogOut, ForgetRun, Fault
    <3>2. EarnFits(d)'
      BY <2>1, <2>2, <3>1 DEF EarnFits, Reads, NoPos
    <3> QED
      BY <2>7, <3>1, <3>2 DEF Event, OneMore
  <2>23. CASE LoseKey(d)
    <3>1. /\ UNCHANGED <<blob, keys, index, pos, st, remote, pc, changed, digest, hand>>
          /\ edits' = edits /\ faults' = faults + 1
      BY <2>23 DEF LoseKey, Fault
    <3>2. RoamingDigest(d)' = D
      BY <2>5, <3>1
    <3>3. EarnFits(d)'
      BY <2>1, <3>1, <3>2 DEF EarnFits
    <3> QED
      BY <2>7, <3>1, <3>3 DEF Event, OneMore
  <2> QED
    BY <1>2, <2>8, <2>9, <2>10, <2>11, <2>12, <2>13, <2>14, <2>15, <2>16, <2>17, <2>18, <2>19,
       <2>20, <2>21, <2>22, <2>23
    DEF Step, RunStep, FaultStep
<1> QED
  BY <1>1, <1>2 DEF Next, Step

\* Devices do not ring each other's doorbell, whether runs overlap, imports are cut
\* short or calls fail: SyncIdentities pushes once for every change, failure and
\* first pass, and a pull alone is never answered by a push.
THEOREM PushesEarned == Spec => []PushesAreEarned
<1>1. TypeOK /\ EarnInv => PushesAreEarned
  <2> SUFFICES ASSUME TypeOK, EarnInv PROVE PushesAreEarned
    OBVIOUS
  <2>1. /\ blob.ver \in Nat /\ Cardinality(Owing) \in Nat
        /\ blob.ver + Cardinality(Owing) <= 1 + Cardinality(Device) + edits + faults
        /\ Cardinality(Device) \in Nat /\ edits \in Nat /\ faults \in Nat
    BY OwingFinite, RoamingAssumption DEF EarnInv, TypeOK, Bundle
  <2> QED
    BY <2>1 DEF PushesAreEarned
<1> QED
  BY <1>1, TypeInit, TypeNext, EarnInit, EarnNext, PTL DEF Spec

=============================================================================
