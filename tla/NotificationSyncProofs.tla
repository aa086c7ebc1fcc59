----------------------- MODULE NotificationSyncProofs -----------------------
(* Proofs about NotificationSync, for every set of devices and ids and every*)
(* cap: types, that a dismissed row stays away while no cap is reached, that*)
(* flags and the Handled marks are only ever set.                           *)
EXTENDS NotificationSync, FiniteSetTheorems, TLAPS

(* A drawer speaks of ids that were used, and never lists a row it has      *)
(* buried.                                                                  *)
Known(v, U) == v.items \subseteq U /\ v.tomb \subseteq U

Apart(v) == v.items \cap v.tomb = {}

KnownOK ==
    /\ inbox \subseteq used /\ pending \subseteq used
    /\ blob # NoBlob => Known(blob, used)
    /\ \A d \in Device : Known(drawer[d], used) /\ Known(base[d], used) /\ Known(mine[d], used)

(* The tombstones of what was dismissed outside a sync are in the drawer and*)
(* in whatever a running sync will put in its place.                        *)
Buried ==
    \A d \in Device :
        /\ Apart(drawer[d]) /\ gone[d] \subseteq drawer[d].tomb
        /\ pc[d] = "exchange" => Apart(base[d]) /\ gone[d] \subseteq base[d].tomb
        /\ pc[d] = "apply" => Apart(mine[d]) /\ gone[d] \subseteq mine[d].tomb

(* A merged row has the flags of the row that went into the merge.          *)
FlagsMerged ==
    \A d \in Device :
        pc[d] = "apply" => /\ base[d].seen \cap mine[d].items \subseteq mine[d].seen
                           /\ base[d].retired \cap mine[d].items \subseteq mine[d].retired

IInv == TypeOK /\ KnownOK /\ (NothingCut => Buried) /\ FlagsMerged

-----------------------------------------------------------------------------
(* The operators on drawers.                                                *)

LEMMA IdNat == Id \subseteq Nat /\ IsFiniteSet(Id)
  BY DrawerAssumption, FS_Interval

\* The fields of a drawer.
LEMMA DrawerFields ==
    ASSUME NEW v \in Drawer
    PROVE  /\ v.items \subseteq Id /\ v.at \in [Id -> Nat] /\ v.seen \subseteq Id
           /\ v.retired \subseteq Id /\ v.tomb \subseteq Id /\ v.place \in [Id -> Nat]
  BY DEF Drawer

\* save keeps a drawer a drawer, adds nothing and keeps the flags of the rows it
\* keeps.
LEMMA SavedOK ==
    ASSUME NEW v \in Drawer
    PROVE  /\ Saved(v) \in Drawer
           /\ Saved(v).items \subseteq v.items
           /\ Saved(v).tomb \subseteq v.tomb
           /\ Saved(v).seen = v.seen \cap Saved(v).items
           /\ Saved(v).retired = v.retired \cap Saved(v).items
  <1> DEFINE K == Last(v.items, v.at, maxNotifications)
             T == Last(v.tomb, v.place, maxDismissed)
  <1>1. K \subseteq v.items /\ T \subseteq v.tomb
    BY DEF Last
  <1>2. /\ v.items \subseteq Id /\ v.at \in [Id -> Nat] /\ v.seen \subseteq Id
        /\ v.retired \subseteq Id /\ v.tomb \subseteq Id /\ v.place \in [Id -> Nat]
    BY DrawerFields
  <1>3. On(v.at, K) \in [Id -> Nat] /\ On(v.place, T) \in [Id -> Nat]
    BY <1>2 DEF On
  <1>4. Saved(v) = [items |-> K, at |-> On(v.at, K), seen |-> v.seen \cap K,
                    retired |-> v.retired \cap K, tomb |-> T, place |-> On(v.place, T)]
    BY DEF Saved
  <1> HIDE DEF K, T
  <1> QED
    BY <1>1, <1>2, <1>3, <1>4 DEF Drawer

\* A list below its cap is not cut.
LEMMA LastAll ==
    ASSUME NEW S, NEW key, NEW n \in Nat, IsFiniteSet(S), Cardinality(S) <= n,
           S \subseteq Id, key \in [Id -> Nat]
    PROVE  Last(S, key, n) = S
  <1> SUFFICES ASSUME NEW i \in S
               PROVE  Cardinality({j \in S : key[j] > key[i]}) < n
    BY DEF Last
  <1> DEFINE A == {j \in S : key[j] > key[i]}
  <1>1. A \subseteq S /\ i \notin A
    BY IdNat
  <1>2. IsFiniteSet(A) /\ Cardinality(A) <= Cardinality(S) /\ A # S
    BY <1>1, FS_Subset
  <1>3. Cardinality(A) # Cardinality(S)
    BY <1>1, <1>2, FS_Subset
  <1>4. Cardinality(A) \in Nat /\ Cardinality(S) \in Nat
    BY <1>2, FS_CardinalityType
  <1> QED
    BY <1>2, <1>3, <1>4

\* Below the caps, save keeps every row and every tombstone.
LEMMA SavedWhole ==
    ASSUME NEW v \in Drawer, NEW U \in SUBSET Id, Known(v, U),
           Cardinality(U) <= maxNotifications, Cardinality(U) <= maxDismissed
    PROVE  Saved(v).items = v.items /\ Saved(v).tomb = v.tomb
  <1>1. IsFiniteSet(U)
    BY IdNat, FS_Subset
  <1>2. /\ IsFiniteSet(v.items) /\ Cardinality(v.items) <= Cardinality(U)
        /\ IsFiniteSet(v.tomb) /\ Cardinality(v.tomb) <= Cardinality(U)
    BY <1>1, FS_Subset DEF Known
  <1>3. /\ Cardinality(v.items) \in Nat /\ Cardinality(v.tomb) \in Nat
        /\ Cardinality(U) \in Nat /\ maxNotifications \in Nat /\ maxDismissed \in Nat
    BY <1>1, <1>2, FS_CardinalityType, DrawerAssumption
  <1>4. Cardinality(v.items) <= maxNotifications /\ Cardinality(v.tomb) <= maxDismissed
    BY <1>2, <1>3
  <1>5. v.items \subseteq Id /\ v.at \in [Id -> Nat] /\ v.tomb \subseteq Id /\ v.place \in [Id -> Nat]
    BY DrawerFields
  <1>6. Last(v.items, v.at, maxNotifications) = v.items
    BY <1>2, <1>3, <1>4, <1>5, LastAll
  <1>7. Last(v.tomb, v.place, maxDismissed) = v.tomb
    BY <1>2, <1>3, <1>4, <1>5, LastAll
  <1> QED
    BY <1>6, <1>7 DEF Saved

\* What two drawers are merged into before the caps are applied.
Union(a, b) ==
    [items |-> (a.items \cup b.items) \ (a.tomb \cup b.tomb),
     at |-> [i \in Id |-> Earlier(a.at[i], b.at[i])],
     seen |-> (a.seen \cup b.seen) \cap ((a.items \cup b.items) \ (a.tomb \cup b.tomb)),
     retired |-> (a.retired \cup b.retired) \cap ((a.items \cup b.items) \ (a.tomb \cup b.tomb)),
     tomb |-> a.tomb \cup b.tomb, place |-> [i \in Id |-> i]]

LEMMA UnionType == ASSUME NEW a \in Drawer, NEW b \in Drawer PROVE Union(a, b) \in Drawer
  <1>1. [i \in Id |-> Earlier(a.at[i], b.at[i])] \in [Id -> Nat]
    BY DrawerFields DEF Earlier
  <1>2. [i \in Id |-> i] \in [Id -> Nat]
    BY IdNat
  <1> QED
    BY <1>1, <1>2, DrawerFields DEF Union, Drawer

LEMMA MergeIsUnion == \A a, b : MergeNotifications(a, b) = Saved(Union(a, b))
  BY DEF MergeNotifications, Union

LEMMA EmptyType == EmptyDrawer \in Drawer /\ EmptyDrawer.items = {} /\ EmptyDrawer.tomb = {}
  BY DEF EmptyDrawer, Nowhere, Drawer

-----------------------------------------------------------------------------
LEMMA InitInv == Init => IInv
  <1> SUFFICES ASSUME Init PROVE IInv
    OBVIOUS
  <1>0. EmptyDrawer \in Drawer /\ EmptyDrawer.items = {} /\ EmptyDrawer.tomb = {}
    BY EmptyType
  <1>1. sent \in [Id -> Nat] /\ inbox \in SUBSET Id /\ inbox \subseteq used /\ used \in SUBSET Id
    BY IdNat, DrawerAssumption DEF Init, Id
  <1>2. ASSUME NEW old \in SUBSET Past
        PROVE  /\ Listed(old) \in Drawer
               /\ Listed(old).items \subseteq inbox \ old
               /\ Listed(old).tomb \subseteq old
    <2> DEFINE E == [EmptyDrawer EXCEPT !.tomb = old, !.place = On([i \in Id |-> i], old)]
               I == Insert(E, inbox \ old, sent, {})
    <2>1. old \subseteq Id /\ On([i \in Id |-> i], old) \in [Id -> Nat]
      BY IdNat, DrawerAssumption DEF On
    <2>2. E \in Drawer /\ E.items = {} /\ E.tomb = old
      BY <1>0, <2>1 DEF Drawer
    <2> HIDE DEF E
    <2>3. [i \in Id |-> IF i \in inbox \ old THEN sent[i] ELSE E.at[i]] \in [Id -> Nat]
      BY <1>1, <2>2, DrawerFields
    <2>4. I \in Drawer /\ I.items = inbox \ old /\ I.tomb = old
      BY <1>1, <2>2, <2>3 DEF Insert, Drawer
    <2> HIDE DEF I
    <2>5. Listed(old) = Saved(I)
      BY DEF Listed, I, E
    <2> QED
      BY <2>4, <2>5, SavedOK
  \* Either the devices did not look yet, or they list the inbox.
  <1> DEFINE Fits(v) == v \in Drawer /\ Known(v, used) /\ Apart(v)
  <1>3. /\ drawer \in [Device -> Drawer] /\ \A d \in Device : Fits(drawer[d])
        /\ blob # NoBlob => Fits(blob)
    <2>1. CASE blob = NoBlob /\ drawer = [d \in Device |-> EmptyDrawer]
      BY <1>0, <2>1 DEF Known, Apart
    <2>2. ASSUME NEW old \in SUBSET Past, blob = Listed(old),
                 drawer = [d \in Device |-> Listed(old)],
                 used = inbox \cup pending \cup old
          PROVE  /\ drawer \in [Device -> Drawer] /\ \A d \in Device : Fits(drawer[d])
                 /\ blob # NoBlob => Fits(blob)
      <3> DEFINE L == Listed(old)
      <3>1. Fits(L)
        BY <1>2, <2>2 DEF Known, Apart
      <3> HIDE DEF L
      <3>2. blob = L /\ drawer = [d \in Device |-> L]
        BY <2>2 DEF L
      <3> QED
        BY <3>1, <3>2
    <2> HIDE DEF Fits
    <2> QED
      BY <2>1, <2>2 DEF Init
  <1>4. now \in Nat
    BY DrawerAssumption DEF Init
  <1>5. TypeOK
    <2>1. blob \in Drawer \cup {NoBlob} /\ drawer \in [Device -> Drawer]
      BY <1>3
    <2>2. base \in [Device -> Drawer] /\ mine \in [Device -> Drawer]
      BY <1>0 DEF Init
    <2>3. gone \in [Device -> SUBSET Id]
      BY <1>3, DrawerFields DEF Init
    <2> QED
      BY <2>1, <2>2, <2>3, <1>1, <1>4, DrawerAssumption DEF Init, TypeOK, Label
  <1>6. KnownOK
    BY <1>0, <1>1, <1>3 DEF Init, KnownOK, Known
  <1>7. Buried
    BY <1>0, <1>3 DEF Init, Buried, Apart
  <1>8. FlagsMerged
    BY DEF Init, FlagsMerged
  <1> QED
    BY <1>5, <1>6, <1>7, <1>8 DEF IInv

\* More ids used: caps that are not reached now were not reached before.
LEMMA CutStays ==
    ASSUME used \subseteq used', used' \subseteq Id, NothingCut'
    PROVE  /\ NothingCut
           /\ Cardinality(used') <= maxNotifications /\ Cardinality(used') <= maxDismissed
  <1>1. IsFiniteSet(used')
    BY IdNat, FS_Subset
  <1>2. IsFiniteSet(used) /\ Cardinality(used) <= Cardinality(used')
    BY <1>1, FS_Subset
  <1>3. Cardinality(used) \in Nat /\ Cardinality(used') \in Nat
    BY <1>1, <1>2, FS_CardinalityType
  <1> QED
    BY <1>2, <1>3, DrawerAssumption DEF NothingCut

\* Marks may be added, and those of rows that went are dropped.
Marks(d) ==
    \E X \in SUBSET Id : handled' = [handled EXCEPT ![d] = (@ \cup X) \cap drawer'[d].items]

LEMMA MarksKept ==
    ASSUME IInv, NEW d \in Device, drawer' \in [Device -> Drawer],
           \A e \in Device : e # d => drawer'[e] = drawer[e], Marks(d)
    PROVE  /\ handled' \in [Device -> SUBSET Id]
           /\ \A e \in Device : handled'[e] \subseteq drawer'[e].items
  <1>1. PICK X \in SUBSET Id : handled' = [handled EXCEPT ![d] = (@ \cup X) \cap drawer'[d].items]
    BY DEF Marks
  <1> QED
    BY <1>1 DEF IInv, TypeOK

LEMMA NoMarks ==
    ASSUME NEW d, handled' = [handled EXCEPT ![d] = @ \cap drawer'[d].items]
    PROVE  Marks(d)
  <1>1. {} \in SUBSET Id /\ handled' = [handled EXCEPT ![d] = (@ \cup {}) \cap drawer'[d].items]
    OBVIOUS
  <1> QED
    BY <1>1 DEF Marks

\* What the mutations of the store have in common: v is saved, with every
\* tombstone and no row that is buried; a row dismissed is buried in v.
Stores(d, v) ==
    /\ v \in Drawer /\ save(d, v)
    /\ Known(v, used') /\ drawer[d].tomb \subseteq v.tomb
    /\ drawer[d].seen \cap v.items \subseteq v.seen
    /\ drawer[d].retired \subseteq v.retired
    /\ Apart(drawer[d]) => Apart(v)
    /\ used \subseteq used' /\ used' \subseteq Id
    /\ now' \in Nat /\ edits' \in 0..MaxEdits
    /\ Marks(d)
    /\ gone' \in [Device -> SUBSET Id]
    /\ \A e \in Device : gone'[e] = gone[e] \/ (e = d /\ pc[d] = "idle" /\ gone'[e] \subseteq gone[e] \cup v.tomb)
    /\ UNCHANGED <<server, blob, syncVars, faults>>

LEMMA StoresInv ==
    ASSUME IInv, NEW d \in Device, NEW v, Stores(d, v)
    PROVE  IInv'
  <1> DEFINE w == Saved(v)
  <1>1. /\ w \in Drawer /\ w.items \subseteq v.items /\ w.tomb \subseteq v.tomb
        /\ drawer' = [drawer EXCEPT ![d] = w]
    BY SavedOK DEF Stores, save
  <1> HIDE DEF w
  <1>2. UNCHANGED <<inbox, sent, pending, blob, pc, base, mine, faults>>
    BY DEF Stores, server, syncVars
  <1>3. drawer' \in [Device -> Drawer] /\ drawer'[d] = w /\ \A e \in Device : e # d => drawer'[e] = drawer[e]
    BY <1>1 DEF IInv, TypeOK
  <1>4. TypeOK'
    <2>1. /\ handled' \in [Device -> SUBSET Id]
          /\ \A e \in Device : handled'[e] \subseteq drawer'[e].items
      BY <1>3, MarksKept DEF Stores
    <2> QED
      BY <1>2, <1>3, <2>1 DEF Stores, IInv, TypeOK
  <1>5. KnownOK'
    <2>1. used \subseteq used' /\ Known(v, used')
      BY DEF Stores
    <2>2. Known(w, used')
      BY <1>1, <2>1 DEF Known
    <2> QED
      BY <1>2, <1>3, <2>1, <2>2 DEF IInv, KnownOK, Known
  <1>6. ASSUME NothingCut' PROVE Buried'
    <2>1. NothingCut /\ w.items = v.items /\ w.tomb = v.tomb
      BY <1>6, CutStays, SavedWhole DEF Stores, w
    <2>2. Buried
      BY <2>1 DEF IInv
    <2>3. Apart(w) /\ drawer[d].tomb \subseteq w.tomb
      BY <2>1, <2>2 DEF Stores, Apart, Buried
    <2> SUFFICES ASSUME NEW e \in Device
                 PROVE  /\ Apart(drawer'[e]) /\ gone'[e] \subseteq drawer'[e].tomb
                        /\ pc[e] = "exchange" => Apart(base[e]) /\ gone'[e] \subseteq base[e].tomb
                        /\ pc[e] = "apply" => Apart(mine[e]) /\ gone'[e] \subseteq mine[e].tomb
      BY <1>2 DEF Buried, Apart
    <2>4. CASE e # d
      <3>1. gone'[e] = gone[e]
        BY <2>4 DEF Stores
      <3> QED
        BY <3>1, <2>2, <2>4, <1>3 DEF Buried
    <2>5. CASE e = d
      <3>1. gone'[d] = gone[d] \/ (pc[d] = "idle" /\ gone'[d] \subseteq gone[d] \cup v.tomb)
        BY DEF Stores
      <3> QED
        BY <3>1, <2>1, <2>2, <2>3, <2>5, <1>3 DEF Buried
    <2> QED
      BY <2>4, <2>5
  <1>7. FlagsMerged'
    BY <1>2 DEF IInv, FlagsMerged
  <1> QED
    BY <1>4, <1>5, <1>6, <1>7 DEF IInv

\* save writes one device's drawer.
LEMMA SaveOne ==
    ASSUME IInv, NEW d \in Device, NEW v \in Drawer, save(d, v)
    PROVE  /\ drawer' \in [Device -> Drawer] /\ drawer'[d] = Saved(v)
           /\ \A e \in Device : e # d => drawer'[e] = drawer[e]
  BY SavedOK DEF IInv, TypeOK, save

LEMMA StampType == IInv => [j \in Id |-> Stamp(j)] \in [Id -> Nat] /\ now + MaxId \in Nat
  BY IdNat, DrawerAssumption DEF IInv, TypeOK, Stamp

LEMMA ChangeOK == IInv /\ Change => edits' \in 0..MaxEdits
  BY DrawerAssumption DEF IInv, TypeOK, Change

\* The types used by the mutations below.
LEMMA Facts ==
    ASSUME IInv, NEW d \in Device
    PROVE  /\ drawer[d] \in Drawer /\ Known(drawer[d], used)
           /\ drawer[d].items \subseteq Id /\ drawer[d].tomb \subseteq Id /\ drawer[d].seen \subseteq Id
           /\ drawer[d].retired \subseteq Id /\ drawer[d].place \in [Id -> Nat]
           /\ used \subseteq Id /\ now \in Nat /\ sent \in [Id -> Nat]
           /\ inbox \subseteq used /\ pending \subseteq used
           /\ gone \in [Device -> SUBSET Id]
  BY DrawerFields DEF IInv, TypeOK, KnownOK

LEMMA MarkAllSeenOK ==
    ASSUME IInv, NEW d \in Device, MarkAllSeen(d)
    PROVE  \E v : Stores(d, v)
  <1> DEFINE v == [drawer[d] EXCEPT !.seen = drawer[d].items]
  <1>1. /\ v \in Drawer /\ v.items = drawer[d].items /\ v.tomb = drawer[d].tomb
        /\ v.seen = drawer[d].items /\ v.retired = drawer[d].retired
    BY Facts DEF Drawer
  <1>2. save(d, v) /\ Touches(d) /\ Change
    BY DEF MarkAllSeen
  <1> HIDE DEF v
  <1>3. Marks(d)
    BY <1>2, NoMarks DEF Touches
  <1> QED
    BY <1>1, <1>2, <1>3, Facts, ChangeOK DEF Stores, Touches, Known, Apart

LEMMA MarkHandledOK ==
    ASSUME IInv, NEW d \in Device, NEW i \in Id, MarkHandled(d, i)
    PROVE  \E v : Stores(d, v)
  <1> DEFINE v == [drawer[d] EXCEPT !.seen = @ \cup {i}]
  <1>1. /\ v \in Drawer /\ v.items = drawer[d].items /\ v.tomb = drawer[d].tomb
        /\ v.seen = drawer[d].seen \cup {i} /\ v.retired = drawer[d].retired
    BY Facts DEF Drawer
  <1>2. save(d, v) /\ Change
    BY DEF MarkHandled
  <1> HIDE DEF v
  <1>3. Marks(d)
    <2>1. {i} \in SUBSET Id
      OBVIOUS
    <2> QED
      BY <2>1 DEF MarkHandled, Marks
  <1> QED
    BY <1>1, <1>2, <1>3, Facts, ChangeOK DEF Stores, MarkHandled, Known, Apart

LEMMA DismissOK ==
    ASSUME IInv, NEW d \in Device, NEW i \in Id, Dismiss(d, i)
    PROVE  \E v : Stores(d, v)
  <1> DEFINE P == IF i \in drawer[d].tomb THEN drawer[d].place
                  ELSE [drawer[d].place EXCEPT ![i] = MaxId + Stamp(i)]
             v == [drawer[d] EXCEPT !.items = @ \ {i}, !.tomb = @ \cup {i}, !.place = P]
  <1>1. MaxId + Stamp(i) \in Nat
    BY IdNat, DrawerAssumption, Facts DEF Stamp
  <1>2. P \in [Id -> Nat]
    BY <1>1, Facts
  <1>3. save(d, v)
    BY DEF Dismiss
  <1>4. /\ v \in Drawer /\ v.items = drawer[d].items \ {i} /\ v.tomb = drawer[d].tomb \cup {i}
        /\ v.seen = drawer[d].seen /\ v.retired = drawer[d].retired
    <2> HIDE DEF P
    <2> QED
      BY <1>2, Facts DEF Drawer
  <1> HIDE DEF v
  <1>5. Marks(d)
    BY NoMarks DEF Dismiss
  <1>6. i \in used /\ UNCHANGED <<server, blob, syncVars, used, faults>> /\ Change /\ now' = now + MaxId
    BY DEF Dismiss, Tick
  <1>7. /\ gone' \in [Device -> SUBSET Id]
        /\ \A e \in Device :
               \/ gone'[e] = gone[e]
               \/ e = d /\ pc[d] = "idle" /\ gone'[e] \subseteq gone[e] \cup v.tomb
    BY <1>4, Facts DEF Dismiss
  <1> QED
    BY <1>3, <1>4, <1>5, <1>6, <1>7, Facts, ChangeOK, StampType DEF Stores, Known, Apart

\* The mutations that add rows R to what a drawer v lists, R not being buried.
LEMMA InsertStores ==
    ASSUME IInv, NEW d \in Device, NEW v \in Drawer, NEW R \in SUBSET Id, NEW at \in [Id -> Nat],
           NEW S \in SUBSET Id, save(d, Insert(v, R, at, S)),
           v.items \subseteq drawer[d].items, v.tomb = drawer[d].tomb,
           v.seen = drawer[d].seen, drawer[d].retired \subseteq v.retired,
           R \cap drawer[d].tomb = {}, R \subseteq used', used \subseteq used', used' \subseteq Id,
           now' \in Nat, Change, Marks(d), UNCHANGED <<server, blob, syncVars, gone, faults>>
    PROVE  \E w : Stores(d, w)
  <1> DEFINE w == Insert(v, R, at, S)
  <1>1. [i \in Id |-> IF i \in R THEN at[i] ELSE v.at[i]] \in [Id -> Nat]
    BY DrawerFields
  <1>2. /\ w \in Drawer /\ w.items = v.items \cup R /\ w.tomb = v.tomb /\ save(d, w)
        /\ w.seen = v.seen \cup S /\ w.retired = v.retired
    BY <1>1 DEF Insert, Drawer
  <1> HIDE DEF w
  <1> QED
    BY <1>1, <1>2, Facts, ChangeOK DEF Stores, Known, Apart

LEMMA SeedSelfShareOK ==
    ASSUME IInv, NEW d \in Device, NEW i \in Share, SeedSelfShare(d, i)
    PROVE  \E v : Stores(d, v)
  <1>1. /\ {i} \in SUBSET Id /\ {i} \cap drawer[d].tomb = {} /\ {i} \subseteq used'
        /\ save(d, Insert(drawer[d], {i}, [j \in Id |-> Stamp(j)], {i}))
        /\ Change /\ used' = used
        /\ UNCHANGED <<server, blob, syncVars, gone, faults>>
        /\ now' = now + MaxId
    BY Facts DEF SeedSelfShare, Id, Tick
  <1>2. Marks(d)
    BY NoMarks DEF SeedSelfShare
  <1> QED
    BY <1>1, <1>2, Facts, StampType, InsertStores

LEMMA ReconcileSharesOK ==
    ASSUME IInv, NEW d \in Device, ReconcileShares(d)
    PROVE  \E v : Stores(d, v)
  <1> DEFINE over == {i \in drawer[d].items \cap Share : i \notin inbox \cup drawer[d].retired}
             new  == inbox \ (drawer[d].tomb \cup drawer[d].items)
             v    == [drawer[d] EXCEPT !.retired = @ \cup over]
  <1>1. /\ save(d, Insert(v, new, sent, {})) /\ Touches(d) /\ Change
    BY DEF ReconcileShares
  <1>2. over \subseteq Id /\ new \in SUBSET Id /\ new \cap drawer[d].tomb = {} /\ new \subseteq used
    BY Facts
  <1>3. /\ v \in Drawer /\ v.items = drawer[d].items /\ v.tomb = drawer[d].tomb
        /\ v.seen = drawer[d].seen /\ v.retired = drawer[d].retired \cup over
    <2> HIDE DEF over
    <2> QED
      BY <1>2, Facts DEF Drawer
  <1> HIDE DEF v, new, over
  <1>4. Marks(d) /\ UNCHANGED <<server, blob, syncVars, gone, faults>> /\ used' = used /\ now' = now
    BY <1>1, NoMarks DEF Touches
  <1>5. {} \in SUBSET Id
    OBVIOUS
  <1> QED
    BY <1>1, <1>2, <1>3, <1>4, <1>5, Facts, InsertStores

LEMMA ReconcilePendingOK ==
    ASSUME IInv, NEW d \in Device, ReconcilePending(d)
    PROVE  \E v : Stores(d, v)
  <1> DEFINE over == (drawer[d].items \cap Invite) \ pending
             new  == pending \ (drawer[d].tomb \cup drawer[d].items)
             v    == [drawer[d] EXCEPT !.items = @ \ over]
  <1>1. /\ save(d, Insert(v, new, [j \in Id |-> Stamp(j)], {})) /\ Change
        /\ now' = now + MaxId /\ used' = used
        /\ UNCHANGED <<server, blob, syncVars, gone, faults>>
    BY DEF ReconcilePending, Tick
  <1>2. new \in SUBSET Id /\ new \cap drawer[d].tomb = {} /\ new \subseteq used
    BY Facts
  <1>3. /\ v \in Drawer /\ v.items \subseteq drawer[d].items /\ v.tomb = drawer[d].tomb
        /\ v.seen = drawer[d].seen /\ v.retired = drawer[d].retired
    <2> HIDE DEF over
    <2> QED
      BY <1>2, Facts DEF Drawer
  <1>4. Marks(d)
    BY NoMarks DEF ReconcilePending
  <1> HIDE DEF v, new, over
  <1>5. {} \in SUBSET Id
    OBVIOUS
  <1> QED
    BY <1>1, <1>2, <1>3, <1>4, <1>5, Facts, StampType, InsertStores

LEMMA ApplyDrainReportOK ==
    ASSUME IInv, NEW d \in Device, NEW R \in SUBSET Drain, ApplyDrainReport(d, R)
    PROVE  \E v : Stores(d, v)
  <1>1. /\ R \in SUBSET Id
        /\ save(d, Insert(drawer[d], R, [j \in Id |-> Stamp(j)], {}))
        /\ Change /\ used' = used \cup R /\ R \cap used = {}
        /\ UNCHANGED <<server, blob, syncVars, gone, faults>>
        /\ now' = now + MaxId
    BY DEF ApplyDrainReport, Id, Tick
  <1>2. R \cap drawer[d].tomb = {}
    BY <1>1, Facts DEF Known
  <1>3. Marks(d)
    BY NoMarks DEF ApplyDrainReport
  <1>4. {} \in SUBSET Id /\ R \subseteq used' /\ used \subseteq used' /\ used' \subseteq Id
    BY <1>1, Facts
  <1> QED
    BY <1>1, <1>2, <1>3, <1>4, Facts, StampType, InsertStores

LEMMA StoreStepOK == ASSUME IInv, NEW d \in Device, StoreStep(d) PROVE \E v : Stores(d, v)
  BY MarkAllSeenOK, MarkHandledOK, DismissOK, SeedSelfShareOK, ReconcileSharesOK,
     ReconcilePendingOK, ApplyDrainReportOK DEF StoreStep

LEMMA StoreStepInv == ASSUME IInv, NEW d \in Device, StoreStep(d) PROVE IInv'
  BY StoreStepOK, StoresInv

-----------------------------------------------------------------------------
(* The server's steps and those of Sync.                                    *)

\* A step that leaves drawers and syncs alone preserves the invariant if the
\* inboxes list used ids.
LEMMA ServerStepInv == ASSUME IInv, ServerStep PROVE IInv'
  <1>1. PICK i \in Id : ShareArrives(i) \/ ShareEnds(i) \/ InviteArrives(i) \/ InviteResolved(i)
    BY DEF ServerStep
  <1>2. UNCHANGED <<blob, drawer, handled, pc, base, mine, gone, faults>> /\ Change
    BY <1>1 DEF ShareArrives, ShareEnds, InviteArrives, InviteResolved, syncVars
  <1>3. used \subseteq Id /\ inbox \subseteq used /\ pending \subseteq used /\ now \in Nat
    BY DEF IInv, TypeOK, KnownOK
  <1>4. /\ inbox' \in SUBSET Share /\ pending' \in SUBSET Invite
        /\ used \subseteq used' /\ used' \subseteq Id
        /\ inbox' \subseteq used' /\ pending' \subseteq used'
    BY <1>1, <1>3 DEF ShareArrives, ShareEnds, InviteArrives, InviteResolved, IInv, TypeOK
  <1>5. sent' \in [Id -> Nat] /\ now' \in Nat
    <2>1. Stamp(i) \in Nat /\ now + MaxId \in Nat /\ sent \in [Id -> Nat]
      BY IdNat, DrawerAssumption DEF IInv, TypeOK, Stamp
    <2> QED
      BY <1>1, <1>3, <2>1 DEF ShareArrives, ShareEnds, InviteArrives, InviteResolved, Tick
  <1>6. TypeOK'
    BY <1>2, <1>4, <1>5, ChangeOK DEF IInv, TypeOK
  <1>7. KnownOK'
    BY <1>2, <1>4 DEF IInv, KnownOK, Known
  <1>8. NothingCut' => Buried'
    BY <1>2, <1>4, CutStays DEF IInv, Buried
  <1>9. FlagsMerged'
    BY <1>2 DEF IInv, FlagsMerged
  <1> QED
    BY <1>6, <1>7, <1>8, <1>9 DEF IInv

LEMMA BeginInv == ASSUME IInv, NEW d \in Device, Begin(d) PROVE IInv'
  <1>1. /\ UNCHANGED <<inbox, sent, pending, blob, drawer, handled, mine, now, used, gone, edits, faults>>
        /\ base' = [base EXCEPT ![d] = drawer[d]]
        /\ pc' = [pc EXCEPT ![d] = "exchange"]
    BY DEF Begin, Goto, server
  <1>2. TypeOK'
    BY <1>1 DEF IInv, TypeOK, Label
  <1>3. KnownOK'
    BY <1>1 DEF IInv, TypeOK, KnownOK, Known
  <1>4. ASSUME NothingCut' PROVE Buried'
    <2>1. Buried
      BY <1>1, <1>4 DEF IInv, NothingCut
    <2> QED
      BY <1>1, <2>1 DEF IInv, TypeOK, Buried, Apart
  <1>5. FlagsMerged'
    BY <1>1 DEF IInv, TypeOK, FlagsMerged
  <1> QED
    BY <1>2, <1>3, <1>4, <1>5 DEF IInv

\* What Exchange returns: below the caps, it buries what base does.
LEMMA ExchangeOK ==
    ASSUME IInv, NEW d \in Device, NEW m,
           m = IF blob = NoBlob THEN base[d] ELSE MergeNotifications(base[d], blob)
    PROVE  /\ m \in Drawer /\ Known(m, used)
           /\ NothingCut => /\ base[d].tomb \subseteq m.tomb
                            /\ Apart(base[d]) => Apart(m)
           /\ base[d].seen \cap m.items \subseteq m.seen
           /\ base[d].retired \cap m.items \subseteq m.retired
  <1>1. base[d] \in Drawer /\ Known(base[d], used) /\ used \in SUBSET Id
    BY DEF IInv, TypeOK, KnownOK
  <1>2. CASE blob = NoBlob
    BY <1>1, <1>2
  <1>3. CASE blob # NoBlob
    <2>1. blob \in Drawer /\ Known(blob, used)
      BY <1>3 DEF IInv, TypeOK, KnownOK
    <2> DEFINE u == Union(base[d], blob)
    <2>2. m = Saved(u)
      BY <1>3, MergeIsUnion
    <2>3. u \in Drawer
      BY <1>1, <2>1, UnionType
    <2>4. /\ u.items = (base[d].items \cup blob.items) \ (base[d].tomb \cup blob.tomb)
          /\ u.tomb = base[d].tomb \cup blob.tomb
          /\ u.seen = (base[d].seen \cup blob.seen) \cap u.items
          /\ u.retired = (base[d].retired \cup blob.retired) \cap u.items
      BY DEF Union
    <2> HIDE DEF u
    <2>5. Known(u, used)
      BY <1>1, <2>1, <2>4 DEF Known
    <2>6. /\ m \in Drawer /\ m.items \subseteq u.items /\ m.tomb \subseteq u.tomb
          /\ m.seen = u.seen \cap m.items /\ m.retired = u.retired \cap m.items
      BY <2>2, <2>3, SavedOK
    <2>7. NothingCut => m.items = u.items /\ m.tomb = u.tomb
      BY <1>1, <2>2, <2>3, <2>5, SavedWhole DEF NothingCut
    <2> QED
      BY <2>4, <2>5, <2>6, <2>7 DEF Known, Apart
  <1> QED
    BY <1>2, <1>3

LEMMA ExchangeInv == ASSUME IInv, NEW d \in Device, Exchange(d) PROVE IInv'
  <1> DEFINE m == IF blob = NoBlob THEN base[d] ELSE MergeNotifications(base[d], blob)
  <1>1. /\ pc[d] = "exchange" /\ pc' = [pc EXCEPT ![d] = "apply"]
        /\ blob' = m /\ mine' = [mine EXCEPT ![d] = m]
        /\ UNCHANGED <<inbox, sent, pending, drawer, handled, base, now, used, gone, edits, faults>>
    BY DEF Exchange, Goto, server
  <1>2. /\ m \in Drawer /\ Known(m, used)
        /\ NothingCut => /\ base[d].tomb \subseteq m.tomb
                         /\ Apart(base[d]) => Apart(m)
        /\ base[d].seen \cap m.items \subseteq m.seen
        /\ base[d].retired \cap m.items \subseteq m.retired
    BY ExchangeOK
  <1> HIDE DEF m
  <1>3. mine' \in [Device -> Drawer] /\ mine'[d] = m /\ \A e \in Device : e # d => mine'[e] = mine[e]
    BY <1>1, <1>2 DEF IInv, TypeOK
  <1>4. pc' \in [Device -> Label] /\ pc'[d] = "apply" /\ \A e \in Device : e # d => pc'[e] = pc[e]
    BY <1>1 DEF IInv, TypeOK, Label
  <1>5. TypeOK'
    BY <1>1, <1>2, <1>3, <1>4 DEF IInv, TypeOK
  <1>6. KnownOK'
    BY <1>1, <1>2, <1>3 DEF IInv, KnownOK
  <1>7. ASSUME NothingCut' PROVE Buried'
    <2>1. NothingCut /\ Buried
      BY <1>1, <1>7 DEF IInv, NothingCut
    <2>2. Apart(m) /\ gone[d] \subseteq m.tomb
      BY <1>1, <1>2, <2>1 DEF Buried
    <2> SUFFICES ASSUME NEW e \in Device
                 PROVE  /\ Apart(drawer[e]) /\ gone[e] \subseteq drawer[e].tomb
                        /\ pc'[e] = "exchange" => Apart(base[e]) /\ gone[e] \subseteq base[e].tomb
                        /\ pc'[e] = "apply" => Apart(mine'[e]) /\ gone[e] \subseteq mine'[e].tomb
      BY <1>1 DEF Buried, Apart
    <2>3. CASE e = d
      BY <1>3, <1>4, <2>1, <2>2, <2>3 DEF Buried
    <2>4. CASE e # d
      BY <1>3, <1>4, <2>1, <2>4 DEF Buried
    <2> QED
      BY <2>3, <2>4
  <1>8. FlagsMerged'
    BY <1>1, <1>2, <1>3, <1>4 DEF IInv, FlagsMerged
  <1> QED
    BY <1>5, <1>6, <1>7, <1>8 DEF IInv

\* A sync that is over leaves the empty drawer in its variables.
LEMMA ReturnOK ==
    ASSUME IInv, NEW d \in Device, Return(d)
    PROVE  /\ pc' \in [Device -> Label] /\ pc'[d] = "idle"
           /\ base' \in [Device -> Drawer] /\ mine' \in [Device -> Drawer]
           /\ \A U : Known(base'[d], U) /\ Known(mine'[d], U)
           /\ \A e \in Device : e # d => pc'[e] = pc[e] /\ base'[e] = base[e] /\ mine'[e] = mine[e]
  BY EmptyType DEF IInv, TypeOK, Label, Return, Goto, Known

LEMMA ApplyMergedInv == ASSUME IInv, NEW d \in Device, ApplyMerged(d) PROVE IInv'
  <1> DEFINE w == Saved(mine[d])
  <1>1. /\ pc[d] = "apply" /\ save(d, mine[d]) /\ Return(d) /\ Marks(d)
        /\ UNCHANGED <<inbox, sent, pending, blob, now, used, gone, edits, faults>>
    BY NoMarks DEF ApplyMerged, server
  <1>2. mine[d] \in Drawer /\ Known(mine[d], used) /\ used \in SUBSET Id
    BY DEF IInv, TypeOK, KnownOK
  <1>3. /\ drawer' \in [Device -> Drawer] /\ drawer'[d] = w
        /\ \A e \in Device : e # d => drawer'[e] = drawer[e]
    BY <1>1, <1>2, SaveOne
  <1>4. w \in Drawer /\ w.items \subseteq mine[d].items /\ w.tomb \subseteq mine[d].tomb
    BY <1>2, SavedOK
  <1>5. NothingCut => w.items = mine[d].items /\ w.tomb = mine[d].tomb
    BY <1>2, SavedWhole DEF NothingCut
  <1> HIDE DEF w
  <1>6. /\ pc' \in [Device -> Label] /\ pc'[d] = "idle"
        /\ base' \in [Device -> Drawer] /\ mine' \in [Device -> Drawer]
        /\ \A U : Known(base'[d], U) /\ Known(mine'[d], U)
        /\ \A e \in Device : e # d => pc'[e] = pc[e] /\ base'[e] = base[e] /\ mine'[e] = mine[e]
    BY <1>1, ReturnOK
  <1>7. TypeOK'
    <2>1. /\ handled' \in [Device -> SUBSET Id]
          /\ \A e \in Device : handled'[e] \subseteq drawer'[e].items
      BY <1>1, <1>3, MarksKept
    <2> QED
      BY <1>1, <1>3, <1>6, <2>1 DEF IInv, TypeOK
  <1>8. KnownOK'
    <2>1. Known(w, used)
      BY <1>2, <1>4 DEF Known
    <2> SUFFICES ASSUME NEW e \in Device
                 PROVE  Known(drawer'[e], used) /\ Known(base'[e], used) /\ Known(mine'[e], used)
      BY <1>1 DEF IInv, KnownOK, Known
    <2>2. CASE e = d
      BY <1>3, <1>6, <2>1, <2>2
    <2>3. CASE e # d
      BY <1>3, <1>6, <2>3 DEF IInv, KnownOK
    <2> QED
      BY <2>2, <2>3
  <1>9. ASSUME NothingCut' PROVE Buried'
    <2>1. NothingCut /\ Buried
      BY <1>1, <1>9 DEF IInv, NothingCut
    <2>2. Apart(w) /\ gone[d] \subseteq w.tomb
      BY <1>1, <1>5, <2>1 DEF Buried, Apart
    <2> SUFFICES ASSUME NEW e \in Device
                 PROVE  /\ Apart(drawer'[e]) /\ gone[e] \subseteq drawer'[e].tomb
                        /\ pc'[e] = "exchange" => Apart(base'[e]) /\ gone[e] \subseteq base'[e].tomb
                        /\ pc'[e] = "apply" => Apart(mine'[e]) /\ gone[e] \subseteq mine'[e].tomb
      BY <1>1 DEF Buried, Apart
    <2>3. CASE e = d
      BY <1>3, <1>6, <2>2, <2>3
    <2>4. CASE e # d
      BY <1>3, <1>6, <2>1, <2>4 DEF Buried
    <2> QED
      BY <2>3, <2>4
  <1>10. FlagsMerged'
    <2> SUFFICES ASSUME NEW e \in Device, pc'[e] = "apply"
                 PROVE  /\ base'[e].seen \cap mine'[e].items \subseteq mine'[e].seen
                        /\ base'[e].retired \cap mine'[e].items \subseteq mine'[e].retired
      BY DEF FlagsMerged
    <2>1. e # d
      BY <1>6
    <2> QED
      BY <1>6, <2>1 DEF IInv, FlagsMerged
  <1> QED
    BY <1>7, <1>8, <1>9, <1>10 DEF IInv

LEMMA SyncFailsInv == ASSUME IInv, NEW d \in Device, SyncFails(d) PROVE IInv'
  <1>1. /\ Return(d) /\ faults' = faults + 1 /\ faults < MaxFaults
        /\ UNCHANGED <<inbox, sent, pending, blob, drawer, handled, now, used, gone, edits>>
    BY DEF SyncFails, server
  <1>2. /\ pc' \in [Device -> Label] /\ pc'[d] = "idle"
        /\ base' \in [Device -> Drawer] /\ mine' \in [Device -> Drawer]
        /\ \A U : Known(base'[d], U) /\ Known(mine'[d], U)
        /\ \A e \in Device : e # d => pc'[e] = pc[e] /\ base'[e] = base[e] /\ mine'[e] = mine[e]
    BY <1>1, ReturnOK
  <1>3. faults' \in 0..MaxFaults
    BY <1>1, DrawerAssumption DEF IInv, TypeOK
  <1>4. TypeOK'
    BY <1>1, <1>2, <1>3 DEF IInv, TypeOK
  <1>5. KnownOK'
    BY <1>1, <1>2 DEF IInv, KnownOK
  <1>6. ASSUME NothingCut' PROVE Buried'
    <2>1. Buried
      BY <1>1, <1>6 DEF IInv, NothingCut
    <2> QED
      BY <1>1, <1>2, <2>1 DEF Buried
  <1>7. FlagsMerged'
    BY <1>2 DEF IInv, FlagsMerged
  <1> QED
    BY <1>4, <1>5, <1>6, <1>7 DEF IInv

LEMMA NextInv == IInv /\ [Next]_vars => IInv'
  <1>1. IInv /\ UNCHANGED vars => IInv'
    BY DEF vars, server, syncVars, IInv, TypeOK, KnownOK, NothingCut, Buried, FlagsMerged
  <1> QED
    BY <1>1, ServerStepInv, BeginInv, ExchangeInv, ApplyMergedInv, StoreStepInv, SyncFailsInv
    DEF Next, SyncStep

\* The inductive invariant holds in every reachable state.
THEOREM Invariance == Spec => []IInv
  BY InitInv, NextInv, PTL DEF Spec

-----------------------------------------------------------------------------
\* Type correctness: among others, only rows a drawer lists are marked handled.
THEOREM TypeCorrect == Spec => []TypeOK
  <1>1. IInv => TypeOK
    BY DEF IInv
  <1> QED
    BY <1>1, Invariance, PTL

\* For any number of devices and rows: while no cap is reached, a row dismissed
\* outside a sync never comes back to its drawer (Dismiss, MergeNotifications,
\* applyMerged).
THEOREM DismissedStaysAway == Spec => []NoResurrection
  <1>1. IInv => NoResurrection
    BY DEF IInv, Buried, Apart, NoResurrection
  <1> QED
    BY <1>1, Invariance, PTL

\* The steps by what they do to one device's drawer: they leave it alone, or
\* save what the store made of it, or apply a merge to it.
LEMMA StepKinds ==
    ASSUME IInv, [Next]_vars, NEW d \in Device
    PROVE  \/ drawer'[d] = drawer[d] /\ handled'[d] = handled[d]
           \/ \E v : Stores(d, v)
           \/ ApplyMerged(d)
  <1>1. CASE UNCHANGED vars
    BY <1>1 DEF vars
  <1>2. CASE ServerStep
    BY <1>2 DEF ServerStep, ShareArrives, ShareEnds, InviteArrives, InviteResolved
  <1>3. ASSUME NEW e \in Device, Begin(e) \/ Exchange(e) \/ SyncFails(e)
        PROVE  drawer'[d] = drawer[d] /\ handled'[d] = handled[d]
    BY <1>3 DEF Begin, Exchange, SyncFails
  <1>4. ASSUME NEW e \in Device, StoreStep(e) \/ ApplyMerged(e), e # d
        PROVE  drawer'[d] = drawer[d] /\ handled'[d] = handled[d]
    <2>1. Marks(e) /\ \E v : save(e, v)
      BY <1>4, StoreStepOK, NoMarks DEF Stores, ApplyMerged
    <2> QED
      BY <1>4, <2>1 DEF Marks, save, IInv, TypeOK
  <1> QED
    BY <1>1, <1>2, <1>3, <1>4, StoreStepOK DEF Next, SyncStep

\* A row that stays listed stays handled, whatever is synced (applyMerged reads
\* the store again for the marks).
THEOREM HandledKept == Spec => HandledStays
  <1> DEFINE P == \A d \in Device : handled[d] \cap drawer'[d].items \subseteq handled'[d]
  <1>1. ASSUME IInv, [Next]_vars PROVE P
    <2> SUFFICES ASSUME NEW d \in Device
                 PROVE  handled[d] \cap drawer'[d].items \subseteq handled'[d]
      OBVIOUS
    <2>1. \/ handled'[d] = handled[d]
          \/ Marks(d)
      BY <1>1, StepKinds, NoMarks DEF Stores, ApplyMerged
    <2> QED
      BY <1>1, <2>1 DEF Marks, IInv, TypeOK
  <1> QED
    BY <1>1, Invariance, PTL DEF Spec, HandledStays

\* Seen and Retired are only ever set on a row that stays listed, except that a
\* merge may take back what was set while it was under way.
THEOREM FlagsMonotone == Spec => FlagsStay
  <1> DEFINE P(d, i) ==
          /\ i \in drawer[d].seen /\ (ApplyMerged(d) => i \in base[d].seen)
                => i \in drawer'[d].seen
          /\ i \in drawer[d].retired /\ (ApplyMerged(d) => i \in base[d].retired)
                => i \in drawer'[d].retired
  <1>1. ASSUME IInv, [Next]_vars
        PROVE  \A d \in Device : \A i \in drawer[d].items \cap drawer'[d].items : P(d, i)
    <2> SUFFICES ASSUME NEW d \in Device, NEW i \in drawer[d].items \cap drawer'[d].items
                 PROVE  P(d, i)
      OBVIOUS
    <2>1. CASE drawer'[d] = drawer[d]
      BY <2>1
    <2>2. ASSUME NEW v, Stores(d, v) PROVE P(d, i)
      <3>1. /\ drawer'[d] = Saved(v)
            /\ drawer[d].seen \cap v.items \subseteq v.seen /\ drawer[d].retired \subseteq v.retired
            /\ Saved(v).seen = v.seen \cap Saved(v).items
            /\ Saved(v).retired = v.retired \cap Saved(v).items
            /\ Saved(v).items \subseteq v.items
        BY <1>1, <2>2, SaveOne, SavedOK DEF Stores
      <3> QED
        BY <3>1
    <2>3. CASE ApplyMerged(d)
      <3>1. pc[d] = "apply" /\ mine[d] \in Drawer /\ save(d, mine[d])
        BY <1>1, <2>3 DEF ApplyMerged, IInv, TypeOK
      <3>2. /\ drawer'[d] = Saved(mine[d])
            /\ Saved(mine[d]).seen = mine[d].seen \cap Saved(mine[d]).items
            /\ Saved(mine[d]).retired = mine[d].retired \cap Saved(mine[d]).items
            /\ Saved(mine[d]).items \subseteq mine[d].items
        BY <1>1, <3>1, SaveOne, SavedOK
      <3>3. /\ base[d].seen \cap mine[d].items \subseteq mine[d].seen
            /\ base[d].retired \cap mine[d].items \subseteq mine[d].retired
        BY <1>1, <3>1 DEF IInv, FlagsMerged
      <3> QED
        BY <2>3, <3>2, <3>3
    <2> QED
      BY <1>1, <2>1, <2>2, <2>3, StepKinds
  <1> QED
    BY <1>1, Invariance, PTL DEF Spec, FlagsStay

=============================================================================
