-------------------------- MODULE GroupsSyncProofs --------------------------
(***************************************************************************)
(* Proofs about GroupMerge and GroupsSync, for every set of devices, ids,  *)
(* names, member lists and clock readings.                                 *)
(*                                                                         *)
(* First the algebra of MergeGroups: up to the order of a group's members  *)
(* it is the join of a semilattice whose order is Below.  Then two invariants of the sync: SyncInv ties what a   *)
(* device is about to PUT to the blob version it names, LocalInv says that *)
(* a sync only ever adds to the view it read from the store.               *)
(***************************************************************************)
EXTENDS GroupsSync, TLAPS

-----------------------------------------------------------------------------
(* Two copies of one group.                                                *)

Copy == Group \cup {NoGroup}

LEMMA GroupFields ==
    ASSUME NEW g \in Group
    PROVE  g.at \in Int /\ g.name \in Int /\ g.members \in Int /\ g # NoGroup
BY GroupAssumption DEF Group

\* winsOver is a strict order on groups, total but for the order of the members.
LEMMA WinsTotal ==
    ASSUME NEW g \in Group, NEW h \in Group
    PROVE  /\ ~(winsOver(g, h) /\ winsOver(h, g))
           /\ ~winsOver(g, h) /\ ~winsOver(h, g) => SameCopy(g, h)
           /\ SameCopy(g, h) => ~winsOver(g, h)
<1>1. ~(winsOver(g, h) /\ winsOver(h, g))
  BY GroupFields DEF winsOver, CanonicalAfter
<1>2. ASSUME ~winsOver(g, h), ~winsOver(h, g) PROVE SameCopy(g, h)
  <2>1. g.at = h.at /\ g.name = h.name /\ g.members = h.members
    BY <1>2, GroupFields DEF winsOver, CanonicalAfter
  <2> QED
    BY <2>1, GroupFields DEF SameCopy
<1>3. SameCopy(g, h) => ~winsOver(g, h)
  BY GroupFields DEF SameCopy, winsOver, CanonicalAfter
<1> QED
  BY <1>1, <1>2, <1>3

LEMMA WinsTransitive ==
    ASSUME NEW f \in Group, NEW g \in Group, NEW h \in Group
    PROVE  /\ winsOver(f, g) /\ winsOver(g, h) => winsOver(f, h)
           /\ ~winsOver(f, g) /\ ~winsOver(g, h) => ~winsOver(f, h)
BY GroupFields DEF winsOver, CanonicalAfter

LEMMA TakeCommutes ==
    ASSUME NEW x \in Copy, NEW y \in Copy
    PROVE  /\ SameCopy(TakeBoth(x, y), TakeBoth(y, x))
           /\ TakeBoth(x, x) = x
           /\ TakeBoth(x, y) \in Copy
<1>1. TakeBoth(x, x) = x /\ TakeBoth(x, y) \in Copy
  BY WinsTotal DEF TakeBoth, Copy
<1>2. \A z \in Copy : SameCopy(z, z)
  BY DEF SameCopy
<1>3. CASE x = NoGroup \/ y = NoGroup
  BY <1>2, <1>3 DEF TakeBoth
<1>4. CASE x # NoGroup /\ y # NoGroup
  <2>1. x \in Group /\ y \in Group
    BY <1>4 DEF Copy
  <2>2. CASE winsOver(x, y) \/ winsOver(y, x)
    BY <1>2, <1>4, <2>1, <2>2, WinsTotal DEF TakeBoth
  <2>3. CASE ~winsOver(x, y) /\ ~winsOver(y, x)
    BY <1>4, <2>1, <2>3, WinsTotal DEF TakeBoth
  <2> QED
    BY <2>2, <2>3
<1> QED
  BY <1>1, <1>3, <1>4

LEMMA TakeAssociates ==
    ASSUME NEW x \in Copy, NEW y \in Copy, NEW z \in Copy
    PROVE  TakeBoth(TakeBoth(x, y), z) = TakeBoth(x, TakeBoth(y, z))
<1>1. CASE x = NoGroup \/ y = NoGroup \/ z = NoGroup
  BY <1>1 DEF TakeBoth
<1>2. CASE x \in Group /\ y \in Group /\ z \in Group
  <2>1. x # NoGroup /\ y # NoGroup /\ z # NoGroup
    BY <1>2, GroupFields
  <2> QED
    BY <1>2, <2>1, WinsTotal, WinsTransitive DEF TakeBoth
<1> QED
  BY <1>1, <1>2 DEF Copy

-----------------------------------------------------------------------------
(* Views.                                                                  *)

LEMMA ViewParts ==
    ASSUME NEW v \in View
    PROVE  /\ v.deleted \in SUBSET Id
           /\ v.groups \in [Id -> Copy]
           /\ \A i \in Id : v.groups[i] \in Copy
           /\ v = [groups |-> v.groups, deleted |-> v.deleted]
BY DEF View, Copy

LEMMA ViewExt ==
    ASSUME NEW v \in View, NEW w \in View, v.deleted = w.deleted,
           \A i \in Id : v.groups[i] = w.groups[i]
    PROVE  v = w
<1>1. v.groups = w.groups
  BY ViewParts
<1> QED
  BY <1>1, ViewParts

LEMMA MergeParts ==
    ASSUME NEW a \in View, NEW b \in View
    PROVE  /\ MergeGroups(a, b) \in View
           /\ MergeGroups(a, b).deleted = a.deleted \cup b.deleted
           /\ \A i \in Id : MergeGroups(a, b).groups[i] =
                 IF i \in a.deleted \cup b.deleted THEN NoGroup
                                                   ELSE TakeBoth(a.groups[i], b.groups[i])
<1>1. \A i \in Id : TakeBoth(a.groups[i], b.groups[i]) \in Copy
  BY ViewParts, TakeCommutes
<1>2. a.deleted \cup b.deleted \in SUBSET Id
  BY ViewParts
<1> QED
  BY <1>1, <1>2 DEF MergeGroups, View, Copy

\* MergeGroups, which its comment calls commutative, is so up to the order in
\* which a group lists its members (copies that differ in it alone tie, and each
\* side keeps its own).  On views that hold no group they deleted it is
\* idempotent, and it is associative, members' order included.
THEOREM MergeLaws ==
    /\ \A a, b \in View : SameGroups(MergeGroups(a, b), MergeGroups(b, a))
    /\ \A a \in View : Clean(a) => MergeGroups(a, a) = a
    /\ \A a, b, c \in View :
          MergeGroups(MergeGroups(a, b), c) = MergeGroups(a, MergeGroups(b, c))
<1>1. ASSUME NEW a \in View, NEW b \in View
      PROVE  SameGroups(MergeGroups(a, b), MergeGroups(b, a))
  <2>1. SameCopy(NoGroup, NoGroup)
    BY DEF SameCopy
  <2>2. \A i \in Id : SameCopy(MergeGroups(a, b).groups[i], MergeGroups(b, a).groups[i])
    BY <2>1, MergeParts, ViewParts, TakeCommutes
  <2>3. MergeGroups(a, b).deleted = MergeGroups(b, a).deleted
    BY DEF MergeGroups
  <2> QED
    BY <2>2, <2>3 DEF SameGroups
<1>2. ASSUME NEW a \in View, Clean(a) PROVE MergeGroups(a, a) = a
  <2>1. \A i \in Id : MergeGroups(a, a).groups[i] = a.groups[i]
    BY <1>2, MergeParts, ViewParts, TakeCommutes DEF Clean
  <2>2. MergeGroups(a, a).deleted = a.deleted
    BY DEF MergeGroups
  <2>3. MergeGroups(a, a) \in View
    BY MergeParts
  <2> QED
    BY <2>1, <2>2, <2>3, ViewExt
<1>3. ASSUME NEW a \in View, NEW b \in View, NEW c \in View
      PROVE  MergeGroups(MergeGroups(a, b), c) = MergeGroups(a, MergeGroups(b, c))
  <2> DEFINE ab == MergeGroups(a, b)
             bc == MergeGroups(b, c)
  <2>1. /\ ab \in View /\ bc \in View
        /\ ab.deleted = a.deleted \cup b.deleted
        /\ bc.deleted = b.deleted \cup c.deleted
    BY MergeParts
  <2>2. ASSUME NEW i \in Id
        PROVE  MergeGroups(ab, c).groups[i] = MergeGroups(a, bc).groups[i]
    <3>1. a.groups[i] \in Copy /\ b.groups[i] \in Copy /\ c.groups[i] \in Copy
      BY ViewParts
    <3>2. /\ ab.groups[i] = IF i \in a.deleted \cup b.deleted
                              THEN NoGroup ELSE TakeBoth(a.groups[i], b.groups[i])
          /\ bc.groups[i] = IF i \in b.deleted \cup c.deleted
                              THEN NoGroup ELSE TakeBoth(b.groups[i], c.groups[i])
      BY MergeParts
    <3> HIDE DEF ab, bc
    <3>3. /\ MergeGroups(ab, c).groups[i] =
               IF i \in ab.deleted \cup c.deleted
                 THEN NoGroup ELSE TakeBoth(ab.groups[i], c.groups[i])
          /\ MergeGroups(a, bc).groups[i] =
               IF i \in a.deleted \cup bc.deleted
                 THEN NoGroup ELSE TakeBoth(a.groups[i], bc.groups[i])
      BY <2>1, MergeParts
    <3>4. CASE i \in a.deleted \cup b.deleted \cup c.deleted
      BY <2>1, <3>3, <3>4
    <3>5. CASE i \notin a.deleted \cup b.deleted \cup c.deleted
      BY <2>1, <3>1, <3>2, <3>3, <3>5, TakeAssociates
    <3> QED
      BY <3>4, <3>5
  <2> HIDE DEF ab, bc
  <2>3. MergeGroups(ab, c).deleted = MergeGroups(a, bc).deleted
    BY <2>1 DEF MergeGroups
  <2>4. MergeGroups(ab, c) \in View /\ MergeGroups(a, bc) \in View
    BY <2>1, MergeParts
  <2>5. MergeGroups(ab, c) = MergeGroups(a, bc)
    BY <2>2, <2>3, <2>4, ViewExt
  <2> QED
    BY <2>5 DEF ab, bc
<1> QED
  BY <1>1, <1>2, <1>3

LEMMA MergeClean ==
    ASSUME NEW a \in View, NEW b \in View
    PROVE  Clean(MergeGroups(a, b))
BY MergeParts, ViewParts DEF Clean

\* A merged view is not changed by merging the same blob again.
LEMMA MergeAbsorbs ==
    ASSUME NEW a \in View, NEW b \in View, Clean(b)
    PROVE  MergeGroups(MergeGroups(a, b), b) = MergeGroups(a, b)
BY MergeLaws

LEMMA EmptyIsNeutral ==
    /\ EmptyView \in View /\ Clean(EmptyView)
    /\ \A a \in View : Clean(a) => MergeGroups(a, EmptyView) = a
<1>1. /\ EmptyView \in View /\ EmptyView.deleted = {}
      /\ \A i \in Id : EmptyView.groups[i] = NoGroup
  BY DEF EmptyView, View
<1>2. Clean(EmptyView)
  BY <1>1 DEF Clean
<1>3. ASSUME NEW a \in View, Clean(a) PROVE MergeGroups(a, EmptyView) = a
  <2>1. /\ MergeGroups(a, EmptyView) \in View
        /\ MergeGroups(a, EmptyView).deleted = a.deleted \cup EmptyView.deleted
        /\ \A i \in Id : MergeGroups(a, EmptyView).groups[i] =
              IF i \in a.deleted \cup EmptyView.deleted
                THEN NoGroup ELSE TakeBoth(a.groups[i], EmptyView.groups[i])
    <3>1. EmptyView \in View
      BY <1>1
    <3> QED
      BY <3>1, MergeParts
  <2>2. \A i \in Id : MergeGroups(a, EmptyView).groups[i] = a.groups[i]
    BY <1>1, <1>3, <2>1 DEF Clean, TakeBoth
  <2>3. MergeGroups(a, EmptyView).deleted = a.deleted
    BY <1>1, <2>1
  <2> QED
    BY <2>1, <2>2, <2>3, ViewExt
<1> QED
  BY <1>1, <1>2, <1>3

\* A merge is above what it merges, and Below is a preorder.
LEMMA MergeIsAbove ==
    ASSUME NEW a \in View, NEW b \in View
    PROVE  Below(a, MergeGroups(a, b))
<1> DEFINE m == MergeGroups(a, b)
<1>1. /\ m.deleted = a.deleted \cup b.deleted
      /\ \A i \in Id : m.groups[i] =
           IF i \in a.deleted \cup b.deleted THEN NoGroup
                                             ELSE TakeBoth(a.groups[i], b.groups[i])
  BY MergeParts
<1> HIDE DEF m
<1>2. ASSUME NEW i \in Id \ m.deleted, a.groups[i] # NoGroup
      PROVE  m.groups[i] # NoGroup /\ ~winsOver(a.groups[i], m.groups[i])
  <2>1. m.groups[i] = TakeBoth(a.groups[i], b.groups[i])
    BY <1>1
  <2>2. a.groups[i] \in Group /\ b.groups[i] \in Copy
    BY <1>2, ViewParts DEF Copy
  <2> QED
    BY <1>2, <2>1, <2>2, WinsTotal DEF TakeBoth, Copy
<1> QED
  BY <1>1, <1>2 DEF Below, m

LEMMA BelowReflexive == ASSUME NEW a \in View PROVE Below(a, a)
BY ViewParts, WinsTotal DEF Below, Copy

LEMMA BelowTransitive ==
    ASSUME NEW a \in View, NEW b \in View, NEW c \in View, Below(a, b), Below(b, c)
    PROVE  Below(a, c)
<1>1. a.deleted \subseteq c.deleted
  BY DEF Below
<1>2. ASSUME NEW i \in Id \ c.deleted, a.groups[i] # NoGroup
      PROVE  c.groups[i] # NoGroup /\ ~winsOver(a.groups[i], c.groups[i])
  <2>1. b.groups[i] # NoGroup /\ ~winsOver(a.groups[i], b.groups[i])
    BY <1>2 DEF Below
  <2>2. c.groups[i] # NoGroup /\ ~winsOver(b.groups[i], c.groups[i])
    BY <1>2, <2>1 DEF Below
  <2>3. a.groups[i] \in Group /\ b.groups[i] \in Group /\ c.groups[i] \in Group
    BY <1>2, <2>1, <2>2, ViewParts DEF Copy
  <2> QED
    BY <2>1, <2>2, <2>3, WinsTransitive
<1> QED
  BY <1>1, <1>2 DEF Below

-----------------------------------------------------------------------------
(* The sync, in every environment.                                         *)

\* What a device is about to PUT under the blob's current version contains the
\* blob; views hold no group they deleted, and their ids were given out before.
Mentions(v) == {i \in Id : i \in v.deleted \/ v.groups[i] # NoGroup}

DeviceInv(d) ==
    /\ Clean(live[d]) /\ Mentions(live[d]) \subseteq used
    /\ Clean(mine[d]) /\ Mentions(mine[d]) \subseteq used
    /\ pc[d] = "put" =>
          /\ attempt[d] < mergeBlobMaxAttempts
          /\ current[d] => MergeGroups(mine[d], blob.view) = mine[d]

BlobInv ==
    /\ Clean(blob.view) /\ Mentions(blob.view) \subseteq used
    /\ ~blob.made => blob.view = EmptyView

SyncInv == TypeOK /\ BlobInv /\ \A d \in Device : DeviceInv(d)

Step(d) ==
    \/ Begin(d) \/ SyncStep(d) \/ UIStep(d) \/ SyncFails(d) \/ PutAnswerLost(d)

LEMMA SyncInit == Init => SyncInv
<1> SUFFICES ASSUME Init PROVE SyncInv
  OBVIOUS
<1>1. Mentions(EmptyView) = {}
  BY DEF EmptyView, Mentions
<1>2. TypeOK
  BY EmptyIsNeutral, SyncAssumption DEF Init, TypeOK, Label
<1>3. BlobInv
  BY <1>1, EmptyIsNeutral DEF Init, BlobInv
<1>4. \A d \in Device : DeviceInv(d)
  BY <1>1, EmptyIsNeutral DEF Init, DeviceInv
<1> QED
  BY <1>2, <1>3, <1>4 DEF SyncInv

LEMMA EditedViews ==
    ASSUME NEW v \in View, Clean(v), NEW i \in Id, NEW g \in Group
    PROVE  /\ LET w == [groups |-> [v.groups EXCEPT ![i] = g], deleted |-> v.deleted \ {i}]
              IN  w \in View /\ Clean(w) /\ Mentions(w) \subseteq Mentions(v) \cup {i}
           /\ v.groups[i] # NoGroup =>
                LET w == [v EXCEPT !.groups[i] = g]
                IN  w \in View /\ Clean(w) /\ Mentions(w) \subseteq Mentions(v)
<1>1. LET w == [groups |-> [v.groups EXCEPT ![i] = g], deleted |-> v.deleted \ {i}]
      IN  w \in View /\ Clean(w) /\ Mentions(w) \subseteq Mentions(v) \cup {i}
  BY ViewParts DEF View, Clean, Copy, Mentions
<1>2. ASSUME v.groups[i] # NoGroup
      PROVE  LET w == [v EXCEPT !.groups[i] = g]
             IN  w \in View /\ Clean(w) /\ Mentions(w) \subseteq Mentions(v)
  <2>1. i \notin v.deleted
    BY <1>2 DEF Clean
  <2>2. [v EXCEPT !.groups[i] = g] =
           [groups |-> [v.groups EXCEPT ![i] = g], deleted |-> v.deleted]
    BY DEF View
  <2>3. [groups |-> [v.groups EXCEPT ![i] = g], deleted |-> v.deleted] \in View
    BY ViewParts DEF View, Copy
  <2>4. Clean([groups |-> [v.groups EXCEPT ![i] = g], deleted |-> v.deleted])
    BY <2>1, ViewParts DEF Clean
  <2>5. Mentions([groups |-> [v.groups EXCEPT ![i] = g], deleted |-> v.deleted])
           \subseteq Mentions(v)
    BY <1>2, ViewParts DEF Mentions
  <2> QED
    BY <2>2, <2>3, <2>4, <2>5
<1> QED
  BY <1>1, <1>2

LEMMA RemovedView ==
    ASSUME NEW v \in View, Clean(v), NEW i \in Id, v.groups[i] # NoGroup
    PROVE  LET w == [groups |-> [v.groups EXCEPT ![i] = NoGroup], deleted |-> v.deleted \cup {i}]
           IN  w \in View /\ Clean(w) /\ Mentions(w) \subseteq Mentions(v)
BY ViewParts DEF View, Clean, Copy, Mentions

\* A device that does not move keeps its facts: a new blob has another version
\* than anything it read.
LEMMA OthersKeep ==
    ASSUME SyncInv, TypeOK', NEW e \in Device, used \subseteq used',
           (blob' = blob /\ current'[e] = current[e]) \/ ~current'[e],
           live'[e] = live[e], pc'[e] = pc[e], mine'[e] = mine[e],
           attempt'[e] = attempt[e]
    PROVE  DeviceInv(e)'
BY DEF SyncInv, DeviceInv

LEMMA OnlyActorMoves ==
    ASSUME TypeOK, NEW d \in Device, Step(d), NEW e \in Device, e # d
    PROVE  /\ live'[e] = live[e] /\ pc'[e] = pc[e] /\ mine'[e] = mine[e]
           /\ attempt'[e] = attempt[e]
           /\ used \subseteq used'
           /\ (blob' = blob /\ current'[e] = current[e]) \/ ~current'[e]
<1> USE DEF TypeOK, Goto, Return, syncVars
<1>1. CASE Begin(d) \/ OpenUpToDate(d) \/ OpenAndMerge(d) \/ GiveUp(d)
  BY <1>1 DEF Begin, OpenUpToDate, OpenAndMerge, GiveUp
<1>2. CASE PutAccepted(d) \/ PutAnswerLost(d)
  <2>1. PutBlob(d) => ~current'[e]
    BY DEF PutBlob, Outdated
  <2> QED
    BY <1>2, <2>1 DEF PutAccepted, PutAnswerLost
<1>3. CASE PutConflicts(d) \/ ApplyMerged(d) \/ SyncFails(d)
  BY <1>3 DEF PutConflicts, ApplyMerged, SyncFails
<1>4. CASE UIStep(d)
  <2>1. /\ live'[e] = live[e] /\ used \subseteq used'
        /\ UNCHANGED <<blob, pc, mine, current, attempt>>
    BY <1>4 DEF UIStep, Add, Edit, Remove
  <2> QED
    BY <2>1
<1> QED
  BY <1>1, <1>2, <1>3, <1>4 DEF Step, SyncStep

\* The store's mutators keep the invariant.
LEMMA UIKeeps ==
    ASSUME SyncInv, NEW d \in Device, UIStep(d)
    PROVE  TypeOK' /\ BlobInv' /\ DeviceInv(d)'
<1>1. PICK i \in Id : (\E g \in Group : Add(d, i, g) \/ Edit(d, i, g)) \/ Remove(d, i)
  BY DEF UIStep
<1>2. TypeOK /\ BlobInv /\ DeviceInv(d) /\ live[d] \in View /\ Clean(live[d])
  BY DEF SyncInv, TypeOK, DeviceInv
<1>3. /\ edits' \in 0..MaxEdits /\ UNCHANGED <<blob, pc, mine, current, attempt, faults>>
      /\ used \subseteq used'
  BY <1>1, <1>2, SyncAssumption DEF Add, Edit, Remove, MayEdit, TypeOK, syncVars
<1>4. SUFFICES /\ live'[d] \in View /\ Clean(live'[d]) /\ Mentions(live'[d]) \subseteq used'
               /\ live' = [live EXCEPT ![d] = live'[d]]
               /\ used' \in SUBSET Id
  <2>1. TypeOK'
    BY <1>2, <1>3, <1>4 DEF TypeOK
  <2>2. BlobInv'
    BY <1>2, <1>3 DEF BlobInv
  <2>3. DeviceInv(d)'
    BY <1>2, <1>3, <1>4 DEF DeviceInv
  <2> QED
    BY <2>1, <2>2, <2>3
<1>5. ASSUME NEW g \in Group, Add(d, i, g)
      PROVE  /\ live'[d] \in View /\ Clean(live'[d]) /\ Mentions(live'[d]) \subseteq used'
             /\ live' = [live EXCEPT ![d] = live'[d]]
             /\ used' \in SUBSET Id
  <2> DEFINE w == [groups |-> [live[d].groups EXCEPT ![i] = g], deleted |-> live[d].deleted \ {i}]
  <2>1. w \in View /\ Clean(w) /\ Mentions(w) \subseteq Mentions(live[d]) \cup {i}
    BY <1>2, EditedViews
  <2>2. live' = [live EXCEPT ![d] = w] /\ used' = used \cup {i}
    BY <1>5 DEF Add
  <2>3. live'[d] = w
    BY <1>2, <2>2 DEF TypeOK
  <2> HIDE DEF w
  <2> QED
    BY <1>2, <2>1, <2>2, <2>3 DEF TypeOK, DeviceInv
<1>6. ASSUME NEW g \in Group, Edit(d, i, g)
      PROVE  /\ live'[d] \in View /\ Clean(live'[d]) /\ Mentions(live'[d]) \subseteq used'
             /\ live' = [live EXCEPT ![d] = live'[d]]
             /\ used' \in SUBSET Id
  <2> DEFINE w == [live[d] EXCEPT !.groups[i] = g]
  <2>1. w \in View /\ Clean(w) /\ Mentions(w) \subseteq Mentions(live[d])
    BY <1>2, <1>6, EditedViews DEF Edit
  <2>2. live' = [live EXCEPT ![d] = w] /\ used' = used
    BY <1>6 DEF Edit
  <2>3. live'[d] = w
    BY <1>2, <2>2 DEF TypeOK
  <2> HIDE DEF w
  <2> QED
    BY <1>2, <2>1, <2>2, <2>3 DEF TypeOK, DeviceInv
<1>7. ASSUME Remove(d, i)
      PROVE  /\ live'[d] \in View /\ Clean(live'[d]) /\ Mentions(live'[d]) \subseteq used'
             /\ live' = [live EXCEPT ![d] = live'[d]]
             /\ used' \in SUBSET Id
  <2> DEFINE w == [groups |-> [live[d].groups EXCEPT ![i] = NoGroup],
                   deleted |-> live[d].deleted \cup {i}]
  <2>1. w \in View /\ Clean(w) /\ Mentions(w) \subseteq Mentions(live[d])
    BY <1>2, <1>7, RemovedView DEF Remove
  <2>2. live' = [live EXCEPT ![d] = w] /\ used' = used
    BY <1>7 DEF Remove
  <2>3. live'[d] = w
    BY <1>2, <2>2 DEF TypeOK
  <2> HIDE DEF w
  <2> QED
    BY <1>2, <2>1, <2>2, <2>3 DEF TypeOK, DeviceInv
<1> QED
  BY <1>1, <1>5, <1>6, <1>7

\* What a PUT stores.
LEMMA PutFacts ==
    ASSUME SyncInv, NEW d \in Device, pc[d] = "put", PutBlob(d)
    PROVE  /\ blob' \in [made : BOOLEAN, view : View, plain : BOOLEAN]
           /\ blob'.made /\ blob'.view = mine[d]
           /\ blob'.view = MergeGroups(mine[d], blob.view)
           /\ current' \in [Device -> BOOLEAN]
<1>1. mine[d] \in View /\ DeviceInv(d)
  BY DEF SyncInv, TypeOK
<1>2. PICK plain \in BOOLEAN :
         blob' = [made |-> TRUE, view |-> mine[d], plain |-> plain]
  BY DEF PutBlob
<1>3. current[d] /\ current' \in [Device -> BOOLEAN]
  BY DEF PutBlob, Outdated
<1> QED
  BY <1>1, <1>2, <1>3 DEF DeviceInv

LEMMA MergeMentions ==
    ASSUME NEW a \in View, NEW b \in View
    PROVE  Mentions(MergeGroups(a, b)) \subseteq Mentions(a) \cup Mentions(b)
<1> DEFINE m == MergeGroups(a, b)
<1>1. /\ m.deleted = a.deleted \cup b.deleted
      /\ \A i \in Id : m.groups[i] =
           IF i \in a.deleted \cup b.deleted THEN NoGroup
                                             ELSE TakeBoth(a.groups[i], b.groups[i])
  BY MergeParts
<1> HIDE DEF m
<1>2. \A i \in Id : m.groups[i] # NoGroup => a.groups[i] # NoGroup \/ b.groups[i] # NoGroup
  BY <1>1 DEF TakeBoth
<1>3. Mentions(m) \subseteq Mentions(a) \cup Mentions(b)
  BY <1>1, <1>2 DEF Mentions
<1> QED
  BY <1>3 DEF m

\* The sync's own steps keep the invariant.
LEMMA SyncKeeps ==
    ASSUME SyncInv, NEW d \in Device,
           Begin(d) \/ SyncStep(d) \/ SyncFails(d) \/ PutAnswerLost(d)
    PROVE  TypeOK' /\ BlobInv' /\ DeviceInv(d)'
<1>1. TypeOK /\ BlobInv /\ DeviceInv(d)
  BY DEF SyncInv
<1>2. /\ live[d] \in View /\ mine[d] \in View /\ blob.view \in View
      /\ attempt[d] \in 0..mergeBlobMaxAttempts
      /\ mergeBlobMaxAttempts \in Nat
  BY <1>1, SyncAssumption DEF TypeOK, DeviceInv
<1>3. EmptyView \in View /\ Clean(EmptyView) /\ Mentions(EmptyView) = {}
  BY EmptyIsNeutral DEF Mentions, EmptyView
<1>4. ASSUME Return(d)
      PROVE  /\ pc' \in [Device -> Label] /\ mine' \in [Device -> View]
             /\ attempt' \in [Device -> 0..mergeBlobMaxAttempts]
             /\ pc'[d] = "idle" /\ mine'[d] = EmptyView
  BY <1>1, <1>2, <1>3, <1>4 DEF Return, Goto, TypeOK, Label
<1>5. Fault => faults' \in 0..MaxFaults
  BY <1>1, SyncAssumption DEF Fault, TypeOK
<1>6. CASE Begin(d)
  <2>1. /\ pc' \in [Device -> Label] /\ mine' \in [Device -> View]
        /\ pc'[d] = "open" /\ mine'[d] = live[d]
        /\ UNCHANGED <<blob, live, used, current, attempt, edits, faults>>
    BY <1>1, <1>2, <1>6 DEF Begin, Goto, TypeOK, Label
  <2> QED
    BY <1>1, <2>1 DEF TypeOK, BlobInv, DeviceInv
<1>7. CASE OpenUpToDate(d)
  <2>1. /\ pc' \in [Device -> Label] /\ mine' \in [Device -> View]
        /\ pc'[d] = "apply" /\ mine'[d] = blob.view
        /\ UNCHANGED <<blob, live, used, current, attempt, edits, faults>>
    BY <1>1, <1>2, <1>7 DEF OpenUpToDate, Goto, TypeOK, Label
  <2> QED
    BY <1>1, <2>1 DEF TypeOK, BlobInv, DeviceInv
<1>8. CASE OpenAndMerge(d)
  <2> DEFINE m == IF blob.made THEN MergeGroups(mine[d], blob.view) ELSE mine[d]
  <2>1. m \in View /\ Clean(m) /\ Mentions(m) \subseteq used /\ MergeGroups(m, blob.view) = m
    <3>1. CASE ~blob.made
      BY <1>1, <1>2, <3>1, EmptyIsNeutral DEF BlobInv, DeviceInv
    <3>2. CASE blob.made
      <4>1. m = MergeGroups(mine[d], blob.view)
        BY <3>2
      <4>2. MergeGroups(mine[d], blob.view) \in View /\ Clean(MergeGroups(mine[d], blob.view))
        BY <1>2, MergeParts, MergeClean
      <4>3. MergeGroups(m, blob.view) = m
        BY <1>1, <1>2, <4>1, MergeAbsorbs DEF BlobInv
      <4>4. Mentions(MergeGroups(mine[d], blob.view))
              \subseteq Mentions(mine[d]) \cup Mentions(blob.view)
        BY <1>2, MergeMentions
      <4> QED
        BY <1>1, <4>1, <4>2, <4>3, <4>4 DEF BlobInv, DeviceInv
    <3> QED
      BY <3>1, <3>2
  <2>2. /\ mine' = [mine EXCEPT ![d] = m]
        /\ current' = [current EXCEPT ![d] = TRUE]
        /\ attempt[d] < mergeBlobMaxAttempts
        /\ pc' = [pc EXCEPT ![d] = "put"]
        /\ UNCHANGED <<blob, live, used, attempt, edits, faults>>
    BY <1>8 DEF OpenAndMerge, Goto
  <2> HIDE DEF m
  <2>3. /\ pc' \in [Device -> Label] /\ mine' \in [Device -> View]
        /\ current' \in [Device -> BOOLEAN]
        /\ pc'[d] = "put" /\ mine'[d] = m
    BY <1>1, <1>2, <2>1, <2>2 DEF TypeOK, Label
  <2>4. DeviceInv(d)'
    BY <1>1, <1>2, <2>1, <2>2, <2>3 DEF DeviceInv
  <2> QED
    BY <1>1, <2>2, <2>3, <2>4 DEF TypeOK, BlobInv
<1>9. CASE GiveUp(d) \/ SyncFails(d)
  <2>1. /\ Return(d) /\ faults' \in 0..MaxFaults /\ UNCHANGED <<blob, live, used, edits>>
        /\ current' \in [Device -> BOOLEAN]
    BY <1>1, <1>5, <1>9 DEF GiveUp, SyncFails, TypeOK
  <2> QED
    BY <1>1, <1>2, <1>3, <1>4, <2>1 DEF TypeOK, BlobInv, DeviceInv
<1>10. CASE PutAccepted(d)
  <2>1. /\ pc' \in [Device -> Label] /\ pc'[d] = "apply" /\ pc[d] = "put" /\ PutBlob(d)
        /\ UNCHANGED <<live, used, mine, attempt, edits, faults>>
    BY <1>1, <1>10 DEF PutAccepted, Goto, TypeOK, Label
  <2>2. /\ blob' \in [made : BOOLEAN, view : View, plain : BOOLEAN]
        /\ blob'.made /\ blob'.view = mine[d]
        /\ current' \in [Device -> BOOLEAN]
    BY <2>1, PutFacts
  <2>3. TypeOK'
    BY <1>1, <2>1, <2>2 DEF TypeOK
  <2>4. BlobInv'
    BY <1>1, <1>2, <2>1, <2>2 DEF BlobInv, DeviceInv
  <2>5. DeviceInv(d)'
    BY <1>1, <1>2, <2>1, <2>2 DEF DeviceInv
  <2> QED
    BY <2>3, <2>4, <2>5
<1>11. CASE PutConflicts(d)
  <2>1. /\ pc[d] = "put" /\ pc' = [pc EXCEPT ![d] = "open"]
        /\ attempt' = [attempt EXCEPT ![d] = @ + 1]
        /\ UNCHANGED <<blob, live, used, mine, current, edits, faults>>
    BY <1>11 DEF PutConflicts, Goto
  <2>2. attempt[d] + 1 \in 0..mergeBlobMaxAttempts
    BY <1>1, <1>2, <2>1 DEF DeviceInv
  <2>3. TypeOK' /\ pc'[d] = "open"
    BY <1>1, <2>1, <2>2 DEF TypeOK, Label
  <2> QED
    BY <1>1, <2>1, <2>3 DEF BlobInv, DeviceInv
<1>12. CASE ApplyMerged(d)
  <2>1. /\ Return(d) /\ live' = [live EXCEPT ![d] = mine[d]]
        /\ UNCHANGED <<blob, used, current, edits, faults>>
    BY <1>12 DEF ApplyMerged
  <2>2. live' \in [Device -> View] /\ live'[d] = mine[d]
    BY <1>1, <1>2, <2>1 DEF TypeOK
  <2> QED
    BY <1>1, <1>2, <1>3, <1>4, <2>1, <2>2 DEF TypeOK, BlobInv, DeviceInv
<1>13. CASE PutAnswerLost(d)
  <2>1. /\ Return(d) /\ pc[d] = "put" /\ PutBlob(d) /\ faults' \in 0..MaxFaults
        /\ UNCHANGED <<live, used, edits>>
    BY <1>5, <1>13 DEF PutAnswerLost
  <2>2. /\ blob' \in [made : BOOLEAN, view : View, plain : BOOLEAN]
        /\ blob'.made /\ blob'.view = mine[d]
        /\ current' \in [Device -> BOOLEAN]
    BY <2>1, PutFacts
  <2>3. TypeOK'
    BY <1>1, <1>4, <2>1, <2>2 DEF TypeOK
  <2>4. BlobInv'
    BY <1>1, <1>2, <2>1, <2>2 DEF BlobInv, DeviceInv
  <2>5. DeviceInv(d)'
    BY <1>1, <1>2, <1>3, <1>4, <2>1, <2>2 DEF DeviceInv
  <2> QED
    BY <2>3, <2>4, <2>5
<1> QED
  BY <1>6, <1>7, <1>8, <1>9, <1>10, <1>11, <1>12, <1>13 DEF SyncStep

LEMMA SyncNext == SyncInv /\ [Next]_vars => SyncInv'
<1> SUFFICES ASSUME SyncInv, [Next]_vars PROVE SyncInv'
  OBVIOUS
<1>1. CASE UNCHANGED vars
  BY <1>1 DEF vars, syncVars, SyncInv, TypeOK, BlobInv, DeviceInv
<1>2. ASSUME NEW d \in Device, Step(d) PROVE SyncInv'
  <2>1. TypeOK' /\ BlobInv' /\ DeviceInv(d)'
    BY <1>2, UIKeeps, SyncKeeps DEF Step
  <2>2. ASSUME NEW e \in Device, e # d PROVE DeviceInv(e)'
    <3>1. TypeOK
      BY DEF SyncInv
    <3> QED
      BY <1>2, <2>1, <2>2, <3>1, OnlyActorMoves, OthersKeep
  <2> QED
    BY <2>1, <2>2 DEF SyncInv
<1> QED
  BY <1>1, <1>2 DEF Next, Step

LEMMA SyncInvariant == Spec => []SyncInv
BY SyncInit, SyncNext, PTL DEF Spec

\* Every reachable state is well typed: among others SyncMergedBlob never exceeds
\* its attempts.
THEOREM TypeCorrect == Spec => []TypeOK
<1>1. SyncInv => TypeOK
  BY DEF SyncInv
<1> QED
  BY <1>1, SyncInvariant, PTL

\* SyncMergedBlob implements the register: whatever devices do concurrently, and
\* whatever answer is lost, an accepted PUT merges into what the account held.
THEOREM BlobImplementsRegister == Spec => BlobIsMergedInto
<1>1. Init => Register!Init
  BY DEF Init, EmptyView, Register!Init, Register!EmptyView
<1>2. SyncInv /\ [Next]_vars => [Register!Next]_(blob.view)
  <2> SUFFICES ASSUME SyncInv, [Next]_vars, blob' # blob PROVE Register!Next
    OBVIOUS
  <2>1. PICK d \in Device : Step(d)
    BY DEF Next, Step, vars
  <2>2. PutAccepted(d) \/ PutAnswerLost(d)
    BY <2>1 DEF Step, SyncStep, UIStep, Begin, OpenUpToDate, OpenAndMerge, GiveUp,
                PutConflicts, ApplyMerged, SyncFails, Add, Edit, Remove
  <2>3. blob'.view = MergeGroups(mine[d], blob.view)
    BY <2>2, PutFacts DEF PutAccepted, PutAnswerLost
  <2>4. mine[d] \in View /\ Clean(mine[d])
    BY DEF SyncInv, TypeOK, DeviceInv
  <2> QED
    BY <2>3, <2>4 DEF Register!Next, Register!Merge, Register!View, Register!Group,
                      Register!Clean, Register!MergeGroups, Register!TakeBoth,
                      Register!winsOver, Register!CanonicalAfter, View, Group, Clean,
                      MergeGroups, TakeBoth, winsOver, CanonicalAfter
<1> QED
  BY <1>1, <1>2, SyncInvariant, PTL DEF Spec, BlobIsMergedInto, Register!Spec

-----------------------------------------------------------------------------
(* The store, when the UI does not write it between SyncBytes and            *)
(* ApplyMerged.                                                              *)

LocalInv == \A d \in Device : pc[d] # "idle" => Below(live[d], mine[d])

LEMMA LocalNext ==
    ASSUME ~EditsRace, SyncInv, SyncInv', LocalInv, [Next]_vars
    PROVE  LocalInv'
<1>1. CASE UNCHANGED vars
  BY <1>1 DEF vars, syncVars, LocalInv
<1>2. ASSUME NEW d \in Device, Step(d) PROVE LocalInv'
  <2>1. ASSUME NEW e \in Device, e # d, pc'[e] # "idle" PROVE Below(live'[e], mine'[e])
    <3>1. TypeOK
      BY DEF SyncInv
    <3> QED
      BY <1>2, <2>1, <3>1, OnlyActorMoves DEF LocalInv
  <2>2. ASSUME pc'[d] # "idle" PROVE Below(live'[d], mine'[d])
    <3>1. /\ pc \in [Device -> Label] /\ live[d] \in View /\ mine[d] \in View
          /\ blob.view \in View /\ mine \in [Device -> View] /\ live \in [Device -> View]
      BY DEF SyncInv, TypeOK
    <3>2. pc[d] # "idle" => Below(live[d], mine[d])
      BY DEF LocalInv
    <3>3. Below(mine[d], MergeGroups(mine[d], blob.view))
      BY <3>1, MergeIsAbove
    <3>4. pc[d] # "idle" => Below(live[d], MergeGroups(mine[d], blob.view))
      <4>1. MergeGroups(mine[d], blob.view) \in View
        BY <3>1, MergeParts
      <4> QED
        BY <3>1, <3>2, <3>3, <4>1, BelowTransitive
    <3>5. CASE Begin(d)
      <4>1. live'[d] = live[d] /\ mine'[d] = live[d]
        BY <3>1, <3>5 DEF Begin
      <4> QED
        BY <3>1, <4>1, BelowReflexive
    <3>6. CASE OpenUpToDate(d)
      <4>1. /\ pc[d] = "open" /\ live'[d] = live[d]
            /\ mine'[d] = MergeGroups(mine[d], blob.view)
        BY <3>1, <3>6 DEF OpenUpToDate, AlreadyMerged
      <4> QED
        BY <3>4, <4>1
    <3>7. CASE OpenAndMerge(d)
      <4>1. /\ pc[d] = "open" /\ live'[d] = live[d]
            /\ mine'[d] = mine[d] \/ mine'[d] = MergeGroups(mine[d], blob.view)
        BY <3>1, <3>7 DEF OpenAndMerge
      <4> QED
        BY <3>2, <3>4, <4>1
    <3>8. CASE PutAccepted(d) \/ PutConflicts(d)
      <4>1. pc[d] = "put" /\ live'[d] = live[d] /\ mine'[d] = mine[d]
        BY <3>8 DEF PutAccepted, PutConflicts
      <4> QED
        BY <3>2, <4>1
    <3>9. CASE GiveUp(d) \/ ApplyMerged(d) \/ SyncFails(d) \/ PutAnswerLost(d)
      <4>1. pc'[d] = "idle"
        BY <3>1, <3>9 DEF GiveUp, ApplyMerged, SyncFails, PutAnswerLost, Return, Goto
      <4> QED
        BY <2>2, <4>1
    <3>10. CASE UIStep(d)
      <4>1. pc[d] = "idle" /\ pc' = pc
        BY <3>10 DEF UIStep, Add, Edit, Remove, MayEdit, syncVars
      <4> QED
        BY <2>2, <4>1
    <3> QED
      BY <1>2, <3>5, <3>6, <3>7, <3>8, <3>9, <3>10 DEF Step, SyncStep
  <2> QED
    BY <2>1, <2>2 DEF LocalInv
<1> QED
  BY <1>1, <1>2 DEF Next, Step

LEMMA LocalInvariant == ASSUME ~EditsRace PROVE Spec => []LocalInv
<1>1. Init => LocalInv
  BY DEF Init, LocalInv
<1>2. SyncInv /\ SyncInv' /\ LocalInv /\ [Next]_vars => LocalInv'
  BY LocalNext
<1> QED
  BY <1>1, <1>2, SyncInvariant, PTL DEF Spec

\* As long as the UI does not write the store during a sync, ApplyMerged takes
\* nothing from it, whatever the other devices and the network do.
THEOREM ApplyKeeps == ASSUME ~EditsRace PROVE Spec => ApplyKeepsLocal
<1>1. SyncInv /\ LocalInv =>
         [\A d \in Device : ApplyMerged(d) => Below(live[d], live'[d])]_vars
  <2> SUFFICES ASSUME SyncInv, LocalInv, NEW d \in Device, ApplyMerged(d)
               PROVE  Below(live[d], live'[d])
    OBVIOUS
  <2>1. live'[d] = mine[d]
    BY DEF ApplyMerged, SyncInv, TypeOK
  <2> QED
    BY <2>1 DEF LocalInv, ApplyMerged
<1> QED
  BY <1>1, SyncInvariant, LocalInvariant, PTL DEF Spec, ApplyKeepsLocal

\* Under the same condition a group deleted on a device never comes back there:
\* Add gives out fresh ids, Edit needs a live group, and a merge keeps tombstones.
THEOREM DeletedStays == ASSUME ~EditsRace PROVE Spec => DeletedStaysDeleted
<1> DEFINE Kept == \A d \in Device : \A i \in live[d].deleted :
                     i \in live'[d].deleted /\ live'[d].groups[i] = NoGroup
<1>1. SyncInv /\ SyncInv' /\ LocalInv /\ [Next]_vars => [Kept]_vars
  <2> SUFFICES ASSUME SyncInv, SyncInv', LocalInv, NEW c \in Device, Step(c),
                      NEW d \in Device, NEW i \in live[d].deleted
               PROVE  i \in live'[d].deleted
    BY DEF Next, Step, SyncInv, DeviceInv, Clean
  <2>1. /\ live \in [Device -> View] /\ live[d] \in View /\ Clean(live[d])
        /\ Mentions(live[d]) \subseteq used /\ i \in Id
    BY ViewParts DEF SyncInv, TypeOK, DeviceInv
  <2>2. CASE c # d
    <3>1. TypeOK
      BY DEF SyncInv
    <3> QED
      BY <2>2, <3>1, OnlyActorMoves
  <2>3. CASE c = d /\ ApplyMerged(d)
    <3>1. live'[d] = mine[d] /\ pc[d] # "idle"
      BY <2>1, <2>3 DEF ApplyMerged
    <3> QED
      BY <3>1 DEF LocalInv, Below
  <2>4. CASE c = d /\ UIStep(d)
    <3>1. ASSUME NEW j \in Id, NEW g \in Group, Add(d, j, g) PROVE i \in live'[d].deleted
      <4>1. i # j
        BY <2>1, <3>1 DEF Add, Mentions
      <4>2. live'[d].deleted = live[d].deleted \ {j}
        BY <2>1, <3>1 DEF Add
      <4> QED
        BY <4>1, <4>2
    <3>2. ASSUME NEW j \in Id, NEW g \in Group, Edit(d, j, g) PROVE i \in live'[d].deleted
      <4>1. live'[d] = [live[d] EXCEPT !.groups[j] = g]
        BY <2>1, <3>2 DEF Edit
      <4>2. live'[d].deleted = live[d].deleted
        BY <2>1, <4>1 DEF View
      <4> QED
        BY <4>2
    <3>3. ASSUME NEW j \in Id, Remove(d, j) PROVE i \in live'[d].deleted
      <4>1. live'[d].deleted = live[d].deleted \cup {j}
        BY <2>1, <3>3 DEF Remove
      <4> QED
        BY <4>1
    <3> QED
      BY <2>4, <3>1, <3>2, <3>3 DEF UIStep
  <2>5. CASE c = d /\ ~ApplyMerged(d) /\ ~UIStep(d)
    <3>1. live' = live
      BY <2>5 DEF Step, SyncStep, Begin, OpenUpToDate, OpenAndMerge, GiveUp, PutAccepted,
                  PutConflicts, SyncFails, PutAnswerLost
    <3> QED
      BY <3>1
  <2> QED
    BY <2>2, <2>3, <2>4, <2>5
<1>2. Spec => [][Kept]_vars
  BY <1>1, SyncInvariant, LocalInvariant, PTL DEF Spec
<1> QED
  BY <1>2 DEF DeletedStaysDeleted

=============================================================================
