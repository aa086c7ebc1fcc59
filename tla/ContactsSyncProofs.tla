------------------------- MODULE ContactsSyncProofs -------------------------
(***************************************************************************)
(* Proofs about ContactsSync, for every set of devices, every finite set   *)
(* of aliases, every compaction threshold and plan limit.                  *)
(*                                                                         *)
(* Three invariants carry them.  VersionInv holds whatever fails, crashes  *)
(* or overlaps and gives the properties of compaction.  EditInv says that  *)
(* a pass keeps the local edits it loaded.  LogInv says which prefix of    *)
(* the log the shadow, the working set and the snapshot stand for at each  *)
(* step of a pass; it needs that no call fails and that no compaction      *)
(* falls inside another device's pass.                                     *)
(***************************************************************************)
EXTENDS ContactsSync, FiniteSetTheorems, WellFoundedInduction, TLAPS

-----------------------------------------------------------------------------
(* The invariants.                                                         *)

\* Positions and snapshot versions: a recorded version means a position at or
\* past that snapshot's through-seq, on disk and in the pass.
Covered(p) ==
    /\ p.ver <= snap.ver
    /\ p.ver = snap.ver => p.seq >= snap.through
    /\ p.seq <= Len(log)

DeviceVersions(d) ==
    /\ Covered(pos[d])
    /\ Covered(st[d])
    /\ remote[d].ver <= snap.ver
    /\ remote[d].ver = snap.ver => remote[d].through = snap.through
    /\ remote[d].through <= Len(log)
    /\ remote[d].max <= Len(log)
    /\ pc[d] = "gap" => /\ st[d].seq < first[d]
                        /\ first[d] + Cardinality(Pending(d)) - 1 <= Len(log)
                        /\ Pending(d) # {}

VersionInv ==
    /\ snap.through <= Len(log)
    /\ snap.ver = 0 => snap.through = 0
    /\ \A d \in Device : DeviceVersions(d)

EditInv ==
    \A d \in Device :
        /\ HoldsCopy(d) => local[d] = live[d]
        /\ pc[d] \in {"gap", "save"} =>
              \A a \in Pending(d) : base[d][a] = local[d][a]

\* List m stands for some prefix of the log between lo and hi.
Covers(ops, m, lo, hi) == \E n \in lo..hi : Outcome(ops, m, n)

PassInv(d) ==
    /\ Covers(log, shadow[d], pos[d].seq, Len(log))
    /\ ~hasShadow[d] => pos[d].seq = 0
    /\ pc[d] # "idle" => pos[d].seq <= st[d].seq
    /\ pc[d] = "positions" /\ ~hasShadow[d] => st[d].seq = 0
    /\ ReadsLog(d) => /\ remote[d].ver = snap.ver
                      /\ remote[d].through = snap.through
    /\ pc[d] \in {"load", "bootstrap"} =>
          /\ st[d] = pos[d]
          /\ Covers(log, shadow[d], st[d].seq, remote[d].max)
    /\ pc[d] = "bootstrap" => base[d] = shadow[d]
    /\ pc[d] \in {"pull", "push", "gap"} => snap.through <= st[d].seq
    /\ pc[d] = "pull" => Covers(log, base[d], st[d].seq, Len(log))
    /\ pc[d] = "pull" /\ remote[d].max <= st[d].seq => Outcome(log, base[d], st[d].seq)
    /\ pc[d] \in {"push", "save", "shadow", "compact"} => Outcome(log, base[d], st[d].seq)
    /\ pc[d] = "gap" =>
          LET last == first[d] + Cardinality(Pending(d)) - 1 IN
          /\ \A a \in Alias \ Pending(d) : Latest(log, a, st[d].seq, base[d][a])
          /\ \A a \in Pending(d) : Latest(log, a, last, base[d][a])
          /\ \A i \in first[d]..last : log[i].id \in Pending(d)
    /\ pc[d] = "compact" => /\ shadow[d] = base[d]
                            /\ hasShadow[d]
    /\ pc[d] = "positions" => Covers(log, shadow[d], st[d].seq, Len(log))

LogInv ==
    /\ SnapshotIsTruncatedLog
    /\ \A d \in Device : PassInv(d)

-----------------------------------------------------------------------------
(* The operators on the log.                                               *)

\* A nonempty set of naturals has a least element.
LEMMA LeastNatural ==
    ASSUME NEW T \in SUBSET Nat, T # {}
    PROVE  \E x \in T : \A y \in T : x <= y
<1> DEFINE R == OpToRel(<, Nat)
<1>1. IsWellFoundedOn(R, Nat)
  BY NatLessThanWellFounded
<1>2. \A x, y \in Nat : y < x => <<y, x>> \in R
  BY DEF OpToRel
<1> HIDE DEF R
<1>3. PICK x \in T : \A y \in T : ~(<<y, x>> \in R)
  BY <1>1, WFMin
<1>4. \A y \in T : ~(y < x)
  BY <1>2, <1>3
<1> QED
  BY <1>4

\* LastOp finds the last op about an alias, if there is one.
LEMMA LastOpIsLast ==
    ASSUME NEW ops, NEW a, NEW lo \in Nat, NEW hi \in Nat, Touches(ops, a, lo, hi)
    PROVE  /\ LastOp(ops, a, lo, hi) \in (lo + 1)..hi
           /\ ops[LastOp(ops, a, lo, hi)].id = a
           /\ \A j \in (LastOp(ops, a, lo, hi) + 1)..hi : ops[j].id # a
<1> DEFINE T == {k \in Nat : /\ hi - k \in (lo + 1)..hi
                             /\ ops[hi - k].id = a}
<1>1. PICK i \in (lo + 1)..hi : ops[i].id = a
  BY DEF Touches
<1>2. hi - i \in T
  <2>1. hi - i \in Nat /\ hi - (hi - i) = i
    OBVIOUS
  <2> QED
    BY <1>1, <2>1
<1>3. PICK k \in T : \A y \in T : k <= y
  BY <1>2, LeastNatural
<1>4. ASSUME NEW j \in (hi - k + 1)..hi, ops[j].id = a
      PROVE  FALSE
  <2>1. k \in Nat /\ hi - j \in Nat /\ hi - (hi - j) = j /\ hi - j < k
    BY <1>3
  <2>2. j \in (lo + 1)..hi
    BY <1>3
  <2>3. hi - j \in T
    BY <2>1, <2>2, <1>4
  <2> QED
    BY <2>1, <2>3, <1>3
<1>5. \E n \in (lo + 1)..hi : /\ ops[n].id = a
                              /\ \A j \in (n + 1)..hi : ops[j].id # a
  BY <1>3, <1>4
<1> HIDE DEF T
<1> QED
  BY <1>5 DEF LastOp

\* Applying the ops after lo to a list that already stands for a prefix reaching
\* lo or further gives the outcome of the whole prefix: replay is idempotent.
LEMMA ApplyReachesOutcome ==
    ASSUME NEW ops, NEW m, NEW skip, NEW lo \in Nat, NEW hi \in Nat, NEW n \in lo..hi,
           NEW a \in Alias, a \notin skip, Latest(ops, a, n, m[a])
    PROVE  Latest(ops, a, hi, applyOps(ops, m, lo, hi, skip)[a])
<1>1. CASE Touches(ops, a, lo, hi)
  <2>1. applyOps(ops, m, lo, hi, skip)[a] = ops[LastOp(ops, a, lo, hi)].val
    BY <1>1 DEF applyOps
  <2>2. LastOp(ops, a, lo, hi) \in 1..hi
    BY <1>1, LastOpIsLast
  <2> QED
    BY <1>1, <2>1, <2>2, LastOpIsLast DEF Latest
<1>2. CASE ~Touches(ops, a, lo, hi)
  <2>1. applyOps(ops, m, lo, hi, skip)[a] = m[a]
    BY <1>2 DEF applyOps
  <2>2. \A j \in (n + 1)..hi : ops[j].id # a
    BY <1>2 DEF Touches
  <2>3. CASE m[a] = Absent /\ \A i \in 1..n : ops[i].id # a
    BY <2>1, <2>2, <2>3 DEF Latest
  <2>4. CASE \E i \in 1..n : /\ ops[i].id = a
                             /\ ops[i].val = m[a]
                             /\ \A j \in (i + 1)..n : ops[j].id # a
    <3>1. PICK i \in 1..n : /\ ops[i].id = a
                            /\ ops[i].val = m[a]
                            /\ \A j \in (i + 1)..n : ops[j].id # a
      BY <2>4
    <3>2. i \in 1..hi /\ \A j \in (i + 1)..hi : ops[j].id # a
      BY <3>1, <2>2
    <3> QED
      BY <2>1, <3>1, <3>2 DEF Latest
  <2> QED
    BY <2>3, <2>4 DEF Latest
<1> QED
  BY <1>1, <1>2

\* The aliases a loop skips keep their value.
LEMMA ApplySkips ==
    ASSUME NEW ops, NEW m, NEW skip, NEW lo, NEW hi, NEW a \in Alias, a \in skip
    PROVE  applyOps(ops, m, lo, hi, skip)[a] = m[a]
BY DEF applyOps

\* A list stays a list when ops are applied to it.
LEMMA ApplyType ==
    ASSUME NEW ops \in Seq(Op), NEW m \in ContactMap, NEW skip, NEW lo \in Nat,
           NEW hi \in 0..Len(ops)
    PROVE  applyOps(ops, m, lo, hi, skip) \in ContactMap
<1>1. ASSUME NEW a \in Alias, Touches(ops, a, lo, hi)
      PROVE  ops[LastOp(ops, a, lo, hi)].val \in Contact \cup {Absent}
  <2>1. LastOp(ops, a, lo, hi) \in 1..Len(ops)
    BY <1>1, LastOpIsLast
  <2>2. ops[LastOp(ops, a, lo, hi)] \in Op
    BY <2>1
  <2> QED
    BY <2>2 DEF Op
<1>2. \A a \in Alias : m[a] \in Contact \cup {Absent}
  BY DEF ContactMap
<1> QED
  BY <1>1, <1>2 DEF applyOps, ContactMap

\* Appending ops does not change the outcome of an earlier prefix.
LEMMA LatestStable ==
    ASSUME NEW ops \in Seq(Op), NEW b \in Seq(Op), NEW a, NEW n \in 0..Len(ops), NEW v,
           Latest(ops, a, n, v)
    PROVE  Latest(ops \o b, a, n, v)
<1> DEFINE c == ops \o b
<1>1. n \in Nat /\ \A i \in 1..n : c[i] = ops[i]
  OBVIOUS
<1> HIDE DEF c
<1>2. CASE v = Absent /\ \A i \in 1..n : ops[i].id # a
  <2>1. \A i \in 1..n : c[i].id # a
    BY <1>1, <1>2
  <2> QED
    BY <1>2, <2>1 DEF Latest, c
<1>3. CASE \E i \in 1..n : /\ ops[i].id = a
                           /\ ops[i].val = v
                           /\ \A j \in (i + 1)..n : ops[j].id # a
  <2>1. PICK i \in 1..n : /\ ops[i].id = a
                          /\ ops[i].val = v
                          /\ \A j \in (i + 1)..n : ops[j].id # a
    BY <1>3
  <2>2. \A j \in (i + 1)..n : j \in 1..n
    BY <1>1
  <2>3. c[i].id = a /\ c[i].val = v /\ \A j \in (i + 1)..n : c[j].id # a
    BY <1>1, <2>1, <2>2
  <2> QED
    BY <2>3 DEF Latest, c
<1> QED
  BY <1>2, <1>3 DEF Latest

\* Ops about other aliases do not change what the log says of an alias.
LEMMA LatestExtends ==
    ASSUME NEW ops, NEW a, NEW n \in Nat, NEW k \in Nat, n <= k, NEW v,
           Latest(ops, a, n, v), \A j \in (n + 1)..k : ops[j].id # a
    PROVE  Latest(ops, a, k, v)
<1>1. CASE v = Absent /\ \A i \in 1..n : ops[i].id # a
  BY <1>1 DEF Latest
<1>2. CASE \E i \in 1..n : /\ ops[i].id = a
                           /\ ops[i].val = v
                           /\ \A j \in (i + 1)..n : ops[j].id # a
  <2>1. PICK i \in 1..n : /\ ops[i].id = a
                          /\ ops[i].val = v
                          /\ \A j \in (i + 1)..n : ops[j].id # a
    BY <1>2
  <2>2. i \in 1..k /\ \A j \in (i + 1)..k : ops[j].id # a
    BY <2>1
  <2> QED
    BY <2>1, <2>2 DEF Latest
<1> QED
  BY <1>1, <1>2 DEF Latest

\* A batch carries one op for each of its ids, with the value of the list.
LEMMA BatchFacts ==
    ASSUME NEW ids \in SUBSET Alias, NEW list \in ContactMap
    PROVE  /\ Cardinality(ids) \in Nat
           /\ ids # {} => Cardinality(ids) > 0
           /\ Batch(ids, list) \in Seq(Op)
           /\ Len(Batch(ids, list)) = Cardinality(ids)
           /\ \A i \in 1..Cardinality(ids) :
                /\ Batch(ids, list)[i].id \in ids
                /\ Batch(ids, list)[i].val = list[Batch(ids, list)[i].id]
           /\ \A a \in ids : \E i \in 1..Cardinality(ids) :
                /\ Batch(ids, list)[i].id = a
                /\ \A j \in 1..Cardinality(ids) : j # i => Batch(ids, list)[j].id # a
<1> DEFINE n == Cardinality(ids)
           f == BatchOrder(ids)
<1>1. IsFiniteSet(ids)
  BY FS_Subset, ConstantsAssumption
<1>2. n \in Nat /\ (ids # {} => n > 0)
  BY <1>1, FS_CardinalityType, FS_EmptySet
<1>3. f \in Bijection(1..n, ids)
  <2>1. Bijection(1..n, ids) # {}
    BY <1>1, FS_CardinalityType DEF ExistsBijection
  <2> QED
    BY <2>1 DEF BatchOrder
<1>4. /\ f \in [1..n -> ids]
      /\ \A a \in ids : \E i \in 1..n : f[i] = a
      /\ \A i, j \in 1..n : f[i] = f[j] => i = j
  BY <1>3 DEF Bijection, Injection, Surjection, IsInjective
<1>5. Batch(ids, list) = [i \in 1..n |-> [id |-> f[i], val |-> list[f[i]]]]
  BY DEF Batch
<1> HIDE DEF n, f
<1>6. \A i \in 1..n : [id |-> f[i], val |-> list[f[i]]] \in Op
  BY <1>4 DEF Op, ContactMap
<1>7. Batch(ids, list) \in Seq(Op) /\ Len(Batch(ids, list)) = n
  BY <1>2, <1>5, <1>6
<1>8. \A i \in 1..n : Batch(ids, list)[i].id = f[i] /\ Batch(ids, list)[i].val = list[f[i]]
  BY <1>5
<1>9. \A a \in ids : \E i \in 1..n :
         /\ Batch(ids, list)[i].id = a
         /\ \A j \in 1..n : j # i => Batch(ids, list)[j].id # a
  BY <1>4, <1>8
<1>10. \A i \in 1..n : /\ Batch(ids, list)[i].id \in ids
                       /\ Batch(ids, list)[i].val = list[Batch(ids, list)[i].id]
  BY <1>4, <1>8
<1> QED
  BY <1>2, <1>7, <1>9, <1>10 DEF n

-----------------------------------------------------------------------------
(* Type correctness.  Gap computes a position from the range its append was *)
(* given, so that VersionInv is needed for it.                              *)

LEMMA ListTypes ==
    /\ Empty \in ContactMap
    /\ \A m, list \in ContactMap, ids \in SUBSET Alias : applyLocal(m, ids, list) \in ContactMap
BY DEF Empty, ContactMap, applyLocal

\* Updating one field of a device's position.
LEMMA PositionUpdate ==
    ASSUME NEW f \in [Device -> [seq : Nat, ver : Nat]], NEW d \in Device, NEW n \in Nat
    PROVE  /\ [f EXCEPT ![d].seq = n] \in [Device -> [seq : Nat, ver : Nat]]
           /\ [f EXCEPT ![d].ver = n] \in [Device -> [seq : Nat, ver : Nat]]
<1>1. /\ [f[d] EXCEPT !.seq = n] \in [seq : Nat, ver : Nat]
      /\ [f[d] EXCEPT !.ver = n] \in [seq : Nat, ver : Nat]
  OBVIOUS
<1> QED
  BY <1>1

LEMMA TypeInit == Init => TypeOK
<1> SUFFICES ASSUME Init PROVE TypeOK
  OBVIOUS
<1>1. log \in Seq(Op)
  BY DEF Init
<1> QED
  BY <1>1, ListTypes, ConstantsAssumption DEF Init, TypeOK, NoPos, NoRemote, Label

LEMMA TypeNext == TypeOK /\ VersionInv /\ [Next]_vars => TypeOK'
<1> SUFFICES ASSUME TypeOK, VersionInv, [Next]_vars PROVE TypeOK'
  OBVIOUS
<1> USE DEF TypeOK
<1>1. CASE UNCHANGED vars
  BY <1>1 DEF vars, serverVars, diskVars, passVars
<1>2. ASSUME NEW d \in Device, Begin(d) PROVE TypeOK'
  <2>1. [ver |-> snap.ver, through |-> snap.through, max |-> Len(log)]
           \in [ver : Nat, through : Nat, max : Nat]
    OBVIOUS
  <2>2. remote' \in [Device -> [ver : Nat, through : Nat, max : Nat]]
    BY <1>2, <2>1 DEF Begin
  <2> QED
    BY <1>2, <2>2 DEF Begin, Goto, Label, serverVars, diskVars
<1>3. ASSUME NEW d \in Device, PlanBlocks(d) PROVE TypeOK'
  BY <1>3 DEF PlanBlocks, Goto, Label, serverVars, diskVars
<1>4. ASSUME NEW d \in Device, UpToDate(d) PROVE TypeOK'
  BY <1>4 DEF UpToDate, Goto, Label, serverVars, diskVars
<1>5. ASSUME NEW d \in Device, LoadLocal(d) PROVE TypeOK'
  BY <1>5 DEF LoadLocal, Goto, Label, serverVars, diskVars
<1>6. ASSUME NEW d \in Device, OpenSnapshot(d) PROVE TypeOK'
  BY <1>6 DEF OpenSnapshot, Goto, Label, serverVars, diskVars
<1>7. ASSUME NEW d \in Device, RecordVersion(d) PROVE TypeOK'
  <2>1. st' = [st EXCEPT ![d].ver = remote[d].ver] /\ remote[d].ver \in Nat
    BY <1>7 DEF RecordVersion
  <2>2. st' \in [Device -> [seq : Nat, ver : Nat]]
    BY <2>1, PositionUpdate
  <2> QED
    BY <1>7, <2>2 DEF RecordVersion, Goto, Label, serverVars, diskVars
<1>8. ASSUME NEW d \in Device, Pull(d) PROVE TypeOK'
  <2> DEFINE lo == OldestSince(st[d].seq)
  <2>1. lo \in Nat /\ Len(log) \in Nat
    BY DEF OldestSince
  <2>2. applyOps(log, base[d], lo, Len(log), {}) \in ContactMap
    BY <2>1, ApplyType
  <2>3. base' \in [Device -> ContactMap] /\ st' \in [Device -> [seq : Nat, ver : Nat]]
    <3>1. CASE remote[d].max > st[d].seq
      <4>1. /\ base' = [base EXCEPT ![d] = applyOps(log, @, lo, Len(log), {})]
            /\ st' = [st EXCEPT ![d].seq = IF Len(log) > lo THEN Len(log) ELSE st[d].seq]
        BY <1>8, <3>1 DEF Pull
      <4> HIDE DEF lo
      <4>2. (IF Len(log) > lo THEN Len(log) ELSE st[d].seq) \in Nat
        BY <2>1
      <4>3. st' \in [Device -> [seq : Nat, ver : Nat]]
        BY <4>1, <4>2, PositionUpdate
      <4>4. base' \in [Device -> ContactMap]
        BY <4>1, <2>2
      <4> QED
        BY <4>3, <4>4
    <3>2. CASE ~(remote[d].max > st[d].seq)
      BY <1>8, <3>2 DEF Pull
    <3> QED
      BY <3>1, <3>2
  <2> QED
    BY <1>8, <2>3 DEF Pull, Goto, Label, serverVars, diskVars
<1>9. ASSUME NEW d \in Device, Push(d) PROVE TypeOK'
  <2>1. Pending(d) \in SUBSET Alias
    BY DEF Pending, diffContacts
  <2>2. Batch(Pending(d), local[d]) \in Seq(Op)
    BY <2>1, BatchFacts
  <2>3. log' \in Seq(Op) /\ base' \in [Device -> ContactMap] /\ first' \in [Device -> Nat]
    <3>1. CASE Pending(d) # {}
      <4>1. /\ log' = log \o Batch(Pending(d), local[d])
            /\ base' = [base EXCEPT ![d] = applyLocal(@, Pending(d), local[d])]
            /\ first' = [first EXCEPT ![d] = Len(log) + 1]
        BY <1>9, <3>1 DEF Push, AppendOps
      <4>2. log' \in Seq(Op)
        BY <4>1, <2>2
      <4>3. base' \in [Device -> ContactMap]
        BY <4>1, <2>1, ListTypes
      <4>4. Len(log) + 1 \in Nat
        OBVIOUS
      <4>5. first' \in [Device -> Nat]
        BY <4>1, <4>4
      <4> QED
        BY <4>2, <4>3, <4>5
    <3>2. CASE Pending(d) = {}
      BY <1>9, <3>2 DEF Push
    <3> QED
      BY <3>1, <3>2
  <2>6. pc' \in [Device -> Label]
    <3>1. pc' = [pc EXCEPT ![d] = "gap"] \/ pc' = [pc EXCEPT ![d] = "save"]
      BY <1>9 DEF Push, Goto
    <3> QED
      BY <3>1 DEF Label
  <2> QED
    BY <1>9, <2>3, <2>6 DEF Push, diskVars
<1>10. ASSUME NEW d \in Device, Gap(d) PROVE TypeOK'
  <2>1. Pending(d) \in SUBSET Alias
    BY DEF Pending, diffContacts
  <2>2. Cardinality(Pending(d)) \in Nat
    BY <2>1, BatchFacts
  <2>3. /\ first[d] - 1 \in 0..Len(log)
        /\ first[d] + Cardinality(Pending(d)) - 1 \in Nat
    <3>1. /\ st[d].seq < first[d]
          /\ first[d] + Cardinality(Pending(d)) - 1 <= Len(log)
      BY <1>10 DEF Gap, VersionInv, DeviceVersions
    <3>2. first[d] \in Nat /\ st[d].seq \in Nat /\ Len(log) \in Nat
      OBVIOUS
    <3> HIDE DEF TypeOK
    <3> QED
      BY <3>1, <3>2, <2>2
  <2>4. applyOps(log, base[d], OldestSince(st[d].seq), first[d] - 1, Pending(d)) \in ContactMap
    <3>1. OldestSince(st[d].seq) \in Nat
      BY DEF OldestSince
    <3> QED
      BY <2>3, <3>1, ApplyType
  <2>5. base' \in [Device -> ContactMap]
    BY <1>10, <2>4 DEF Gap
  <2>6. st' \in [Device -> [seq : Nat, ver : Nat]]
    <3>1. st' = [st EXCEPT ![d].seq = first[d] + Cardinality(Pending(d)) - 1]
      BY <1>10 DEF Gap
    <3> QED
      BY <2>3, <3>1, PositionUpdate
  <2> QED
    BY <1>10, <2>5, <2>6 DEF Gap, Goto, Label, serverVars, diskVars
<1>11. ASSUME NEW d \in Device, SaveStore(d) PROVE TypeOK'
  BY <1>11 DEF SaveStore, Goto, Label, serverVars
<1>12. ASSUME NEW d \in Device, SaveShadow(d) PROVE TypeOK'
  BY <1>12 DEF SaveShadow, Goto, Label, serverVars
<1>13. ASSUME NEW d \in Device, Compact(d) PROVE TypeOK'
  <2>1. /\ snap' \in [ver : Nat, through : Nat, contacts : ContactMap]
        /\ st' \in [Device -> [seq : Nat, ver : Nat]]
    <3>1. CASE TailIsLong(d) /\ st[d].ver = snap.ver
      <4>1. /\ snap' = [ver |-> snap.ver + 1, through |-> st[d].seq, contacts |-> base[d]]
            /\ st' = [st EXCEPT ![d].ver = snap.ver + 1]
        BY <1>13, <3>1 DEF Compact, CompactOps
      <4>2. snap.ver + 1 \in Nat /\ st[d].seq \in Nat /\ base[d] \in ContactMap
        OBVIOUS
      <4>3. st' \in [Device -> [seq : Nat, ver : Nat]]
        BY <4>1, <4>2, PositionUpdate
      <4> QED
        BY <4>1, <4>2, <4>3
    <3>2. CASE ~(TailIsLong(d) /\ st[d].ver = snap.ver)
      BY <1>13, <3>2 DEF Compact
    <3> QED
      BY <3>1, <3>2
  <2> QED
    BY <1>13, <2>1 DEF Compact, Goto, Label, diskVars
<1>14. ASSUME NEW d \in Device, SavePositions(d) PROVE TypeOK'
  BY <1>14, ListTypes DEF SavePositions, ForgetPass, Goto, Label, serverVars, NoPos, NoRemote
<1>15. ASSUME NEW d \in Device, NEW a \in Alias, NEW c \in Contact \cup {Absent},
              Edit(d, a, c)
       PROVE  TypeOK'
  <2>1. live' \in [Device -> ContactMap]
    BY <1>15 DEF Edit, ContactMap
  <2>2. edits' \in 0..MaxEdits
    <3>1. edits \in Nat /\ edits < MaxEdits /\ edits' = edits + 1
      BY <1>15, ConstantsAssumption DEF Edit
    <3> HIDE DEF TypeOK
    <3> QED
      BY <3>1, ConstantsAssumption
  <2> QED
    BY <1>15, <2>1, <2>2 DEF Edit, serverVars, passVars
<1>16. Fault => faults' \in 0..MaxFaults
  BY ConstantsAssumption DEF Fault
<1>17. ASSUME NEW d \in Device, CallFails(d) PROVE TypeOK'
  BY <1>16, <1>17 DEF CallFails, Goto, Label, serverVars, diskVars
<1>18. ASSUME NEW d \in Device, DecryptFails(d) PROVE TypeOK'
  <2>1. OldestSince(st[d].seq) \in Nat
    BY DEF OldestSince
  <2>2. st' \in [Device -> [seq : Nat, ver : Nat]]
    <3>1. PICK n \in (OldestSince(st[d].seq) + 1)..(Len(log) - 1) :
             st' = [st EXCEPT ![d].seq = n]
      BY <1>18 DEF DecryptFails
    <3>2. n \in Nat
      <4>1. Len(log) \in Nat
        OBVIOUS
      <4> HIDE DEF TypeOK
      <4> QED
        BY <2>1, <4>1
    <3> QED
      BY <3>1, <3>2, PositionUpdate
  <2> QED
    BY <1>16, <1>18, <2>2 DEF DecryptFails, Goto, Label, serverVars, diskVars
<1>19. ASSUME NEW d \in Device, AppendAnswerLost(d) PROVE TypeOK'
  <2>1. Pending(d) \in SUBSET Alias
    BY DEF Pending, diffContacts
  <2>2. log' \in Seq(Op)
    <3>1. Batch(Pending(d), local[d]) \in Seq(Op)
      BY <2>1, BatchFacts
    <3>2. log' = log \o Batch(Pending(d), local[d])
      BY <1>19 DEF AppendAnswerLost, AppendOps
    <3> QED
      BY <3>1, <3>2
  <2> QED
    BY <1>16, <1>19, <2>2 DEF AppendAnswerLost, Goto, Label, diskVars
<1>20. ASSUME NEW d \in Device, CompactAnswerLost(d) PROVE TypeOK'
  <2>1. snap' \in [ver : Nat, through : Nat, contacts : ContactMap]
    <3>1. snap' = [ver |-> snap.ver + 1, through |-> st[d].seq, contacts |-> base[d]]
      BY <1>20 DEF CompactAnswerLost, CompactOps
    <3>2. snap.ver + 1 \in Nat /\ st[d].seq \in Nat /\ base[d] \in ContactMap
      OBVIOUS
    <3> QED
      BY <3>1, <3>2
  <2>2. pc' \in [Device -> Label]
    BY <1>20 DEF CompactAnswerLost, Goto, Label
  <2> QED
    BY <1>16, <1>20, <2>1, <2>2 DEF CompactAnswerLost, diskVars
<1>21. ASSUME NEW d \in Device, Crash(d) PROVE TypeOK'
  BY <1>16, <1>21, ListTypes
  DEF Crash, ForgetPass, Goto, Label, serverVars, diskVars, NoPos, NoRemote
<1>22. ASSUME NEW d \in Device, LogOut(d) PROVE TypeOK'
  BY <1>16, <1>22, ListTypes DEF LogOut, serverVars, passVars, NoPos
<1> QED
  BY <1>1, <1>2, <1>3, <1>4, <1>5, <1>6, <1>7, <1>8, <1>9, <1>10, <1>11, <1>12, <1>13,
     <1>14, <1>15, <1>17, <1>18, <1>19, <1>20, <1>21, <1>22
  DEF Next, PassStep, Environment

-----------------------------------------------------------------------------
(* A step of one device leaves the state of the others alone.              *)

Unmoved(e) ==
    /\ live'[e] = live[e]
    /\ shadow'[e] = shadow[e]
    /\ hasShadow'[e] = hasShadow[e]
    /\ pos'[e] = pos[e]
    /\ pc'[e] = pc[e]
    /\ st'[e] = st[e]
    /\ remote'[e] = remote[e]
    /\ local'[e] = local[e]
    /\ base'[e] = base[e]
    /\ first'[e] = first[e]

LEMMA OnlyActorMoves ==
    ASSUME TypeOK, NEW d \in Device, Begin(d) \/ PassStep(d) \/ Environment(d),
           NEW e \in Device, e # d
    PROVE  Unmoved(e)
<1> USE DEF Unmoved, TypeOK, Goto, serverVars, diskVars, passVars
<1>1. CASE Begin(d)
  BY <1>1 DEF Begin
<1>2. CASE PlanBlocks(d) \/ UpToDate(d) \/ LoadLocal(d) \/ OpenSnapshot(d) \/ RecordVersion(d)
  BY <1>2 DEF PlanBlocks, UpToDate, LoadLocal, OpenSnapshot, RecordVersion
<1>3. CASE Pull(d)
  BY <1>3 DEF Pull
<1>4. CASE Push(d)
  <2>1. /\ UNCHANGED <<live, shadow, hasShadow, pos, st, remote, local>>
        /\ \/ /\ base' = [base EXCEPT ![d] = applyLocal(@, Pending(d), local[d])]
              /\ first' = [first EXCEPT ![d] = Len(log) + 1]
              /\ pc' = [pc EXCEPT ![d] = "gap"]
           \/ /\ UNCHANGED <<base, first>>
              /\ pc' = [pc EXCEPT ![d] = "save"]
    BY <1>4 DEF Push
  <2> QED
    BY <2>1
<1>5. CASE Gap(d)
  BY <1>5 DEF Gap
<1>6. CASE SaveStore(d) \/ SaveShadow(d)
  BY <1>6 DEF SaveStore, SaveShadow
<1>7. CASE Compact(d)
  BY <1>7 DEF Compact
<1>8. CASE SavePositions(d)
  BY <1>8 DEF SavePositions, ForgetPass
<1>9. CASE \E a \in Alias, c \in Contact \cup {Absent} : Edit(d, a, c)
  BY <1>9 DEF Edit
<1>10. CASE CallFails(d) \/ AppendAnswerLost(d) \/ CompactAnswerLost(d)
  BY <1>10 DEF CallFails, AppendAnswerLost, CompactAnswerLost
<1>11. CASE DecryptFails(d)
  BY <1>11 DEF DecryptFails
<1>12. CASE Crash(d)
  BY <1>12 DEF Crash, ForgetPass
<1>13. CASE LogOut(d)
  BY <1>13 DEF LogOut
<1> QED
  BY <1>1, <1>2, <1>3, <1>4, <1>5, <1>6, <1>7, <1>8, <1>9, <1>10, <1>11, <1>12, <1>13
  DEF PassStep, Environment

-----------------------------------------------------------------------------
(* Versions, positions and truncation, in every environment.               *)

LEMMA VersionInit == Init => VersionInv
BY DEF Init, VersionInv, DeviceVersions, Covered, NoPos, NoRemote

\* The append of a pass: the log grows by one op per pending id.
LEMMA AppendFacts ==
    ASSUME TypeOK, NEW d \in Device, AppendOps(d)
    PROVE  /\ Cardinality(Pending(d)) \in Nat
           /\ Pending(d) # {} => Cardinality(Pending(d)) > 0
           /\ Batch(Pending(d), local[d]) \in Seq(Op)
           /\ Len(log') = Len(log) + Cardinality(Pending(d))
           /\ Len(log) \in Nat
<1>1. Pending(d) \in SUBSET Alias /\ local[d] \in ContactMap /\ log \in Seq(Op)
  BY DEF Pending, diffContacts, TypeOK
<1>2. log' = log \o Batch(Pending(d), local[d])
  BY DEF AppendOps
<1> QED
  BY <1>1, <1>2, BatchFacts

\* A device that does not move keeps its facts when the log grows or a newer
\* snapshot appears.
LEMMA OthersKeepVersions ==
    ASSUME TypeOK, TypeOK', VersionInv, NEW e \in Device,
           Unmoved(e),
           Len(log') >= Len(log),
           snap' = snap \/ snap'.ver > snap.ver
    PROVE  DeviceVersions(e)'
<1> USE DEF Unmoved
<1>1. DeviceVersions(e)
  BY DEF VersionInv
<1>2. Pending(e)' = Pending(e)
  BY DEF Pending
<1>3. Len(log) \in Nat /\ Len(log') \in Nat /\ snap.ver \in Nat /\ snap'.ver \in Nat
  <2>1. log \in Seq(Op) /\ snap \in [ver : Nat, through : Nat, contacts : ContactMap]
    BY DEF TypeOK
  <2>2. log' \in Seq(Op) /\ snap' \in [ver : Nat, through : Nat, contacts : ContactMap]
    BY DEF TypeOK
  <2> QED
    BY <2>1, <2>2
<1>4. /\ pos[e] \in [seq : Nat, ver : Nat]
      /\ st[e] \in [seq : Nat, ver : Nat]
      /\ remote[e] \in [ver : Nat, through : Nat, max : Nat]
      /\ first[e] \in Nat
  BY DEF TypeOK
<1>5. pc[e] = "gap" => first[e] + Cardinality(Pending(e)) - 1 <= Len(log')
  <2>1. Cardinality(Pending(e)) \in Nat
    <3>1. Pending(e) \in SUBSET Alias /\ local[e] \in ContactMap
      BY DEF Pending, diffContacts, TypeOK
    <3> QED
      BY <3>1, BatchFacts
  <2> QED
    BY <1>1, <1>3, <1>4, <2>1 DEF DeviceVersions
<1>6. Covered(pos[e])' /\ Covered(st[e])'
  <2>1. Covered(pos[e]) /\ Covered(st[e])
    BY <1>1 DEF DeviceVersions
  <2>2. pos[e].seq <= Len(log') /\ st[e].seq <= Len(log')
    BY <1>3, <1>4, <2>1 DEF Covered
  <2>3. CASE snap' = snap
    BY <2>1, <2>2, <2>3 DEF Covered
  <2>4. CASE snap'.ver > snap.ver
    BY <1>3, <1>4, <2>1, <2>2, <2>4 DEF Covered
  <2> QED
    BY <2>3, <2>4
<1>7. /\ remote[e]'.ver <= snap'.ver
      /\ remote[e]'.ver = snap'.ver => remote[e]'.through = snap'.through
      /\ remote[e]'.through <= Len(log')
      /\ remote[e]'.max <= Len(log')
  <2>1. /\ remote[e].ver <= snap.ver
        /\ remote[e].ver = snap.ver => remote[e].through = snap.through
        /\ remote[e].through <= Len(log)
        /\ remote[e].max <= Len(log)
    BY <1>1 DEF DeviceVersions
  <2>2. remote[e]' = remote[e]
    OBVIOUS
  <2>3. remote[e].ver \in Nat /\ remote[e].through \in Nat /\ remote[e].max \in Nat
    BY <1>4
  <2>4. remote[e].through <= Len(log') /\ remote[e].max <= Len(log')
    BY <1>3, <2>1, <2>3
  <2>5. CASE snap' = snap
    BY <2>1, <2>2, <2>4, <2>5
  <2>6. CASE snap'.ver > snap.ver
    BY <1>3, <2>1, <2>2, <2>3, <2>4, <2>6
  <2> QED
    BY <2>5, <2>6
<1>8. pc[e]' = "gap" => st[e]'.seq < first[e]' /\ Pending(e)' # {}
  BY <1>1, <1>2 DEF DeviceVersions
<1> QED
  BY <1>2, <1>5, <1>6, <1>7, <1>8 DEF DeviceVersions

\* It is enough to look at the server and at the device that moves.
LEMMA VersionStep ==
    ASSUME TypeOK, TypeOK', VersionInv, NEW d \in Device,
           Begin(d) \/ PassStep(d) \/ Environment(d),
           Len(log') >= Len(log),
           snap' = snap \/ (snap'.ver > snap.ver /\ snap'.through <= Len(log)),
           DeviceVersions(d)'
    PROVE  VersionInv'
<1>1. \A e \in Device : DeviceVersions(e)'
  <2> TAKE e \in Device
  <2>1. CASE e = d
    BY <2>1
  <2>2. CASE e # d
    BY <2>2, OnlyActorMoves, OthersKeepVersions
  <2> QED
    BY <2>1, <2>2
<1>2. Len(log) \in Nat /\ Len(log') \in Nat
  <2>1. log \in Seq(Op) /\ log' \in Seq(Op)
    BY DEF TypeOK
  <2> QED
    BY <2>1
<1>3. snap \in [ver : Nat, through : Nat, contacts : ContactMap]
  BY DEF TypeOK
<1>4. snap' \in [ver : Nat, through : Nat, contacts : ContactMap]
  BY DEF TypeOK
<1>5. snap'.through <= Len(log')
  BY <1>2, <1>3, <1>4 DEF VersionInv
<1>6. snap'.ver = 0 => snap'.through = 0
  BY <1>3, <1>4 DEF VersionInv
<1> QED
  BY <1>1, <1>5, <1>6 DEF VersionInv

\* What a device knows of the server stays true when the log grows.
LEMMA AppendKeepsVersions ==
    ASSUME TypeOK, NEW d \in Device, DeviceVersions(d), AppendOps(d),
           UNCHANGED <<snap, pos, st, remote>>
    PROVE  /\ Covered(pos[d])' /\ Covered(st[d])'
           /\ remote[d]'.ver <= snap'.ver
           /\ remote[d]'.ver = snap'.ver => remote[d]'.through = snap'.through
           /\ remote[d]'.through <= Len(log')
           /\ remote[d]'.max <= Len(log')
           /\ Len(log') >= Len(log)
<1>1. /\ pos[d].seq \in Nat /\ st[d].seq \in Nat
      /\ remote[d].through \in Nat /\ remote[d].max \in Nat
  BY DEF TypeOK
<1>2. /\ Cardinality(Pending(d)) \in Nat /\ Len(log) \in Nat
      /\ Len(log') = Len(log) + Cardinality(Pending(d))
  BY AppendFacts
<1>3. /\ pos[d].seq <= Len(log) /\ st[d].seq <= Len(log)
      /\ remote[d].through <= Len(log) /\ remote[d].max <= Len(log)
  BY DEF DeviceVersions, Covered
<1>4. /\ pos[d].seq <= Len(log') /\ st[d].seq <= Len(log')
      /\ remote[d].through <= Len(log') /\ remote[d].max <= Len(log')
      /\ Len(log') >= Len(log)
  BY <1>1, <1>2, <1>3
<1>5. Covered(pos[d])' /\ Covered(st[d])'
  BY <1>4 DEF DeviceVersions, Covered
<1> QED
  BY <1>4, <1>5 DEF DeviceVersions

\* A device whose snapshot was accepted stands on the new version; the others'
\* versions are all older.
LEMMA CompactKeepsVersions ==
    ASSUME TypeOK, NEW d \in Device, DeviceVersions(d),
           snap' = [ver |-> snap.ver + 1, through |-> st[d].seq, contacts |-> base[d]],
           UNCHANGED <<log, pos, remote>>,
           st'[d].seq = st[d].seq,
           st'[d].ver = st[d].ver \/ st'[d].ver = snap.ver + 1,
           pc'[d] = "positions"
    PROVE  DeviceVersions(d)' /\ snap'.ver > snap.ver /\ snap'.through <= Len(log)
<1>1. /\ Len(log) \in Nat /\ snap.ver \in Nat
      /\ pos[d].seq \in Nat /\ pos[d].ver \in Nat
      /\ st[d].seq \in Nat /\ st[d].ver \in Nat
      /\ remote[d].ver \in Nat
  BY DEF TypeOK
<1>2. snap'.ver = snap.ver + 1 /\ snap'.through = st[d].seq
  OBVIOUS
<1>3. /\ pos[d].ver <= snap.ver /\ st[d].ver <= snap.ver /\ remote[d].ver <= snap.ver
      /\ pos[d].seq <= Len(log) /\ st[d].seq <= Len(log)
  BY DEF DeviceVersions, Covered
<1>4. /\ pos[d].ver < snap'.ver /\ st[d].ver < snap'.ver /\ remote[d].ver < snap'.ver
      /\ snap'.ver > snap.ver
  BY <1>1, <1>2, <1>3
<1>5. Covered(pos[d])'
  BY <1>1, <1>2, <1>3, <1>4 DEF Covered
<1>6. Covered(st[d])'
  BY <1>1, <1>2, <1>3, <1>4 DEF Covered
<1>7. /\ remote[d]'.ver <= snap'.ver /\ remote[d]'.ver # snap'.ver
      /\ remote[d]'.through <= Len(log') /\ remote[d]'.max <= Len(log')
  BY <1>1, <1>2, <1>4 DEF DeviceVersions
<1> QED
  BY <1>2, <1>3, <1>4, <1>5, <1>6, <1>7 DEF DeviceVersions

LEMMA VersionNext == TypeOK /\ TypeOK' /\ VersionInv /\ [Next]_vars => VersionInv'
<1> SUFFICES ASSUME TypeOK, TypeOK', VersionInv, [Next]_vars PROVE VersionInv'
  OBVIOUS
<1>1. CASE UNCHANGED vars
  BY <1>1 DEF vars, serverVars, diskVars, passVars, VersionInv, DeviceVersions, Covered, Pending
<1>2. ASSUME NEW d \in Device, Begin(d) \/ PassStep(d) \/ Environment(d)
      PROVE  VersionInv'
  <2>1. /\ DeviceVersions(d)
        /\ snap.through <= Len(log)
        /\ snap.ver = 0 => snap.through = 0
    BY DEF VersionInv
  <2>2. /\ Len(log) \in Nat
        /\ snap.ver \in Nat
        /\ snap.through \in Nat
        /\ pos[d] \in [seq : Nat, ver : Nat]
        /\ st[d] \in [seq : Nat, ver : Nat]
        /\ remote[d] \in [ver : Nat, through : Nat, max : Nat]
        /\ first[d] \in Nat
    BY DEF TypeOK
  <2>3. /\ pos \in [Device -> [seq : Nat, ver : Nat]]
        /\ st \in [Device -> [seq : Nat, ver : Nat]]
        /\ remote \in [Device -> [ver : Nat, through : Nat, max : Nat]]
        /\ first \in [Device -> Nat]
        /\ pc \in [Device -> Label]
    BY DEF TypeOK
  <2> USE DEF Goto, serverVars, diskVars, passVars
  <2>4. CASE Begin(d)
    <3>1. UNCHANGED <<log, snap>> /\ DeviceVersions(d)'
      BY <2>1, <2>2, <2>3, <2>4 DEF DeviceVersions, Covered, Begin, Pending
    <3> QED
      BY <1>2, <3>1, VersionStep, <2>2
  <2>5. CASE PlanBlocks(d) \/ UpToDate(d) \/ LoadLocal(d)
    <3>1. UNCHANGED <<log, snap>> /\ DeviceVersions(d)'
      BY <2>1, <2>2, <2>3, <2>5 DEF DeviceVersions, Covered, PlanBlocks, UpToDate, LoadLocal
    <3> QED
      BY <1>2, <3>1, VersionStep, <2>2
  <2>6. CASE OpenSnapshot(d)
    <3>1. UNCHANGED <<log, snap>> /\ DeviceVersions(d)'
      BY <2>1, <2>2, <2>3, <2>6 DEF DeviceVersions, Covered, OpenSnapshot
    <3> QED
      BY <1>2, <3>1, VersionStep, <2>2
  <2>7. CASE RecordVersion(d)
    <3>1. UNCHANGED <<log, snap>> /\ DeviceVersions(d)'
      BY <2>1, <2>2, <2>3, <2>7 DEF DeviceVersions, Covered, RecordVersion, NeedsSnapshot
    <3> QED
      BY <1>2, <3>1, VersionStep, <2>2
  <2>8. CASE Pull(d)
    <3>1. UNCHANGED <<log, snap>> /\ DeviceVersions(d)'
      <4>1. CASE remote[d].max > st[d].seq /\ Len(log) > OldestSince(st[d].seq)
        <5>1. st'[d].ver = st[d].ver /\ st'[d].seq = Len(log) /\ pc'[d] = "push"
          BY <2>3, <2>8, <4>1 DEF Pull
        <5> QED
          BY <2>1, <2>2, <2>8, <5>1 DEF DeviceVersions, Covered, Pull
      <4>2. CASE ~(remote[d].max > st[d].seq /\ Len(log) > OldestSince(st[d].seq))
        <5>1. st'[d] = st[d] /\ pc'[d] = "push"
          BY <2>2, <2>3, <2>8, <4>2 DEF Pull
        <5> QED
          BY <2>1, <2>2, <2>8, <5>1 DEF DeviceVersions, Covered, Pull
      <4> QED
        BY <4>1, <4>2
    <3> QED
      BY <1>2, <3>1, VersionStep, <2>2
  <2>9. CASE Push(d)
    <3>1. CASE Pending(d) # {}
      <4>1. AppendOps(d)
        BY <2>9, <3>1 DEF Push
      <4>2. /\ first'[d] = Len(log) + 1
            /\ UNCHANGED <<snap, pos, st, remote, shadow, local>>
        BY <2>3, <2>9, <3>1 DEF Push
      <4>3. Pending(d)' = Pending(d)
        BY <4>2 DEF Pending
      <4>4. DeviceVersions(d)'
        <5>1. /\ Cardinality(Pending(d)) \in Nat
              /\ Len(log') = Len(log) + Cardinality(Pending(d))
          BY <4>1, AppendFacts
        <5>2. /\ Covered(pos[d])' /\ Covered(st[d])'
              /\ remote[d]'.ver <= snap'.ver
              /\ remote[d]'.ver = snap'.ver => remote[d]'.through = snap'.through
              /\ remote[d]'.through <= Len(log')
              /\ remote[d]'.max <= Len(log')
          BY <2>1, <4>1, <4>2, AppendKeepsVersions
        <5>3. st[d].seq \in Nat /\ st[d].seq <= Len(log)
          BY <2>1, <2>2 DEF DeviceVersions, Covered
        <5>4. st[d].seq < Len(log) + 1 /\ (Len(log) + 1) + Cardinality(Pending(d)) - 1 <= Len(log')
          <6>1. Len(log) \in Nat
            BY <2>2
          <6> QED
            BY <6>1, <5>1, <5>3
        <5> QED
          BY <3>1, <4>2, <4>3, <5>2, <5>4 DEF DeviceVersions
      <4>5. Len(log') >= Len(log)
        BY <4>1, AppendFacts
      <4> QED
        BY <1>2, <4>2, <4>4, <4>5, VersionStep
    <3>2. CASE Pending(d) = {}
      <4>1. UNCHANGED <<log, snap>> /\ DeviceVersions(d)'
        BY <2>1, <2>2, <2>3, <2>9, <3>2 DEF DeviceVersions, Covered, Push
      <4> QED
        BY <1>2, <4>1, VersionStep, <2>2
    <3> QED
      BY <3>1, <3>2
  <2>10. CASE Gap(d)
    <3>1. Cardinality(Pending(d)) \in Nat /\ Cardinality(Pending(d)) > 0
      <4>1. Pending(d) \in SUBSET Alias /\ local[d] \in ContactMap
        BY DEF Pending, diffContacts, TypeOK
      <4>2. Pending(d) # {}
        BY <2>1, <2>10 DEF Gap, DeviceVersions
      <4> QED
        BY <4>1, <4>2, BatchFacts
    <3>2. UNCHANGED <<log, snap>> /\ DeviceVersions(d)'
      BY <2>1, <2>2, <2>3, <2>10, <3>1 DEF DeviceVersions, Covered, Gap
    <3> QED
      BY <1>2, <3>2, VersionStep, <2>2
  <2>11. CASE SaveStore(d) \/ SaveShadow(d)
    <3>1. UNCHANGED <<log, snap>> /\ DeviceVersions(d)'
      BY <2>1, <2>2, <2>3, <2>11 DEF DeviceVersions, Covered, SaveStore, SaveShadow
    <3> QED
      BY <1>2, <3>1, VersionStep, <2>2
  <2>12. CASE Compact(d)
    <3>1. CASE TailIsLong(d) /\ st[d].ver = snap.ver
      <4>1. /\ snap' = [ver |-> snap.ver + 1, through |-> st[d].seq, contacts |-> base[d]]
            /\ st'[d].ver = snap.ver + 1 /\ st'[d].seq = st[d].seq
            /\ UNCHANGED <<log, pos, remote>>
            /\ pc'[d] = "positions"
        BY <2>3, <2>12, <3>1 DEF Compact, CompactOps
      <4>2. DeviceVersions(d)' /\ snap'.ver > snap.ver /\ snap'.through <= Len(log)
        BY <2>1, <4>1, CompactKeepsVersions
      <4> QED
        BY <1>2, <4>1, <4>2, VersionStep, <2>2
    <3>2. CASE ~(TailIsLong(d) /\ st[d].ver = snap.ver)
      <4>1. UNCHANGED <<log, snap>> /\ DeviceVersions(d)'
        BY <2>1, <2>2, <2>3, <2>12, <3>2 DEF DeviceVersions, Covered, Compact
      <4> QED
        BY <1>2, <4>1, VersionStep, <2>2
    <3> QED
      BY <3>1, <3>2
  <2>13. CASE SavePositions(d) \/ Crash(d)
    <3>1. UNCHANGED <<log, snap>> /\ DeviceVersions(d)'
      BY <2>1, <2>2, <2>3, <2>13 DEF DeviceVersions, Covered, SavePositions, Crash, ForgetPass, NoPos, NoRemote
    <3> QED
      BY <1>2, <3>1, VersionStep, <2>2
  <2>14. CASE \E a \in Alias, c \in Contact \cup {Absent} : Edit(d, a, c)
    <3>1. UNCHANGED <<log, snap>> /\ DeviceVersions(d)'
      BY <2>1, <2>14 DEF DeviceVersions, Covered, Edit, Pending
    <3> QED
      BY <1>2, <3>1, VersionStep, <2>2
  <2>15. CASE CallFails(d)
    <3>1. UNCHANGED <<log, snap>> /\ DeviceVersions(d)'
      BY <2>1, <2>3, <2>15 DEF DeviceVersions, Covered, CallFails
    <3> QED
      BY <1>2, <3>1, VersionStep, <2>2
  <2>16. CASE DecryptFails(d)
    <3>1. PICK n \in (OldestSince(st[d].seq) + 1)..(Len(log) - 1) :
             st' = [st EXCEPT ![d].seq = n]
      BY <2>16 DEF DecryptFails
    <3>2. n \in Nat /\ n >= st[d].seq /\ n <= Len(log)
      <4>1. PICK low : low = OldestSince(st[d].seq)
        OBVIOUS
      <4>2. low \in Nat /\ low >= st[d].seq /\ st[d].seq \in Nat
        BY <2>2, <4>1 DEF OldestSince
      <4>3. n \in (low + 1)..(Len(log) - 1) /\ Len(log) \in Nat
        BY <2>2, <4>1
      <4> QED
        BY <4>2, <4>3
    <3>3. UNCHANGED <<log, snap>> /\ DeviceVersions(d)'
      BY <2>1, <2>2, <2>3, <2>16, <3>1, <3>2 DEF DeviceVersions, Covered, DecryptFails
    <3> QED
      BY <1>2, <3>3, VersionStep, <2>2
  <2>17. CASE AppendAnswerLost(d)
    <3>1. /\ AppendOps(d)
          /\ UNCHANGED <<snap, pos, st, remote>>
          /\ pc'[d] = "positions"
      BY <2>3, <2>17 DEF AppendAnswerLost
    <3>2. DeviceVersions(d)' /\ Len(log') >= Len(log)
      BY <2>1, <3>1, AppendKeepsVersions DEF DeviceVersions
    <3> QED
      BY <1>2, <3>1, <3>2, VersionStep
  <2>18. CASE CompactAnswerLost(d)
    <3>1. /\ st[d].ver = snap.ver
          /\ snap' = [ver |-> snap.ver + 1, through |-> st[d].seq, contacts |-> base[d]]
          /\ UNCHANGED <<log, pos, st, remote>>
          /\ pc'[d] = "positions"
      BY <2>3, <2>18 DEF CompactAnswerLost, CompactOps
    <3>2. DeviceVersions(d)' /\ snap'.ver > snap.ver /\ snap'.through <= Len(log)
      BY <2>1, <3>1, CompactKeepsVersions
    <3> QED
      BY <1>2, <3>1, <3>2, VersionStep, <2>2
  <2>19. CASE LogOut(d)
    <3>1. UNCHANGED <<log, snap>> /\ DeviceVersions(d)'
      BY <2>1, <2>2, <2>3, <2>19 DEF DeviceVersions, Covered, LogOut, NoPos
    <3> QED
      BY <1>2, <3>1, VersionStep, <2>2
  <2> QED
    BY <1>2, <2>4, <2>5, <2>6, <2>7, <2>8, <2>9, <2>10, <2>11, <2>12, <2>13, <2>14, <2>15,
       <2>16, <2>17, <2>18, <2>19
    DEF PassStep, Environment
<1> QED
  BY <1>1, <1>2 DEF Next

\* Every reachable state is well typed, in every environment: SyncContactsOps and
\* RunSync never produce a negative position or a list that is not a list.
THEOREM TypeCorrect == Spec => []TypeOK
<1>1. Init => TypeOK /\ VersionInv
  BY TypeInit, VersionInit
<1>2. TypeOK /\ VersionInv /\ [Next]_vars => TypeOK' /\ VersionInv'
  BY TypeNext, VersionNext
<1> QED
  BY <1>1, <1>2, PTL DEF Spec

\* VersionInv is an invariant of the specification.
LEMMA VersionInvariant == Spec => []VersionInv
<1>1. Init => TypeOK /\ VersionInv
  BY TypeInit, VersionInit
<1>2. TypeOK /\ VersionInv /\ [Next]_vars => TypeOK' /\ VersionInv'
  BY TypeNext, VersionNext
<1> QED
  BY <1>1, <1>2, PTL DEF Spec

\* A recorded snapshot version means a position at or past that snapshot's
\* through-seq, whatever fails, crashes or overlaps: the check of the version that
\* SyncContactsOps makes before it skips the download is sound.
THEOREM VersionCovers == Spec => []VersionCoversTruncation
<1>1. VersionInv => VersionCoversTruncation
  BY DEF VersionInv, DeviceVersions, Covered, VersionCoversTruncation
<1> QED
  BY <1>1, VersionInvariant, PTL

\* Only a compaction touches the snapshot, and it installs the next version of a
\* position the pass reached.
LEMMA OnlyCompactionReplaces ==
    ASSUME TypeOK, VersionInv, NEW d \in Device,
           Begin(d) \/ PassStep(d) \/ Environment(d), snap' # snap
    PROVE  /\ snap' = [ver |-> snap.ver + 1, through |-> st[d].seq, contacts |-> base[d]]
           /\ st[d].ver = snap.ver
           /\ log' = log
<1> USE DEF serverVars
<1>1. CASE Compact(d)
  BY <1>1 DEF Compact, CompactOps
<1>2. CASE CompactAnswerLost(d)
  BY <1>2 DEF CompactAnswerLost, CompactOps
<1>3. CASE Begin(d) \/ PlanBlocks(d) \/ UpToDate(d) \/ LoadLocal(d) \/ OpenSnapshot(d)
  BY <1>3 DEF Begin, PlanBlocks, UpToDate, LoadLocal, OpenSnapshot
<1>4. CASE RecordVersion(d) \/ Pull(d) \/ Push(d) \/ Gap(d)
  BY <1>4 DEF RecordVersion, Pull, Push, Gap
<1>5. CASE SaveStore(d) \/ SaveShadow(d) \/ SavePositions(d)
  BY <1>5 DEF SaveStore, SaveShadow, SavePositions
<1>6. CASE \/ \E a \in Alias, c \in Contact \cup {Absent} : Edit(d, a, c)
           \/ CallFails(d) \/ DecryptFails(d)
  BY <1>6 DEF Edit, CallFails, DecryptFails
<1>7. CASE AppendAnswerLost(d) \/ Crash(d) \/ LogOut(d)
  BY <1>7 DEF AppendAnswerLost, Crash, LogOut
<1> QED
  BY <1>1, <1>2, <1>3, <1>4, <1>5, <1>6, <1>7 DEF PassStep, Environment

\* The log only grows.
LEMMA LogGrows ==
    ASSUME TypeOK, NEW d \in Device, Begin(d) \/ PassStep(d) \/ Environment(d)
    PROVE  log' = log \/ AppendOps(d)
<1> USE DEF serverVars
<1>1. CASE Begin(d) \/ PlanBlocks(d) \/ UpToDate(d) \/ LoadLocal(d) \/ OpenSnapshot(d)
  BY <1>1 DEF Begin, PlanBlocks, UpToDate, LoadLocal, OpenSnapshot
<1>2. CASE RecordVersion(d) \/ Pull(d) \/ Push(d) \/ Gap(d)
  BY <1>2 DEF RecordVersion, Pull, Push, Gap
<1>3. CASE SaveStore(d) \/ SaveShadow(d) \/ Compact(d) \/ SavePositions(d)
  BY <1>3 DEF SaveStore, SaveShadow, Compact, SavePositions
<1>4. CASE \/ \E a \in Alias, c \in Contact \cup {Absent} : Edit(d, a, c)
           \/ CallFails(d) \/ DecryptFails(d)
  BY <1>4 DEF Edit, CallFails, DecryptFails
<1>5. CASE AppendAnswerLost(d) \/ CompactAnswerLost(d) \/ Crash(d) \/ LogOut(d)
  BY <1>5 DEF AppendAnswerLost, CompactAnswerLost, Crash, LogOut
<1> QED
  BY <1>1, <1>2, <1>3, <1>4, <1>5 DEF PassStep, Environment

\* compactContacts never moves the truncation point backwards or past the end of
\* the log, whatever fails, crashes or overlaps: the version a pass holds pins the
\* through-seq it may replace.
THEOREM TruncationForward == Spec => TruncationMovesForward
<1> DEFINE Step == /\ snap'.ver >= snap.ver
                   /\ snap' # snap => snap'.ver > snap.ver
                   /\ snap'.through >= snap.through
                   /\ snap'.through <= Len(log')
<1>1. TypeOK /\ VersionInv /\ [Next]_vars => [Step]_vars
  <2> SUFFICES ASSUME TypeOK, VersionInv, NEW d \in Device,
                      Begin(d) \/ PassStep(d) \/ Environment(d)
               PROVE  Step
    BY DEF Next
  <2>1. /\ snap.ver \in Nat
        /\ snap.through \in Nat
        /\ st[d] \in [seq : Nat, ver : Nat]
    BY DEF TypeOK
  <2>2. /\ snap.through <= Len(log)
        /\ Covered(st[d])
    BY DEF VersionInv, DeviceVersions
  <2>3. Len(log) \in Nat /\ Len(log') \in Nat /\ Len(log') >= Len(log)
    <3>1. log \in Seq(Op)
      BY DEF TypeOK
    <3> QED
      BY <3>1, LogGrows, AppendFacts
  <2>4. CASE snap' = snap
    BY <2>1, <2>2, <2>3, <2>4
  <2>5. CASE snap' # snap
    BY <2>1, <2>2, <2>3, <2>5, OnlyCompactionReplaces DEF Covered
  <2> QED
    BY <2>4, <2>5
<1>2. Spec => [][Step]_vars
  BY <1>1, TypeCorrect, VersionInvariant, PTL DEF Spec
<1> QED
  BY <1>2 DEF TruncationMovesForward

-----------------------------------------------------------------------------
(* Local edits, when the user does not edit between a pass's Load and Save. *)

LEMMA EditInit == Init => EditInv
BY DEF Init, EditInv, HoldsCopy

LEMMA EditNext ==
    ASSUME ~EditsRace, TypeOK, TypeOK', EditInv, [Next]_vars
    PROVE  EditInv'
<1> DEFINE Kept(e) == /\ HoldsCopy(e) => local[e] = live[e]
                      /\ pc[e] \in {"gap", "save"} =>
                            \A a \in Pending(e) : base[e][a] = local[e][a]
<1>1. CASE UNCHANGED vars
  BY <1>1 DEF EditInv, HoldsCopy, Pending, vars, diskVars, passVars
<1>2. ASSUME NEW d \in Device, Begin(d) \/ PassStep(d) \/ Environment(d), Kept(d)'
      PROVE  EditInv'
  <2> SUFFICES ASSUME NEW e \in Device PROVE Kept(e)'
    BY DEF EditInv
  <2>1. CASE e = d
    BY <1>2, <2>1
  <2>2. CASE e # d
    <3>1. Unmoved(e) /\ Kept(e)
      BY <1>2, <2>2, OnlyActorMoves DEF EditInv
    <3> QED
      BY <3>1 DEF Unmoved, HoldsCopy, Pending
  <2> QED
    BY <2>1, <2>2
<1>3. ASSUME NEW d \in Device, Begin(d) \/ PassStep(d) \/ Environment(d)
      PROVE  Kept(d)'
  <2>1. Kept(d)
    BY DEF EditInv
  <2>2. /\ pc \in [Device -> Label]
        /\ local \in [Device -> ContactMap]
        /\ live \in [Device -> ContactMap]
        /\ base \in [Device -> ContactMap]
    BY DEF TypeOK
  <2> USE DEF Goto, diskVars, passVars, HoldsCopy
  <2>3. CASE \/ Begin(d) \/ PlanBlocks(d) \/ UpToDate(d) \/ SaveStore(d) \/ SaveShadow(d)
             \/ Compact(d) \/ CallFails(d) \/ DecryptFails(d) \/ AppendAnswerLost(d)
             \/ CompactAnswerLost(d)
    <3>1. pc'[d] \in {"load", "positions", "shadow", "compact"}
      BY <2>2, <2>3
      DEF Begin, PlanBlocks, UpToDate, SaveStore, SaveShadow, Compact, CallFails,
          DecryptFails, AppendAnswerLost, CompactAnswerLost
    <3> QED
      BY <3>1
  <2>4. CASE SavePositions(d) \/ Crash(d)
    <3>1. pc'[d] = "idle"
      BY <2>2, <2>4 DEF SavePositions, Crash, ForgetPass
    <3> QED
      BY <3>1
  <2>5. CASE LoadLocal(d)
    BY <2>2, <2>5 DEF LoadLocal
  <2>6. CASE OpenSnapshot(d) \/ RecordVersion(d) \/ Pull(d)
    BY <2>1, <2>2, <2>6 DEF OpenSnapshot, RecordVersion, Pull
  <2>7. CASE Push(d)
    <3>1. Pending(d)' = Pending(d) /\ local' = local /\ live' = live
      BY <2>7 DEF Push, Pending
    <3>2. CASE Pending(d) = {}
      BY <2>1, <2>2, <2>7, <3>1, <3>2 DEF Push
    <3>3. CASE Pending(d) # {}
      <4>1. base'[d] = applyLocal(base[d], Pending(d), local[d]) /\ pc'[d] = "gap"
        BY <2>2, <2>7, <3>3 DEF Push
      <4>2. \A a \in Pending(d) : base'[d][a] = local[d][a]
        BY <4>1 DEF applyLocal, Pending, diffContacts
      <4> QED
        BY <2>1, <2>7, <3>1, <4>1, <4>2 DEF Push
    <3> QED
      BY <3>2, <3>3
  <2>8. CASE Gap(d)
    <3>1. Pending(d)' = Pending(d) /\ local' = local /\ live' = live
      BY <2>8 DEF Gap, Pending
    <3>2. \A a \in Pending(d) : base'[d][a] = base[d][a]
      <4>1. \/ base'[d] = base[d]
            \/ base'[d] = applyOps(log, base[d], OldestSince(st[d].seq), first[d] - 1,
                                    Pending(d))
        BY <2>2, <2>8 DEF Gap
      <4>2. Pending(d) \subseteq Alias
        BY DEF Pending, diffContacts
      <4> QED
        BY <4>1, <4>2, ApplySkips
    <3> QED
      BY <2>1, <2>2, <2>8, <3>1, <3>2 DEF Gap
  <2>9. CASE \E a \in Alias, c \in Contact \cup {Absent} : Edit(d, a, c)
    <3>1. ~HoldsCopy(d) /\ pc' = pc
      BY <2>9 DEF Edit
    <3> QED
      BY <3>1
  <2>10. CASE LogOut(d)
    <3>1. pc[d] = "idle" /\ pc' = pc
      BY <2>10 DEF LogOut
    <3> QED
      BY <3>1
  <2> QED
    BY <1>3, <2>3, <2>4, <2>5, <2>6, <2>7, <2>8, <2>9, <2>10 DEF PassStep, Environment
<1> HIDE DEF Kept
<1> QED
  BY <1>1, <1>2, <1>3 DEF Next

\* As long as the UI does not write the store between the Load and the Save of
\* SyncContactsOps, saving the merged list keeps every local edit that is not in
\* the log yet, for any number of devices and under any failure or crash.
THEOREM EditsSurvive == ASSUME ~EditsRace PROVE Spec => LocalEditsSurvive
<1> DEFINE Step == \A d \in Device :
                     SaveStore(d) =>
                       \A a \in Alias : live[d][a] # shadow[d][a] => live'[d][a] = live[d][a]
<1>1. TypeOK /\ TypeOK' /\ EditInv /\ [Next]_vars => EditInv'
  BY EditNext
<1>2. TypeOK /\ EditInv => [Step]_vars
  <2> SUFFICES ASSUME TypeOK, EditInv, NEW d \in Device, SaveStore(d),
                      NEW a \in Alias, live[d][a] # shadow[d][a]
               PROVE  live'[d][a] = live[d][a]
    OBVIOUS
  <2>1. local[d] = live[d] /\ \A b \in Pending(d) : base[d][b] = local[d][b]
    BY DEF EditInv, HoldsCopy, SaveStore
  <2>2. a \in Pending(d)
    BY <2>1 DEF Pending, diffContacts
  <2>3. live'[d] = base[d]
    BY DEF SaveStore, TypeOK
  <2> QED
    BY <2>1, <2>2, <2>3
<1>3. Spec => [][Step]_vars
  BY <1>1, <1>2, TypeCorrect, EditInit, PTL DEF Spec
<1> QED
  BY <1>3 DEF LocalEditsSurvive

-----------------------------------------------------------------------------
(* What the shadow, the working set and the snapshot stand for, when no call *)
(* fails and no compaction falls inside another device's pass.               *)

\* Appending ops changes neither the outcome of a prefix nor what stands for one.
LEMMA OutcomeStable ==
    ASSUME NEW ops \in Seq(Op), NEW b \in Seq(Op), NEW m, NEW n \in 0..Len(ops),
           Outcome(ops, m, n)
    PROVE  Outcome(ops \o b, m, n)
BY LatestStable DEF Outcome

LEMMA CoversStable ==
    ASSUME NEW ops \in Seq(Op), NEW b \in Seq(Op), NEW m, NEW lo \in Nat,
           NEW hi \in 0..Len(ops), NEW top \in Nat, hi <= top, Covers(ops, m, lo, hi)
    PROVE  Covers(ops \o b, m, lo, top)
<1>1. PICK n \in lo..hi : Outcome(ops, m, n)
  BY DEF Covers
<1>2. n \in 0..Len(ops) /\ n \in lo..top
  BY <1>1
<1>3. Outcome(ops \o b, m, n)
  BY <1>1, <1>2, OutcomeStable
<1> QED
  BY <1>2, <1>3 DEF Covers

LEMMA OutcomeCovers ==
    ASSUME NEW ops, NEW m, NEW lo \in Nat, NEW hi \in Nat, NEW n \in lo..hi,
           Outcome(ops, m, n)
    PROVE  Covers(ops, m, lo, hi)
BY DEF Covers

\* Every step appends some ops, possibly none.
LEMMA LogExtends ==
    ASSUME TypeOK, NEW d \in Device, Begin(d) \/ PassStep(d) \/ Environment(d)
    PROVE  \E b \in Seq(Op) : log' = log \o b
<1>1. log \in Seq(Op)
  BY DEF TypeOK
<1>2. CASE log' = log
  <2>1. log' = log \o <<>> /\ <<>> \in Seq(Op)
    BY <1>1, <1>2
  <2> QED
    BY <2>1
<1>3. CASE AppendOps(d)
  BY <1>3, AppendFacts DEF AppendOps
<1> QED
  BY <1>2, <1>3, LogGrows

\* A device that does not move keeps its facts when ops are appended, and, outside
\* the part of a pass that reads the log, when a snapshot replaces them.
LEMMA OthersKeepLog ==
    ASSUME TypeOK, TypeOK', VersionInv, NEW e \in Device, PassInv(e), Unmoved(e),
           NEW b \in Seq(Op), log' = log \o b,
           snap' = snap \/ ~ReadsLog(e)
    PROVE  PassInv(e)'
<1> USE DEF Unmoved
<1>1. DeviceVersions(e) /\ Pending(e)' = Pending(e)
  BY DEF VersionInv, Pending
<1>2. log \in Seq(Op) /\ Len(log) \in Nat /\ Len(log') \in Nat /\ Len(log) <= Len(log')
  <2>1. log \in Seq(Op)
    BY DEF TypeOK
  <2> QED
    BY <2>1
<1>3. /\ pos[e].seq \in 0..Len(log)
      /\ st[e].seq \in 0..Len(log)
      /\ remote[e].max \in 0..Len(log)
      /\ first[e] \in Nat
  <2>1. pos[e].seq \in Nat /\ st[e].seq \in Nat /\ remote[e].max \in Nat /\ first[e] \in Nat
    BY DEF TypeOK
  <2>2. pos[e].seq <= Len(log) /\ st[e].seq <= Len(log) /\ remote[e].max <= Len(log)
    BY <1>1 DEF DeviceVersions, Covered
  <2> QED
    BY <1>2, <2>1, <2>2
<1>4. \A m, n : n \in 0..Len(log) /\ Outcome(log, m, n) => Outcome(log', m, n)
  BY <1>2, OutcomeStable
<1>5. \A m, lo : lo \in Nat /\ Covers(log, m, lo, Len(log)) => Covers(log', m, lo, Len(log'))
  <2>1. Len(log) \in 0..Len(log)
    BY <1>2
  <2> QED
    BY <1>2, <2>1, CoversStable
<1>6. \A m, lo : lo \in Nat /\ Covers(log, m, lo, remote[e].max) =>
                    Covers(log', m, lo, remote[e].max)
  <2>1. remote[e].max \in Nat /\ remote[e].max <= remote[e].max
    BY <1>3
  <2> QED
    BY <1>2, <1>3, <2>1, CoversStable
<1>7. /\ Covers(log', shadow'[e], pos'[e].seq, Len(log'))
      /\ pc'[e] \in {"load", "bootstrap"} => Covers(log', shadow'[e], st'[e].seq, remote'[e].max)
      /\ pc'[e] = "pull" => Covers(log', base'[e], st'[e].seq, Len(log'))
      /\ pc'[e] = "positions" => Covers(log', shadow'[e], st'[e].seq, Len(log'))
  BY <1>3, <1>5, <1>6 DEF PassInv
<1>8. /\ pc'[e] = "pull" /\ remote'[e].max <= st'[e].seq => Outcome(log', base'[e], st'[e].seq)
      /\ pc'[e] \in {"push", "save", "shadow", "compact"} => Outcome(log', base'[e], st'[e].seq)
  BY <1>3, <1>4 DEF PassInv
<1>9. /\ ReadsLog(e)' => remote'[e].ver = snap'.ver /\ remote'[e].through = snap'.through
      /\ pc'[e] \in {"pull", "push", "gap"} => snap'.through <= st'[e].seq
  BY DEF PassInv, ReadsLog
<1>10. ASSUME pc[e] = "gap"
       PROVE  LET last == first[e] + Cardinality(Pending(e)) - 1 IN
              /\ \A a \in Alias \ Pending(e) : Latest(log', a, st[e].seq, base[e][a])
              /\ \A a \in Pending(e) : Latest(log', a, last, base[e][a])
              /\ \A i \in first[e]..last : log'[i].id \in Pending(e)
  <2> DEFINE last == first[e] + Cardinality(Pending(e)) - 1
  <2>1. /\ \A a \in Alias \ Pending(e) : Latest(log, a, st[e].seq, base[e][a])
        /\ \A a \in Pending(e) : Latest(log, a, last, base[e][a])
        /\ \A i \in first[e]..last : log[i].id \in Pending(e)
    BY <1>10 DEF PassInv
  <2>2. last \in 0..Len(log) /\ first[e] >= 1
    <3>1. Pending(e) \in SUBSET Alias /\ local[e] \in ContactMap
      BY DEF Pending, diffContacts, TypeOK
    <3>2. Cardinality(Pending(e)) \in Nat
      BY <3>1, BatchFacts
    <3> QED
      BY <1>1, <1>2, <1>3, <1>10, <3>2 DEF DeviceVersions
  <2> HIDE DEF last
  <2>3. \A i \in first[e]..last : log'[i] = log[i]
    BY <1>2, <1>3, <2>2
  <2>4. /\ \A a \in Alias \ Pending(e) : Latest(log', a, st[e].seq, base[e][a])
        /\ \A a \in Pending(e) : Latest(log', a, last, base[e][a])
    BY <1>2, <1>3, <2>1, <2>2, LatestStable
  <2>5. \A i \in first[e]..last : log'[i].id \in Pending(e)
    BY <2>1, <2>3
  <2> QED
    BY <2>4, <2>5 DEF last
<1>11. /\ ~hasShadow'[e] => pos'[e].seq = 0
       /\ pc'[e] # "idle" => pos'[e].seq <= st'[e].seq
       /\ pc'[e] = "positions" /\ ~hasShadow'[e] => st'[e].seq = 0
       /\ pc'[e] \in {"load", "bootstrap"} => st'[e] = pos'[e]
       /\ pc'[e] = "bootstrap" => base'[e] = shadow'[e]
       /\ pc'[e] = "compact" => shadow'[e] = base'[e] /\ hasShadow'[e]
  BY DEF PassInv
<1> QED
  BY <1>1, <1>7, <1>8, <1>9, <1>10, <1>11 DEF PassInv

\* It is enough to look at the snapshot and at the device that moves.
LEMMA LogStep ==
    ASSUME TypeOK, TypeOK', VersionInv, LogInv, NEW d \in Device,
           Begin(d) \/ PassStep(d) \/ Environment(d),
           \/ snap' = snap
           \/ SnapshotIsTruncatedLog' /\ \A e \in Device \ {d} : ~ReadsLog(e),
           PassInv(d)'
    PROVE  LogInv'
<1>1. PICK b \in Seq(Op) : log' = log \o b
  BY LogExtends
<1>2. \A e \in Device : PassInv(e)'
  <2> TAKE e \in Device
  <2>1. CASE e = d
    BY <2>1
  <2>2. CASE e # d
    <3>1. Unmoved(e) /\ PassInv(e) /\ (snap' = snap \/ ~ReadsLog(e))
      BY <2>2, OnlyActorMoves DEF LogInv
    <3> QED
      BY <1>1, <3>1, OthersKeepLog
  <2> QED
    BY <2>1, <2>2
<1>3. SnapshotIsTruncatedLog'
  <2>1. CASE snap' = snap
    <3>1. log \in Seq(Op) /\ snap.through \in 0..Len(log)
      BY DEF TypeOK, VersionInv
    <3>2. Outcome(log, snap.contacts, snap.through)
      BY DEF LogInv, SnapshotIsTruncatedLog
    <3> QED
      BY <1>1, <2>1, <3>1, <3>2, OutcomeStable DEF SnapshotIsTruncatedLog
  <2>2. CASE snap' # snap
    BY <2>2
  <2> QED
    BY <2>1, <2>2
<1> QED
  BY <1>2, <1>3 DEF LogInv

LEMMA LogInit == TypeOK /\ Init => LogInv
<1> SUFFICES ASSUME TypeOK, Init PROVE LogInv
  OBVIOUS
<1>1. Outcome(log, Empty, 0)
  BY DEF Outcome, Latest, Empty
<1>2. Len(log) = 0
  BY DEF Init
<1>3. Covers(log, Empty, 0, Len(log))
  BY <1>1, <1>2, OutcomeCovers
<1>4. ASSUME NEW d \in Device PROVE PassInv(d)
  <2>1. /\ shadow[d] = Empty /\ pos[d].seq = 0 /\ pc[d] = "idle"
    BY DEF Init, NoPos
  <2> QED
    BY <1>3, <2>1 DEF PassInv, ReadsLog
<1>5. SnapshotIsTruncatedLog
  BY <1>1 DEF Init, SnapshotIsTruncatedLog
<1> QED
  BY <1>4, <1>5 DEF LogInv

\* The steps of a pass up to its first write, and those of its environment.
LEMMA LogReads ==
    ASSUME ~CallsFail, TypeOK, TypeOK', VersionInv, LogInv, NEW d \in Device,
           \/ Begin(d) \/ PlanBlocks(d) \/ UpToDate(d) \/ LoadLocal(d)
           \/ OpenSnapshot(d) \/ RecordVersion(d) \/ Pull(d)
    PROVE  PassInv(d)' /\ snap' = snap
<1>1. PassInv(d) /\ DeviceVersions(d) /\ SnapshotIsTruncatedLog
  BY DEF LogInv, VersionInv
<1>2. /\ log \in Seq(Op) /\ Len(log) \in Nat
      /\ snap.ver \in Nat /\ snap.through \in 0..Len(log)
      /\ (snap.ver = 0 => snap.through = 0)
      /\ pos[d] \in [seq : Nat, ver : Nat]
      /\ st[d] \in [seq : Nat, ver : Nat]
      /\ remote[d] \in [ver : Nat, through : Nat, max : Nat]
  BY DEF TypeOK, VersionInv
<1>3. /\ pos \in [Device -> [seq : Nat, ver : Nat]]
      /\ st \in [Device -> [seq : Nat, ver : Nat]]
      /\ remote \in [Device -> [ver : Nat, through : Nat, max : Nat]]
      /\ pc \in [Device -> Label]
      /\ base \in [Device -> ContactMap]
  BY DEF TypeOK
<1>4. /\ pos[d].seq <= Len(log) /\ st[d].seq <= Len(log)
      /\ remote[d].max <= Len(log)
      /\ (st[d].ver = snap.ver => st[d].seq >= snap.through)
  BY <1>1 DEF DeviceVersions, Covered
<1> USE DEF Goto, serverVars, diskVars
<1>5. CASE Begin(d)
  <2>1. /\ pc'[d] = "load" /\ st'[d] = pos[d]
        /\ remote'[d] = [ver |-> snap.ver, through |-> snap.through, max |-> Len(log)]
        /\ UNCHANGED <<log, snap, shadow, hasShadow, pos>>
    BY <1>3, <1>5 DEF Begin
  <2> QED
    BY <1>1, <1>2, <2>1 DEF PassInv, ReadsLog
<1>6. CASE PlanBlocks(d) \/ UpToDate(d)
  <2>1. /\ pc[d] = "load" /\ pc'[d] = "positions"
        /\ UNCHANGED <<log, snap, shadow, hasShadow, pos, st>>
    BY <1>3, <1>6 DEF PlanBlocks, UpToDate
  <2> QED
    BY <1>1, <1>2, <2>1 DEF PassInv, ReadsLog
<1>7. CASE LoadLocal(d)
  <2>1. /\ pc[d] = "load" /\ pc'[d] = "bootstrap" /\ base'[d] = shadow[d]
        /\ UNCHANGED <<log, snap, shadow, hasShadow, pos, st, remote>>
    BY <1>3, <1>7 DEF LoadLocal
  <2> QED
    BY <1>1, <1>2, <2>1 DEF PassInv, ReadsLog
<1>8. CASE OpenSnapshot(d)
  <2>1. /\ pc[d] = "bootstrap" /\ pc'[d] = "pull" /\ base'[d] = snap.contacts
        /\ st'[d] = [seq |-> remote[d].through, ver |-> remote[d].ver]
        /\ ~hasShadow[d] \/ st[d].seq < remote[d].through
        /\ UNCHANGED <<log, snap, shadow, hasShadow, pos, remote>>
    BY <1>3, <1>8 DEF OpenSnapshot, NeedsSnapshot
  <2>2. /\ st'[d].seq = snap.through
        /\ remote[d].ver = snap.ver /\ remote[d].through = snap.through
        /\ st[d] = pos[d]
    BY <1>1, <2>1 DEF PassInv, ReadsLog
  <2>3. pos[d].seq <= st'[d].seq
    BY <1>1, <1>2, <2>1, <2>2 DEF PassInv
  <2>4. Outcome(log, base'[d], st'[d].seq)
    BY <1>1, <2>1, <2>2 DEF SnapshotIsTruncatedLog
  <2>5. Covers(log, base'[d], st'[d].seq, Len(log))
    BY <1>2, <2>2, <2>4, OutcomeCovers
  <2> QED
    BY <1>1, <1>2, <2>1, <2>2, <2>3, <2>4, <2>5 DEF PassInv, ReadsLog
<1>9. CASE RecordVersion(d)
  <2>1. /\ pc[d] = "bootstrap" /\ pc'[d] = "pull" /\ ~NeedsSnapshot(d)
        /\ st'[d].seq = st[d].seq
        /\ UNCHANGED <<log, snap, shadow, hasShadow, pos, remote, base>>
    BY <1>3, <1>9 DEF RecordVersion
  <2>2. /\ remote[d].ver = snap.ver /\ remote[d].through = snap.through
        /\ st[d] = pos[d] /\ base[d] = shadow[d]
        /\ Covers(log, shadow[d], st[d].seq, remote[d].max)
    BY <1>1, <2>1 DEF PassInv, ReadsLog
  <2>3. snap.through <= st[d].seq
    BY <1>2, <1>4, <2>1, <2>2 DEF NeedsSnapshot
  <2>4. PICK n \in st[d].seq..remote[d].max : Outcome(log, shadow[d], n)
    BY <2>2 DEF Covers
  <2>5. Covers(log, base[d], st[d].seq, Len(log))
    <3>1. n \in st[d].seq..Len(log)
      BY <1>2, <1>4
    <3> QED
      BY <1>2, <2>2, <2>4, <3>1, OutcomeCovers
  <2>6. remote[d].max <= st[d].seq => Outcome(log, base[d], st[d].seq)
    <3> SUFFICES ASSUME remote[d].max <= st[d].seq PROVE Outcome(log, base[d], st[d].seq)
      OBVIOUS
    <3>1. n = st[d].seq
      BY <1>2
    <3> QED
      BY <2>2, <2>4, <3>1
  <2> QED
    BY <1>1, <1>2, <2>1, <2>2, <2>3, <2>5, <2>6 DEF PassInv, ReadsLog
<1>10. CASE Pull(d)
  <2>1. /\ pc[d] = "pull" /\ pc'[d] = "push"
        /\ UNCHANGED <<log, snap, shadow, hasShadow, pos, remote>>
    BY <1>3, <1>10 DEF Pull
  <2>2. /\ OldestSince(st[d].seq) = st[d].seq
        /\ remote[d].ver = snap.ver /\ remote[d].through = snap.through
        /\ snap.through <= st[d].seq /\ pos[d].seq <= st[d].seq
    BY <1>1, <1>2, <2>1 DEF PassInv, ReadsLog, OldestSince
  <2>3. CASE remote[d].max > st[d].seq
    <3>1. /\ base'[d] = applyOps(log, base[d], st[d].seq, Len(log), {})
          /\ st'[d].seq = IF Len(log) > st[d].seq THEN Len(log) ELSE st[d].seq
      BY <1>3, <1>10, <2>2, <2>3 DEF Pull
    <3>2. st'[d].seq = Len(log)
      BY <1>2, <1>4, <3>1
    <3>3. PICK n \in st[d].seq..Len(log) : Outcome(log, base[d], n)
      BY <1>1, <2>1 DEF PassInv, Covers
    <3>4. Outcome(log, base'[d], Len(log))
      BY <1>2, <3>1, <3>3, ApplyReachesOutcome DEF Outcome
    <3> QED
      BY <1>1, <1>2, <1>4, <2>1, <2>2, <3>2, <3>4 DEF PassInv, ReadsLog
  <2>4. CASE ~(remote[d].max > st[d].seq)
    <3>1. UNCHANGED <<base, st>>
      BY <1>10, <2>4 DEF Pull
    <3>2. Outcome(log, base[d], st[d].seq)
      BY <1>1, <1>2, <2>1, <2>4 DEF PassInv
    <3> QED
      BY <1>1, <1>2, <2>1, <2>2, <3>1, <3>2 DEF PassInv, ReadsLog
  <2> QED
    BY <2>3, <2>4
<1> QED
  BY <1>5, <1>6, <1>7, <1>8, <1>9, <1>10 DEF Begin, PlanBlocks, UpToDate, LoadLocal,
     OpenSnapshot, RecordVersion, Pull

LEMMA ConcatFacts ==
    ASSUME NEW ops \in Seq(Op), NEW b \in Seq(Op)
    PROVE  /\ Len(ops \o b) = Len(ops) + Len(b)
           /\ \A i \in 1..Len(b) : (ops \o b)[Len(ops) + i] = b[i]
OBVIOUS

\* The append and the race gap: the batch's ids get their new values, the ops in
\* the gap are applied to the other ids only.
LEMMA LogWrites ==
    ASSUME TypeOK, TypeOK', VersionInv, LogInv, NEW d \in Device, Push(d) \/ Gap(d)
    PROVE  PassInv(d)' /\ snap' = snap
<1>1. PassInv(d) /\ DeviceVersions(d)
  BY DEF LogInv, VersionInv
<1>2. /\ log \in Seq(Op) /\ Len(log) \in Nat
      /\ pos[d].seq \in 0..Len(log) /\ st[d].seq \in 0..Len(log)
      /\ snap.through \in Nat /\ first[d] \in Nat
      /\ local[d] \in ContactMap
  <2>1. /\ log \in Seq(Op) /\ Len(log) \in Nat
        /\ pos[d] \in [seq : Nat, ver : Nat] /\ st[d] \in [seq : Nat, ver : Nat]
        /\ snap.through \in Nat /\ first[d] \in Nat
        /\ local[d] \in ContactMap
    BY DEF TypeOK
  <2>2. pos[d].seq <= Len(log) /\ st[d].seq <= Len(log)
    BY <1>1 DEF DeviceVersions, Covered
  <2> QED
    BY <2>1, <2>2
<1>3. /\ st \in [Device -> [seq : Nat, ver : Nat]]
      /\ pc \in [Device -> Label]
      /\ base \in [Device -> ContactMap]
      /\ first \in [Device -> Nat]
  BY DEF TypeOK
<1>4. Pending(d) \in SUBSET Alias
  BY DEF Pending, diffContacts
<1>5. Cardinality(Pending(d)) \in Nat /\ (Pending(d) # {} => Cardinality(Pending(d)) > 0)
  BY <1>2, <1>4, BatchFacts
<1>6. UNCHANGED <<snap, shadow, hasShadow, pos, local, remote>> /\ Pending(d)' = Pending(d)
  BY DEF Push, Gap, Pending, serverVars, diskVars
<1>7. pos[d].seq <= st[d].seq /\ (ReadsLog(d) => snap.through <= st[d].seq)
  BY <1>1 DEF PassInv, ReadsLog, Push, Gap
<1>8. CASE Push(d) /\ Pending(d) = {}
  <2>1. pc[d] = "push" /\ pc'[d] = "save" /\ UNCHANGED <<log, base, st>>
    BY <1>3, <1>8 DEF Push, Goto
  <2> QED
    BY <1>1, <1>6, <2>1 DEF PassInv, ReadsLog
<1>9. CASE Push(d) /\ Pending(d) # {}
  <2> DEFINE bt == Batch(Pending(d), local[d])
             k == Cardinality(Pending(d))
  <2>1. /\ pc[d] = "push" /\ pc'[d] = "gap" /\ st' = st
        /\ log' = log \o bt
        /\ base'[d] = applyLocal(base[d], Pending(d), local[d])
        /\ first'[d] = Len(log) + 1
    BY <1>3, <1>9 DEF Push, Goto, AppendOps
  <2>2. /\ bt \in Seq(Op) /\ Len(bt) = k /\ k \in Nat /\ k > 0
        /\ \A i \in 1..k : bt[i].id \in Pending(d) /\ bt[i].val = local[d][bt[i].id]
        /\ \A a \in Pending(d) : \E i \in 1..k :
              bt[i].id = a /\ \A j \in 1..k : j # i => bt[j].id # a
    BY <1>2, <1>4, <1>5, <1>9, BatchFacts
  <2> HIDE DEF bt, k
  <2>3. /\ Len(log') = Len(log) + k
        /\ \A i \in 1..k : log'[Len(log) + i] = bt[i]
    <3>1. bt \in Seq(Op) /\ Len(bt) = k
      BY <2>2
    <3>2. log \in Seq(Op) /\ log' = log \o bt
      BY <1>2, <2>1
    <3>3. /\ Len(log \o bt) = Len(log) + Len(bt)
          /\ \A i \in 1..Len(bt) : (log \o bt)[Len(log) + i] = bt[i]
      BY <3>1, <3>2, ConcatFacts
    <3> QED
      BY <3>1, <3>2, <3>3
  <2>4. \A i \in (Len(log) + 1)..(Len(log) + k) :
           i - Len(log) \in 1..k /\ log'[i] = bt[i - Len(log)]
    <3> TAKE i \in (Len(log) + 1)..(Len(log) + k)
    <3>1. i - Len(log) \in 1..k /\ Len(log) + (i - Len(log)) = i
      BY <1>2, <2>2
    <3> QED
      BY <2>3, <3>1
  <2>5. \A a \in Alias \ Pending(d) : Latest(log', a, st[d].seq, base'[d][a])
    <3> TAKE a \in Alias \ Pending(d)
    <3>1. base'[d][a] = base[d][a]
      BY <2>1 DEF applyLocal
    <3>2. Latest(log, a, st[d].seq, base[d][a])
      BY <1>1, <2>1 DEF PassInv, Outcome
    <3> QED
      BY <1>2, <2>1, <2>2, <3>1, <3>2, LatestStable
  <2>6. \A a \in Pending(d) : Latest(log', a, Len(log) + k, base'[d][a])
    <3> TAKE a \in Pending(d)
    <3>1. base'[d][a] = local[d][a]
      BY <1>4, <2>1 DEF applyLocal
    <3>2. PICK i \in 1..k : bt[i].id = a /\ \A j \in 1..k : j # i => bt[j].id # a
      BY <2>2
    <3>3. /\ Len(log) + i \in 1..(Len(log) + k)
          /\ log'[Len(log) + i].id = a /\ log'[Len(log) + i].val = local[d][a]
      BY <1>2, <2>2, <2>3, <3>2
    <3>4. \A j \in (Len(log) + i + 1)..(Len(log) + k) : log'[j].id # a
      <4> TAKE j \in (Len(log) + i + 1)..(Len(log) + k)
      <4>1. j \in (Len(log) + 1)..(Len(log) + k) /\ j - Len(log) # i
        BY <1>2, <2>2, <3>2
      <4> QED
        BY <2>4, <3>2, <4>1
    <3> QED
      BY <3>1, <3>3, <3>4 DEF Latest
  <2>7. \A i \in first'[d]..(Len(log) + k) : log'[i].id \in Pending(d)
    BY <2>1, <2>2, <2>4
  <2>8. first'[d] + Cardinality(Pending(d)') - 1 = Len(log) + k
    BY <1>2, <1>6, <2>1, <2>2 DEF k
  <2>9. Covers(log', shadow'[d], pos'[d].seq, Len(log'))
    <3>1. Len(log) \in 0..Len(log) /\ Len(log') \in Nat /\ Len(log) <= Len(log')
      BY <1>2, <2>2, <2>3
    <3>2. Covers(log, shadow[d], pos[d].seq, Len(log)) /\ pos[d].seq \in Nat
      BY <1>1, <1>2 DEF PassInv
    <3>3. Covers(log \o bt, shadow[d], pos[d].seq, Len(log'))
      BY <1>2, <2>2, <3>1, <3>2, CoversStable
    <3> QED
      BY <1>6, <2>1, <3>3
  <2>10. /\ (~hasShadow'[d] => pos'[d].seq = 0)
         /\ pos'[d].seq <= st'[d].seq
         /\ remote'[d].ver = snap'.ver /\ remote'[d].through = snap'.through
         /\ snap'.through <= st'[d].seq
    BY <1>1, <1>6, <1>7, <2>1 DEF PassInv, ReadsLog
  <2> QED
    BY <1>6, <2>1, <2>5, <2>6, <2>7, <2>8, <2>9, <2>10 DEF PassInv, ReadsLog
<1>10. CASE Gap(d)
  <2> DEFINE last == first[d] + Cardinality(Pending(d)) - 1
  <2>1. /\ pc[d] = "gap" /\ pc'[d] = "save" /\ log' = log
        /\ st'[d].seq = last
        /\ base'[d] = IF first[d] > st[d].seq + 1
                        THEN applyOps(log, base[d], OldestSince(st[d].seq), first[d] - 1,
                                      Pending(d))
                        ELSE base[d]
    BY <1>3, <1>10 DEF Gap, Goto, serverVars
  <2>2. OldestSince(st[d].seq) = st[d].seq
    BY <1>2, <1>7, <2>1 DEF OldestSince, ReadsLog
  <2>3. /\ st[d].seq <= first[d] - 1 /\ first[d] - 1 \in Nat
        /\ last \in Nat /\ first[d] - 1 <= last /\ last <= Len(log)
    BY <1>1, <1>2, <1>5, <2>1 DEF DeviceVersions
  <2>4. /\ \A a \in Alias \ Pending(d) : Latest(log, a, st[d].seq, base[d][a])
        /\ \A a \in Pending(d) : Latest(log, a, last, base[d][a])
        /\ \A i \in first[d]..last : log[i].id \in Pending(d)
    BY <1>1, <2>1 DEF PassInv
  <2> HIDE DEF last
  <2>5. ASSUME NEW a \in Alias PROVE Latest(log, a, last, base'[d][a])
    <3>1. CASE a \in Pending(d)
      <4>1. base'[d][a] = base[d][a]
        BY <2>1, <3>1, ApplySkips
      <4> QED
        BY <2>4, <3>1, <4>1
    <3>2. CASE a \notin Pending(d)
      <4>1. Latest(log, a, first[d] - 1, base'[d][a])
        <5>1. CASE first[d] > st[d].seq + 1
          <6>1. st[d].seq \in Nat /\ st[d].seq \in st[d].seq..(first[d] - 1)
            BY <1>2, <2>3
          <6>2. base'[d] = applyOps(log, base[d], st[d].seq, first[d] - 1, Pending(d))
            BY <2>1, <2>2, <5>1
          <6>3. Latest(log, a, st[d].seq, base[d][a])
            BY <2>4, <3>2
          <6> QED
            BY <2>3, <3>2, <6>1, <6>2, <6>3, ApplyReachesOutcome
        <5>2. CASE ~(first[d] > st[d].seq + 1)
          <6>1. st[d].seq = first[d] - 1 /\ base'[d] = base[d]
            BY <1>2, <2>1, <2>3, <5>2
          <6>2. Latest(log, a, st[d].seq, base[d][a])
            BY <2>4, <3>2
          <6> QED
            BY <6>1, <6>2
        <5> QED
          BY <5>1, <5>2
      <4>2. \A j \in (first[d] - 1 + 1)..last : log[j].id # a
        BY <1>2, <2>4, <3>2
      <4> QED
        BY <2>3, <4>1, <4>2, LatestExtends
    <3> QED
      BY <3>1, <3>2
  <2>6. Outcome(log', base'[d], st'[d].seq)
    BY <2>1, <2>5 DEF Outcome
  <2>7. pos'[d].seq <= st'[d].seq
    BY <1>2, <1>6, <1>7, <2>1, <2>3
  <2> QED
    BY <1>1, <1>6, <2>1, <2>6, <2>7 DEF PassInv, ReadsLog
<1> QED
  BY <1>6, <1>8, <1>9, <1>10

\* The two file writes, the compaction, the saved position, and the environment.
LEMMA LogSaves ==
    ASSUME ~CallsFail, ~CompactionRaces, TypeOK, TypeOK', VersionInv, LogInv,
           NEW d \in Device,
           \/ SaveStore(d) \/ SaveShadow(d) \/ Compact(d) \/ SavePositions(d)
           \/ Environment(d)
    PROVE  /\ PassInv(d)'
           /\ \/ snap' = snap
              \/ SnapshotIsTruncatedLog' /\ \A e \in Device \ {d} : ~ReadsLog(e)
<1>1. PassInv(d) /\ DeviceVersions(d) /\ SnapshotIsTruncatedLog
  BY DEF LogInv, VersionInv
<1>2. /\ Len(log) \in Nat
      /\ pos[d] \in [seq : Nat, ver : Nat] /\ st[d] \in [seq : Nat, ver : Nat]
  BY DEF TypeOK
<1>3. /\ st \in [Device -> [seq : Nat, ver : Nat]]
      /\ pos \in [Device -> [seq : Nat, ver : Nat]]
      /\ pc \in [Device -> Label]
      /\ shadow \in [Device -> ContactMap]
      /\ hasShadow \in [Device -> BOOLEAN]
  BY DEF TypeOK
<1>4. pos[d].seq <= Len(log) /\ st[d].seq <= Len(log)
  BY <1>1 DEF DeviceVersions, Covered
<1> USE DEF Goto, serverVars, diskVars, passVars
<1>5. CASE SaveStore(d)
  <2>1. /\ pc[d] = "save" /\ pc'[d] = "shadow"
        /\ UNCHANGED <<log, snap, shadow, hasShadow, pos, st, remote, base>>
    BY <1>3, <1>5 DEF SaveStore
  <2> QED
    BY <1>1, <2>1 DEF PassInv, ReadsLog
<1>6. CASE SaveShadow(d)
  <2>1. /\ pc[d] = "shadow" /\ pc'[d] = "compact"
        /\ shadow'[d] = base[d] /\ hasShadow'[d] = TRUE
        /\ UNCHANGED <<log, snap, pos, st, remote, base>>
    BY <1>3, <1>6 DEF SaveShadow
  <2>2. Outcome(log, base[d], st[d].seq) /\ pos[d].seq <= st[d].seq
    BY <1>1, <2>1 DEF PassInv
  <2>3. Covers(log, base[d], pos[d].seq, Len(log))
    <3>1. st[d].seq \in pos[d].seq..Len(log)
      BY <1>2, <1>4, <2>2
    <3> QED
      BY <1>2, <2>2, <3>1, OutcomeCovers
  <2> QED
    BY <2>1, <2>2, <2>3 DEF PassInv, ReadsLog
<1>7. CASE Compact(d)
  <2>1. /\ pc[d] = "compact" /\ pc'[d] = "positions" /\ st'[d].seq = st[d].seq
        /\ UNCHANGED <<log, shadow, hasShadow, pos, remote, base>>
    BY <1>3, <1>7 DEF Compact
  <2>2. /\ Outcome(log, base[d], st[d].seq) /\ shadow[d] = base[d] /\ hasShadow[d]
        /\ pos[d].seq <= st[d].seq
    BY <1>1, <2>1 DEF PassInv
  <2>3. Covers(log, shadow[d], st[d].seq, Len(log))
    <3>1. st[d].seq \in st[d].seq..Len(log)
      BY <1>2, <1>4
    <3> QED
      BY <1>2, <2>2, <3>1, OutcomeCovers
  <2>4. PassInv(d)'
    BY <1>1, <2>1, <2>2, <2>3 DEF PassInv, ReadsLog
  <2>5. ASSUME snap' # snap
        PROVE  SnapshotIsTruncatedLog' /\ \A e \in Device \ {d} : ~ReadsLog(e)
    <3>1. /\ snap' = [ver |-> snap.ver + 1, through |-> st[d].seq, contacts |-> base[d]]
          /\ MayCompact(d)
      BY <1>7, <2>5 DEF Compact, CompactOps
    <3>2. \A e \in Device \ {d} : ~ReadsLog(e)
      BY <3>1 DEF MayCompact
    <3>3. SnapshotIsTruncatedLog'
      BY <2>1, <2>2, <3>1 DEF SnapshotIsTruncatedLog
    <3> QED
      BY <3>2, <3>3
  <2> QED
    BY <2>4, <2>5
<1>8. CASE SavePositions(d)
  <2>1. /\ pc[d] = "positions" /\ pc'[d] = "idle" /\ pos'[d] = st[d]
        /\ UNCHANGED <<log, snap, shadow, hasShadow>>
    BY <1>3, <1>8 DEF SavePositions, ForgetPass
  <2> QED
    BY <1>1, <2>1 DEF PassInv, ReadsLog
<1>9. CASE \E a \in Alias, c \in Contact \cup {Absent} : Edit(d, a, c)
  <2>1. UNCHANGED <<log, snap, shadow, hasShadow, pos, pc, st, remote, local, base, first>>
    BY <1>9 DEF Edit
  <2>2. Pending(d)' = Pending(d)
    BY <2>1 DEF Pending
  <2> QED
    BY <1>1, <2>1, <2>2 DEF PassInv, ReadsLog
<1>10. CASE Crash(d)
  <2>1. pc'[d] = "idle" /\ UNCHANGED <<log, snap, shadow, hasShadow, pos>>
    BY <1>3, <1>10 DEF Crash, ForgetPass
  <2> QED
    BY <1>1, <2>1 DEF PassInv, ReadsLog
<1>11. CASE LogOut(d)
  <2>1. /\ pc[d] = "idle" /\ pc' = pc /\ pos'[d].seq = 0
        /\ shadow'[d] = Empty /\ UNCHANGED <<log, snap>>
    BY <1>3, <1>11 DEF LogOut, NoPos
  <2>2. Outcome(log, Empty, 0)
    BY DEF Outcome, Latest, Empty
  <2>3. Covers(log, Empty, 0, Len(log))
    <3>1. 0 \in 0..Len(log)
      BY <1>2
    <3> QED
      BY <1>2, <2>2, <3>1, OutcomeCovers
  <2> QED
    BY <2>1, <2>3 DEF PassInv, ReadsLog
<1>12. CASE CallFails(d) \/ DecryptFails(d) \/ AppendAnswerLost(d) \/ CompactAnswerLost(d)
  BY <1>12 DEF CallFails, DecryptFails, AppendAnswerLost, CompactAnswerLost
<1> QED
  BY <1>5, <1>6, <1>7, <1>8, <1>9, <1>10, <1>11, <1>12 DEF Environment

LEMMA LogNext ==
    ASSUME ~CallsFail, ~CompactionRaces, TypeOK, TypeOK', VersionInv, LogInv, [Next]_vars
    PROVE  LogInv'
<1>1. CASE UNCHANGED vars
  BY <1>1 DEF LogInv, SnapshotIsTruncatedLog, PassInv, ReadsLog, Pending, vars, serverVars,
              diskVars, passVars
<1>2. ASSUME NEW d \in Device, Begin(d) \/ PassStep(d) \/ Environment(d)
      PROVE  LogInv'
  <2>1. /\ PassInv(d)'
        /\ \/ snap' = snap
           \/ SnapshotIsTruncatedLog' /\ \A e \in Device \ {d} : ~ReadsLog(e)
    BY <1>2, LogReads, LogWrites, LogSaves DEF PassStep
  <2> QED
    BY <1>2, <2>1, LogStep
<1> QED
  BY <1>1, <1>2 DEF Next

LEMMA LogInvariant == ASSUME ~CallsFail, ~CompactionRaces PROVE Spec => []LogInv
<1>1. TypeOK /\ TypeOK' /\ VersionInv /\ LogInv /\ [Next]_vars => LogInv'
  BY LogNext
<1> QED
  BY <1>1, LogInit, TypeCorrect, VersionInvariant, PTL DEF Spec

\* The persisted position never runs ahead of the shadow, under crashes and
\* log-outs, as long as no call fails and no compaction falls inside another
\* device's pass: a restarted pass misses no op.
THEOREM ShadowCovers ==
    ASSUME ~CallsFail, ~CompactionRaces PROVE Spec => []ShadowCoversPosition
<1>1. LogInv => ShadowCoversPosition
  BY DEF LogInv, PassInv, Covers, ShadowCoversPosition
<1> QED
  BY <1>1, LogInvariant, PTL

\* Under the same conditions compactContacts uploads exactly the outcome of the ops
\* that the server then deletes.
THEOREM SnapshotFaithful ==
    ASSUME ~CallsFail, ~CompactionRaces PROVE Spec => []SnapshotIsTruncatedLog
<1>1. LogInv => SnapshotIsTruncatedLog
  BY DEF LogInv
<1> QED
  BY <1>1, LogInvariant, PTL

\* Under the same conditions what SyncContactsOps writes is the last-writer-wins
\* outcome of the log up to its position: snapshot, pull, push and race gap
\* together lose no op and apply none out of order, for any number of devices.
THEOREM MergedFaithful ==
    ASSUME ~CallsFail, ~CompactionRaces PROVE Spec => []MergedIsLogOutcome
<1>1. LogInv => MergedIsLogOutcome
  BY DEF LogInv, PassInv, MergedIsLogOutcome
<1> QED
  BY <1>1, LogInvariant, PTL

=============================================================================
