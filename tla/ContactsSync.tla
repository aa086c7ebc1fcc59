---------------------------- MODULE ContactsSync ----------------------------
(***************************************************************************)
(* Contact synchronisation through the encrypted op log:                   *)
(* cloud/sync_contacts.go (SyncContactsOps and its helpers), the op-log    *)
(* client of cloud/ops.go, the positions RunSync loads before a pass and   *)
(* saves after it, and the contact store the UI edits.                     *)
(*                                                                         *)
(* A contact list is a function from aliases (the store's uniqueness key,  *)
(* contactOpID) to a contact or Absent.  An op is a pair of an alias and   *)
(* the value it gives it: a "put" carries a contact, a "del" tombstone     *)
(* carries Absent.  Encryption is left out; an op that does not decrypt is *)
(* a failure of the pass (DecryptFails).                                   *)
(*                                                                         *)
(* The server is external.  It is modelled from how the client uses it: it *)
(* numbers ops 1, 2, ..., deletes those up to through_seq when a snapshot  *)
(* is accepted, and accepts a snapshot only against the current version.   *)
(* "log" keeps the whole history so that properties can speak of ops the   *)
(* server has truncated; the client only ever reads ops past snap.through. *)
(***************************************************************************)
EXTENDS Integers, Sequences, FiniteSets, Functions

CONSTANTS
    Device,                   \* the account's devices
    Alias,                    \* contact aliases
    Contact,                  \* contents a contact can have
    Absent,                   \* "no contact under this alias"
    MaxContacts,              \* plan.Limits.MaxContacts, 0 = unlimited
    ContactsCompactThreshold, \* log tail that triggers a compaction
    MaxEdits,                 \* bound: edits made in the UI
    MaxFaults,                \* bound: failures, crashes and log-outs
    CompactionRaces,          \* may a compaction fall inside another device's pass?
    CallsFail,                \* may a network or disk call of a pass fail?
    Crashes,                  \* may the process die in the middle of a pass?
    EditsRace                 \* may the UI edit between a pass's Load and its Save?

ASSUME ConstantsAssumption ==
    /\ IsFiniteSet(Alias)
    /\ Absent \notin Contact
    /\ MaxContacts \in Nat
    /\ ContactsCompactThreshold \in Nat
    /\ MaxEdits \in Nat
    /\ MaxFaults \in Nat
    /\ {CompactionRaces, CallsFail, Crashes, EditsRace} \subseteq BOOLEAN

VARIABLES
    log,        \* server: every op ever appended, in seq order
    snap,       \* server: the contacts blob [ver, through, contacts]
    live,       \* live[d]: the contact store (contacts.json)
    shadow,     \* shadow[d]: contacts_shadow.json, the set as of the last sync
    hasShadow,  \* hasShadow[d]: does the shadow file exist?
    pos,        \* pos[d]: the persisted ContactsSyncState [seq, ver]
    pc,         \* pc[d]: where d's pass stands
    st,         \* st[d]: the pass's copy of the position, updated in place
    remote,     \* remote[d]: the FetchSyncState answer [ver, through, max]
    local,      \* local[d]: the contact list the pass loaded
    base,       \* base[d]: the pass's working set
    first,      \* first[d]: res.FirstSeq of the pass's append
    edits,      \* number of UI edits so far
    faults      \* number of failures, crashes and log-outs so far

serverVars == <<log, snap>>
diskVars   == <<live, shadow, hasShadow, pos>>
passVars   == <<pc, st, remote, local, base, first>>
vars       == <<serverVars, diskVars, passVars, edits, faults>>

-----------------------------------------------------------------------------
(* Contact lists and ops.                                                  *)

ContactMap == [Alias -> Contact \cup {Absent}]

Empty == [a \in Alias |-> Absent]

Op == [id : Alias, val : Contact \cup {Absent}]

\* len(list): how many contacts a list holds.
Size(m) == Cardinality({a \in Alias : m[a] # Absent})

\* The aliases a diff turns into ops: a put for every new or changed contact, a
\* del for every one that is gone.
diffContacts(old, new) == {a \in Alias : new[a] # old[a]}

\* The order of the ops of one batch.  The code sorts by alias; their aliases are
\* distinct, so all that matters is that the order is fixed.
BatchOrder(ids) == CHOOSE f \in Bijection(1..Cardinality(ids), ids) : TRUE

Batch(ids, list) ==
    [i \in 1..Cardinality(ids) |->
        [id |-> BatchOrder(ids)[i], val |-> list[BatchOrder(ids)[i]]]]

\* Some op of ops with lo < seq <= hi is about alias a.
Touches(ops, a, lo, hi) == \E i \in (lo + 1)..hi : ops[i].id = a

\* The last of those ops.
LastOp(ops, a, lo, hi) ==
    CHOOSE i \in (lo + 1)..hi :
        /\ ops[i].id = a
        /\ \A j \in (i + 1)..hi : ops[j].id # a

\* Mutant of applyOps: the ids just written are not skipped.
applyOpsToAll(ops, m, lo, hi, skip) ==
    [a \in Alias |-> IF Touches(ops, a, lo, hi) THEN ops[LastOp(ops, a, lo, hi)].val ELSE m[a]]

\* The loop over applyContactOp / applyGapOps: the ops with lo < seq <= hi in seq
\* order on top of list m, ignoring the aliases in skip.
applyOps(ops, m, lo, hi, skip) ==
    [a \in Alias |->
        IF a \notin skip /\ Touches(ops, a, lo, hi)
          THEN ops[LastOp(ops, a, lo, hi)].val
          ELSE m[a]]

\* The loop over applyPlainOp: the local ops on top of list m.
applyLocal(m, ids, list) == [a \in Alias |-> IF a \in ids THEN list[a] ELSE m[a]]

\* Mutant of OldestSince: the cursor of the fetch is off by one.
OldestSinceSkipsOne(seq) == IF seq < snap.through THEN snap.through ELSE seq + 1

\* FetchOpsSince(seq) returns the ops after this one: older ones are truncated.
OldestSince(seq) == IF seq < snap.through THEN snap.through ELSE seq

-----------------------------------------------------------------------------
(* One pass of one device.  A step ends at a call another actor can run     *)
(* ahead of: a network call, a file write.                                  *)

NoPos    == [seq |-> 0, ver |-> 0]
NoRemote == [ver |-> 0, through |-> 0, max |-> 0]

Init ==
    /\ log = <<>>
    /\ snap = [ver |-> 0, through |-> 0, contacts |-> Empty]
    /\ live = [d \in Device |-> Empty]
    /\ shadow = [d \in Device |-> Empty]
    /\ hasShadow = [d \in Device |-> FALSE]
    /\ pos = [d \in Device |-> NoPos]
    /\ pc = [d \in Device |-> "idle"]
    /\ st = [d \in Device |-> NoPos]
    /\ remote = [d \in Device |-> NoRemote]
    /\ local = [d \in Device |-> Empty]
    /\ base = [d \in Device |-> Empty]
    /\ first = [d \in Device |-> 0]
    /\ edits = 0
    /\ faults = 0

Goto(d, label) == pc' = [pc EXCEPT ![d] = label]

\* The local edits of the pass: localOps, keyed by id.
Pending(d) == diffContacts(shadow[d], local[d])

\* RunSync: LoadPositions, then the one FetchSyncState all decisions rest on.
Begin(d) ==
    /\ pc[d] = "idle"
    /\ Goto(d, "load")
    /\ st' = [st EXCEPT ![d] = pos[d]]
    /\ remote' = [remote EXCEPT ![d] =
                    [ver |-> snap.ver, through |-> snap.through, max |-> Len(log)]]
    /\ UNCHANGED <<serverVars, diskVars, local, base, first, edits, faults>>

OverPlan(list) == MaxContacts > 0 /\ Size(list) > MaxContacts

\* Mutant of NothingMoved: new ops of other devices go unnoticed.
OnlyLocalMoves(d) ==
    /\ remote[d].ver = st[d].ver
    /\ diffContacts(shadow[d], live[d]) = {}
    /\ hasShadow[d]

\* The idle check: nothing moved on either side.
NothingMoved(d) ==
    /\ remote[d].ver = st[d].ver
    /\ remote[d].max = st[d].seq
    /\ diffContacts(shadow[d], live[d]) = {}
    /\ hasShadow[d]

\* The list is larger than the plan: the resource is skipped.
PlanBlocks(d) ==
    /\ pc[d] = "load"
    /\ OverPlan(live[d])
    /\ Goto(d, "positions")
    /\ UNCHANGED <<serverVars, diskVars, st, remote, local, base, first, edits, faults>>

UpToDate(d) ==
    /\ pc[d] = "load"
    /\ ~OverPlan(live[d])
    /\ NothingMoved(d)
    /\ Goto(d, "positions")
    /\ UNCHANGED <<serverVars, diskVars, st, remote, local, base, first, edits, faults>>

\* Load the store and the shadow; the working set starts as the shadow.
LoadLocal(d) ==
    /\ pc[d] = "load"
    /\ ~OverPlan(live[d])
    /\ ~NothingMoved(d)
    /\ Goto(d, "bootstrap")
    /\ local' = [local EXCEPT ![d] = live[d]]
    /\ base' = [base EXCEPT ![d] = shadow[d]]
    /\ UNCHANGED <<serverVars, diskVars, st, remote, first, edits, faults>>

\* Mutant of NeedsSnapshot: only a device that never synced downloads it.
NeedsFirstSnapshot(d) == remote[d].ver # 0 /\ ~hasShadow[d]

\* The snapshot moved (or this device never synced) and holds something the
\* device may not have.
NeedsSnapshot(d) ==
    /\ remote[d].ver # st[d].ver \/ ~hasShadow[d]
    /\ remote[d].ver # 0
    /\ ~hasShadow[d] \/ st[d].seq < remote[d].through

\* OpenBlob: the blob of this moment, under the through-seq of the state GET.
OpenSnapshot(d) ==
    /\ pc[d] = "bootstrap"
    /\ NeedsSnapshot(d)
    /\ base' = [base EXCEPT ![d] = snap.contacts]
    /\ st' = [st EXCEPT ![d] = [seq |-> remote[d].through, ver |-> remote[d].ver]]
    /\ Goto(d, "pull")
    /\ UNCHANGED <<serverVars, diskVars, remote, local, first, edits, faults>>

\* No download: only the snapshot's version is recorded.
RecordVersion(d) ==
    /\ pc[d] = "bootstrap"
    /\ ~NeedsSnapshot(d)
    /\ st' = [st EXCEPT ![d].ver = remote[d].ver]
    /\ Goto(d, "pull")
    /\ UNCHANGED <<serverVars, diskVars, remote, local, base, first, edits, faults>>

\* FetchOpsSince and the apply loop, when the state GET promised more ops.
Pull(d) ==
    /\ pc[d] = "pull"
    /\ IF remote[d].max > st[d].seq
         THEN LET lo == OldestSince(st[d].seq) IN
              /\ base' = [base EXCEPT ![d] = applyOps(log, @, lo, Len(log), {})]
              /\ st' = [st EXCEPT ![d].seq = IF Len(log) > lo THEN Len(log) ELSE @]
         ELSE UNCHANGED <<base, st>>
    /\ Goto(d, "push")
    /\ UNCHANGED <<serverVars, diskVars, remote, local, first, edits, faults>>

\* AppendOps: the server gives the batch the next seqs.
AppendOps(d) == log' = log \o Batch(Pending(d), local[d])

\* Local edits on top of what was pulled, then the append.
Push(d) ==
    /\ pc[d] = "push"
    /\ IF Pending(d) # {}
         THEN /\ AppendOps(d)
              /\ base' = [base EXCEPT ![d] = applyLocal(@, Pending(d), local[d])]
              /\ first' = [first EXCEPT ![d] = Len(log) + 1]
              /\ Goto(d, "gap")
         ELSE /\ UNCHANGED <<log, base, first>>
              /\ Goto(d, "save")
    /\ UNCHANGED <<snap, diskVars, st, remote, local, edits, faults>>

\* Ops that landed between the fetch and the append; ids just written keep our
\* version.  The position becomes res.LastSeq.
Gap(d) ==
    /\ pc[d] = "gap"
    /\ base' = [base EXCEPT ![d] =
                  IF first[d] > st[d].seq + 1
                    THEN applyOps(log, @, OldestSince(st[d].seq), first[d] - 1, Pending(d))
                    ELSE @]
    /\ st' = [st EXCEPT ![d].seq = first[d] + Cardinality(Pending(d)) - 1]
    /\ Goto(d, "save")
    /\ UNCHANGED <<serverVars, diskVars, remote, local, first, edits, faults>>

\* store.Save(merged): an atomic rename over the contact store.
SaveStore(d) ==
    /\ pc[d] = "save"
    /\ live' = [live EXCEPT ![d] = base[d]]
    /\ Goto(d, "shadow")
    /\ UNCHANGED <<serverVars, shadow, hasShadow, pos, st, remote, local, base, first,
                   edits, faults>>

\* Mutant of SaveShadow: the shadow becomes the list the pass loaded.
SaveShadowOfLoaded(d) ==
    /\ pc[d] = "shadow"
    /\ shadow' = [shadow EXCEPT ![d] = local[d]]
    /\ hasShadow' = [hasShadow EXCEPT ![d] = TRUE]
    /\ Goto(d, "compact")
    /\ UNCHANGED <<serverVars, live, pos, st, remote, local, base, first, edits, faults>>

\* saveContactsShadow(merged).
SaveShadow(d) ==
    /\ pc[d] = "shadow"
    /\ shadow' = [shadow EXCEPT ![d] = base[d]]
    /\ hasShadow' = [hasShadow EXCEPT ![d] = TRUE]
    /\ Goto(d, "compact")
    /\ UNCHANGED <<serverVars, live, pos, st, remote, local, base, first, edits, faults>>

\* Mutant of CompactOps: the log is truncated to its end.
CompactWholeLog(contacts, through, prev) ==
    /\ prev = snap.ver
    /\ snap' = [ver |-> snap.ver + 1, through |-> Len(log), contacts |-> contacts]

\* The server accepts a snapshot against the version it holds, and truncates.
CompactOps(contacts, through, prev) ==
    /\ prev = snap.ver
    /\ snap' = [ver |-> snap.ver + 1, through |-> through, contacts |-> contacts]

\* Between its state GET and its last fetch a pass relies on the log's tail.
ReadsLog(d) == pc[d] \in {"load", "bootstrap", "pull", "push", "gap"}

TailIsLong(d) == st[d].seq - remote[d].through > ContactsCompactThreshold

MayCompact(d) == CompactionRaces \/ \A e \in Device \ {d} : ~ReadsLog(e)

\* Mutant of Compact: a conflict is answered by a retry with the current version.
CompactRetries(d) ==
    /\ pc[d] = "compact"
    /\ IF TailIsLong(d)
         THEN /\ CompactOps(base[d], st[d].seq, snap.ver)
              /\ st' = [st EXCEPT ![d].ver = snap.ver + 1]
         ELSE UNCHANGED <<snap, st>>
    /\ Goto(d, "positions")
    /\ UNCHANGED <<log, diskVars, remote, local, base, first, edits, faults>>

\* compactContacts: snapshot and truncate; a conflict means that another device
\* did it first and is ignored.
Compact(d) ==
    /\ pc[d] = "compact"
    /\ TailIsLong(d) => MayCompact(d)
    /\ IF TailIsLong(d) /\ st[d].ver = snap.ver
         THEN /\ CompactOps(base[d], st[d].seq, st[d].ver)
              /\ st' = [st EXCEPT ![d].ver = snap.ver + 1]
         ELSE UNCHANGED <<snap, st>>
    /\ Goto(d, "positions")
    /\ UNCHANGED <<log, diskVars, remote, local, base, first, edits, faults>>

ForgetPass(d) ==
    /\ Goto(d, "idle")
    /\ st' = [st EXCEPT ![d] = NoPos]
    /\ remote' = [remote EXCEPT ![d] = NoRemote]
    /\ local' = [local EXCEPT ![d] = Empty]
    /\ base' = [base EXCEPT ![d] = Empty]
    /\ first' = [first EXCEPT ![d] = 0]

\* RunSync's SavePositions, reached whether or not SyncContactsOps failed.
SavePositions(d) ==
    /\ pc[d] = "positions"
    /\ pos' = [pos EXCEPT ![d] = st[d]]
    /\ ForgetPass(d)
    /\ UNCHANGED <<serverVars, live, shadow, hasShadow, edits, faults>>

-----------------------------------------------------------------------------
(* The environment: the user, failing calls, crashes, log-outs.             *)

\* The pass has read the store and will overwrite it.
HoldsCopy(d) == pc[d] \in {"bootstrap", "pull", "push", "gap", "save"}

\* Add, Remove, SetCloudConnection, MarkConnectedByFingerprint: the store's
\* load-modify-save mutators.
Edit(d, a, c) ==
    /\ edits < MaxEdits
    /\ EditsRace \/ ~HoldsCopy(d)
    /\ live[d][a] # c
    /\ live' = [live EXCEPT ![d][a] = c]
    /\ edits' = edits + 1
    /\ UNCHANGED <<serverVars, shadow, hasShadow, pos, passVars, faults>>

Fault ==
    /\ faults < MaxFaults
    /\ faults' = faults + 1

\* A call of the pass returns an error before it had an effect: GetPlan, OpenBlob,
\* FetchOpsSince, AppendOps, a file write, CompactOps.  The pass is recorded as
\* skipped and RunSync goes on to save the position as far as it got.
CallFails(d) ==
    /\ CallsFail
    /\ pc[d] \notin {"idle", "positions"}
    /\ Fault
    /\ Goto(d, "positions")
    /\ UNCHANGED <<serverVars, diskVars, st, remote, local, base, first, edits>>

\* The fetched op after n does not decrypt or parse: the ops up to n were applied
\* to the working set, which is dropped, and counted in st.Seq, which is not.
DecryptFails(d) ==
    /\ CallsFail
    /\ pc[d] = "pull"
    /\ remote[d].max > st[d].seq
    /\ Fault
    /\ \E n \in (OldestSince(st[d].seq) + 1)..(Len(log) - 1) :
          st' = [st EXCEPT ![d].seq = n]
    /\ Goto(d, "positions")
    /\ UNCHANGED <<serverVars, diskVars, remote, local, base, first, edits>>

\* The server appended the batch but the answer was lost.
AppendAnswerLost(d) ==
    /\ CallsFail
    /\ pc[d] = "push"
    /\ Pending(d) # {}
    /\ Fault
    /\ AppendOps(d)
    /\ Goto(d, "positions")
    /\ UNCHANGED <<snap, diskVars, st, remote, local, base, first, edits>>

\* The server stored the snapshot but the answer was lost.
CompactAnswerLost(d) ==
    /\ CallsFail
    /\ pc[d] = "compact"
    /\ TailIsLong(d)
    /\ MayCompact(d)
    /\ Fault
    /\ CompactOps(base[d], st[d].seq, st[d].ver)
    /\ Goto(d, "positions")
    /\ UNCHANGED <<log, diskVars, st, remote, local, base, first, edits>>

\* The process dies; what a call has written stays, the position is not saved.
Crash(d) ==
    /\ Crashes
    /\ pc[d] # "idle"
    /\ Fault
    /\ ForgetPass(d)
    /\ UNCHANGED <<serverVars, diskVars, edits>>

\* LogOut clears the stored session and with it the positions; the client then
\* calls RemoveContactsShadow.
LogOut(d) ==
    /\ pc[d] = "idle"
    /\ hasShadow[d]
    /\ Fault
    /\ pos' = [pos EXCEPT ![d] = NoPos]
    /\ shadow' = [shadow EXCEPT ![d] = Empty]
    /\ hasShadow' = [hasShadow EXCEPT ![d] = FALSE]
    /\ UNCHANGED <<serverVars, live, passVars, edits>>

-----------------------------------------------------------------------------

PassStep(d) ==
    \/ PlanBlocks(d) \/ UpToDate(d) \/ LoadLocal(d)
    \/ OpenSnapshot(d) \/ RecordVersion(d)
    \/ Pull(d) \/ Push(d) \/ Gap(d)
    \/ SaveStore(d) \/ SaveShadow(d) \/ Compact(d) \/ SavePositions(d)

Environment(d) ==
    \/ \E a \in Alias, c \in Contact \cup {Absent} : Edit(d, a, c)
    \/ CallFails(d) \/ DecryptFails(d)
    \/ AppendAnswerLost(d) \/ CompactAnswerLost(d)
    \/ Crash(d) \/ LogOut(d)

Next == \E d \in Device : Begin(d) \/ PassStep(d) \/ Environment(d)

Spec == Init /\ [][Next]_vars

(***************************************************************************)
(* Auto-sync runs a pass again and again (a timer, and every push event),  *)
(* and a pass that was started runs to its end.  Compact is strongly fair  *)
(* because without CompactionRaces it waits for a moment at which no other *)
(* device is reading the log, and such moments recur.                      *)
(***************************************************************************)
Fairness ==
    \A d \in Device : WF_vars(Begin(d)) /\ WF_vars(PassStep(d)) /\ SF_vars(Compact(d))

FairSpec == Spec /\ Fairness

-----------------------------------------------------------------------------
(* Properties.                                                              *)

\* Value v is what the first n ops of ops say of alias a.
Latest(ops, a, n, v) ==
    \/ /\ v = Absent
       /\ \A i \in 1..n : ops[i].id # a
    \/ \E i \in 1..n : /\ ops[i].id = a
                       /\ ops[i].val = v
                       /\ \A j \in (i + 1)..n : ops[j].id # a

\* List m is the last-writer-wins outcome of the first n ops of ops.
Outcome(ops, m, n) == \A a \in Alias : Latest(ops, a, n, m[a])

Label == {"idle", "load", "bootstrap", "pull", "push", "gap", "save", "shadow",
          "compact", "positions"}

\* Type invariant.
TypeOK ==
    /\ log \in Seq(Op)
    /\ snap \in [ver : Nat, through : Nat, contacts : ContactMap]
    /\ live \in [Device -> ContactMap]
    /\ shadow \in [Device -> ContactMap]
    /\ hasShadow \in [Device -> BOOLEAN]
    /\ pos \in [Device -> [seq : Nat, ver : Nat]]
    /\ pc \in [Device -> Label]
    /\ st \in [Device -> [seq : Nat, ver : Nat]]
    /\ remote \in [Device -> [ver : Nat, through : Nat, max : Nat]]
    /\ local \in [Device -> ContactMap]
    /\ base \in [Device -> ContactMap]
    /\ first \in [Device -> Nat]
    /\ edits \in 0..MaxEdits
    /\ faults \in 0..MaxFaults

\* The persisted position never claims an op the device does not have: the shadow
\* is the outcome of the log up to the position or further, so fetching the ops
\* after the position misses nothing (ContactsSyncState: "the last op seq
\* applied/appended").
ShadowCoversPosition ==
    \A d \in Device :
        hasShadow[d] => \E n \in pos[d].seq..Len(log) : Outcome(log, shadow[d], n)

\* The snapshot stands for exactly the ops the server has deleted, so a device
\* that bootstraps from it and the log's tail loses nothing.
SnapshotIsTruncatedLog == Outcome(log, snap.contacts, snap.through)

\* What a pass writes to the store and to the shadow is the last-writer-wins
\* outcome of the log up to the position it reached, whichever way it got there
\* (snapshot, pull, race gap, retry after a crash).
MergedIsLogOutcome ==
    \A d \in Device :
        pc[d] \in {"save", "shadow", "compact"} => Outcome(log, base[d], st[d].seq)

\* Saving the merged list never undoes a local edit that is not in the log yet:
\* an alias on which the store and the shadow differ keeps its value.
LocalEditsSurvive ==
    [][\A d \in Device :
         SaveStore(d) =>
             \A a \in Alias : live[d][a] # shadow[d][a] => live'[d][a] = live[d][a]]_vars

\* Whatever fails, crashes or overlaps, an accepted snapshot is newer than the one
\* it replaces and never truncates ops the log does not hold: through_seq moves
\* forward only, and not past the end of the log.
TruncationMovesForward ==
    [][/\ snap'.ver >= snap.ver
       /\ snap' # snap => snap'.ver > snap.ver
       /\ snap'.through >= snap.through
       /\ snap'.through <= Len(log')]_vars

\* A device that recorded the snapshot's version has a position at or past its
\* through-seq: with the version unchanged, no op between the position and the
\* end of the log has been truncated.
VersionCoversTruncation ==
    \A d \in Device :
        /\ pos[d].ver = snap.ver => pos[d].seq >= snap.through
        /\ pos[d].ver <= snap.ver

\* When the user stops editing, every device ends up showing the outcome of the
\* whole log, with all of its own edits in it.
Convergence ==
    <>[](\A d \in Device :
           /\ Outcome(log, live[d], Len(log))
           /\ shadow[d] = live[d])

=============================================================================
