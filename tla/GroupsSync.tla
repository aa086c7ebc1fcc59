----------------------------- MODULE GroupsSync -----------------------------
(***************************************************************************)
(* Contact groups and their sync through a merged blob: groups/store.go,   *)
(* syncGroupsBlob of cloud/runsync.go, SyncMergedBlob of cloud/envelope.go *)
(* and the versioned blob of cloud/blob.go.                                *)
(*                                                                         *)
(* The server is external: a PUT is accepted against the current version   *)
(* only.  Versions grow and are only compared for equality, so a device    *)
(* keeps of the version it read whether that is still the blob's           *)
(* ("current"); version 0 means that the blob was never uploaded ("made"). *)
(* "plain" says that the stored bytes are not in the form a merge writes   *)
(* (the first upload is the local file as it is, in its own order): then   *)
(* bytes.Equal(merged, remote) is false even for equal views.              *)
(*                                                                         *)
(* Every device has its own clock: an edit may carry any time.             *)
(***************************************************************************)
EXTENDS GroupMerge, FiniteSets

CONSTANTS
    Device,                \* the account's devices
    mergeBlobMaxAttempts,  \* read-merge-write attempts of one sync
    MaxEdits,              \* bound: changes made in the UI
    MaxFaults,             \* bound: failed calls, lost answers, crashes
    EditsRace              \* may the UI write between SyncBytes and ApplyMerged?

ASSUME SyncAssumption ==
    /\ mergeBlobMaxAttempts \in Nat \ {0}
    /\ MaxEdits \in Nat
    /\ MaxFaults \in Nat
    /\ EditsRace \in BOOLEAN

VARIABLES
    blob,     \* server: [made, view, plain]
    live,     \* live[d]: groups.json
    used,     \* ids given out by newID
    pc,       \* pc[d]: where d's sync stands
    mine,     \* mine[d]: SyncMergedBlob's "local"
    current,  \* current[d]: is the version that d read still the blob's?
    attempt,  \* attempt[d]: the loop counter
    edits,    \* number of UI changes so far
    faults    \* number of failures so far

syncVars == <<pc, mine, current, attempt>>
vars     == <<blob, live, used, syncVars, edits, faults>>

Init ==
    /\ blob = [made |-> FALSE, view |-> EmptyView, plain |-> TRUE]
    /\ live = [d \in Device |-> EmptyView]
    /\ used = {}
    /\ pc = [d \in Device |-> "idle"]
    /\ mine = [d \in Device |-> EmptyView]
    /\ current = [d \in Device |-> FALSE]
    /\ attempt = [d \in Device |-> 0]
    /\ edits = 0
    /\ faults = 0

Goto(d, label) == pc' = [pc EXCEPT ![d] = label]

\* SyncMergedBlob and syncGroupsBlob return; their variables are gone.
Return(d) ==
    /\ Goto(d, "idle")
    /\ mine' = [mine EXCEPT ![d] = EmptyView]
    /\ attempt' = [attempt EXCEPT ![d] = 0]

-----------------------------------------------------------------------------
(* The store's mutators.                                                    *)

MayEdit(d) ==
    /\ edits < MaxEdits
    /\ EditsRace \/ pc[d] = "idle"
    /\ edits' = edits + 1

\* The name is free and the id is fresh.
Add(d, i, g) ==
    /\ MayEdit(d)
    /\ i \notin used
    /\ \A j \in Id : live[d].groups[j] # NoGroup => live[d].groups[j].name # g.name
    /\ live' = [live EXCEPT ![d] = [groups  |-> [@.groups EXCEPT ![i] = g],
                                    deleted |-> @.deleted \ {i}]]
    /\ used' = used \cup {i}
    /\ UNCHANGED <<blob, syncVars, faults>>

Edit(d, i, g) ==
    /\ MayEdit(d)
    /\ live[d].groups[i] # NoGroup
    /\ live' = [live EXCEPT ![d].groups[i] = g]
    /\ UNCHANGED <<blob, used, syncVars, faults>>

Remove(d, i) ==
    /\ MayEdit(d)
    /\ live[d].groups[i] # NoGroup
    /\ live' = [live EXCEPT ![d] = [groups  |-> [@.groups EXCEPT ![i] = NoGroup],
                                    deleted |-> @.deleted \cup {i}]]
    /\ UNCHANGED <<blob, used, syncVars, faults>>

-----------------------------------------------------------------------------
(* One sync of one device.                                                  *)

\* SyncBytes.
Begin(d) ==
    /\ pc[d] = "idle"
    /\ mine' = [mine EXCEPT ![d] = live[d]]
    /\ Goto(d, "open")
    /\ UNCHANGED <<blob, live, used, current, attempt, edits, faults>>

\* OpenBlob found what a merge would produce: there is nothing to push.
AlreadyMerged(d) ==
    /\ blob.made
    /\ ~blob.plain
    /\ MergeGroups(mine[d], blob.view) = blob.view

\* Mutant of OpenUpToDate: the sync returns what it was given.
OpenUpToDateKeepsLocal(d) ==
    /\ pc[d] = "open"
    /\ attempt[d] < mergeBlobMaxAttempts
    /\ AlreadyMerged(d)
    /\ Goto(d, "apply")
    /\ UNCHANGED <<blob, live, used, mine, current, attempt, edits, faults>>

OpenUpToDate(d) ==
    /\ pc[d] = "open"
    /\ attempt[d] < mergeBlobMaxAttempts
    /\ AlreadyMerged(d)
    /\ mine' = [mine EXCEPT ![d] = blob.view]
    /\ Goto(d, "apply")
    /\ UNCHANGED <<blob, live, used, current, attempt, edits, faults>>

\* Mutant of OpenAndMerge: what the cloud holds replaces the local view.
OpenAndTakeTheirs(d) ==
    /\ pc[d] = "open"
    /\ attempt[d] < mergeBlobMaxAttempts
    /\ ~AlreadyMerged(d)
    /\ current' = [current EXCEPT ![d] = TRUE]
    /\ mine' = [mine EXCEPT ![d] = IF blob.made THEN blob.view ELSE @]
    /\ Goto(d, "put")
    /\ UNCHANGED <<blob, live, used, attempt, edits, faults>>

\* OpenBlob and the merge; a blob that was never uploaded is created from local.
OpenAndMerge(d) ==
    /\ pc[d] = "open"
    /\ attempt[d] < mergeBlobMaxAttempts
    /\ ~AlreadyMerged(d)
    /\ current' = [current EXCEPT ![d] = TRUE]
    /\ mine' = [mine EXCEPT ![d] =
                  IF blob.made THEN MergeGroups(@, blob.view) ELSE @]
    /\ Goto(d, "put")
    /\ UNCHANGED <<blob, live, used, attempt, edits, faults>>

\* "too many version conflicts".
GiveUp(d) ==
    /\ pc[d] = "open"
    /\ attempt[d] = mergeBlobMaxAttempts
    /\ Return(d)
    /\ UNCHANGED <<blob, live, used, current, edits, faults>>

\* The blob has a new version: what was read of it before is out of date.
Outdated == current' = [d \in Device |-> FALSE]

\* Mutant of PutBlob: the server's version is not compared.
PutBlobUnconditionally(d) ==
    /\ blob' = [made |-> TRUE, view |-> mine[d], plain |-> FALSE]
    /\ Outdated

\* The server accepts the merged bytes against the version they were merged with.
PutBlob(d) ==
    /\ current[d]
    /\ \E plain \in IF blob.made THEN {FALSE} ELSE BOOLEAN :
          blob' = [made |-> TRUE, view |-> mine[d], plain |-> plain]
    /\ Outdated

PutAccepted(d) ==
    /\ pc[d] = "put"
    /\ PutBlob(d)
    /\ Goto(d, "apply")
    /\ UNCHANGED <<live, used, mine, attempt, edits, faults>>

\* IsConflict: fold our work forward and read again.
PutConflicts(d) ==
    /\ pc[d] = "put"
    /\ ~current[d]
    /\ attempt' = [attempt EXCEPT ![d] = @ + 1]
    /\ Goto(d, "open")
    /\ UNCHANGED <<blob, live, used, mine, current, edits, faults>>

\* ApplyMerged overwrites the store with the merged view.
ApplyMerged(d) ==
    /\ pc[d] = "apply"
    /\ live' = [live EXCEPT ![d] = mine[d]]
    /\ Return(d)
    /\ UNCHANGED <<blob, used, current, edits, faults>>

Fault ==
    /\ faults < MaxFaults
    /\ faults' = faults + 1

\* A call fails or the process dies: the sync leaves nothing behind.
SyncFails(d) ==
    /\ pc[d] # "idle"
    /\ Fault
    /\ Return(d)
    /\ current' = [current EXCEPT ![d] = FALSE]
    /\ UNCHANGED <<blob, live, used, edits>>

\* The server stored the blob but the answer was lost.
PutAnswerLost(d) ==
    /\ pc[d] = "put"
    /\ Fault
    /\ PutBlob(d)
    /\ Return(d)
    /\ UNCHANGED <<live, used, edits>>

-----------------------------------------------------------------------------

SyncStep(d) ==
    \/ OpenUpToDate(d) \/ OpenAndMerge(d) \/ GiveUp(d)
    \/ PutAccepted(d) \/ PutConflicts(d) \/ ApplyMerged(d)

UIStep(d) ==
    \E i \in Id : \/ \E g \in Group : Add(d, i, g) \/ Edit(d, i, g)
                  \/ Remove(d, i)

Next ==
    \E d \in Device :
        \/ Begin(d) \/ SyncStep(d) \/ UIStep(d)
        \/ SyncFails(d) \/ PutAnswerLost(d)

Spec == Init /\ [][Next]_vars

(***************************************************************************)
(* Auto-sync starts a sync again and again, and a started sync goes on     *)
(* until it ends.  That a device wins its PUT is not assumed: it may lose  *)
(* every race and give up.                                                 *)
(***************************************************************************)
Fairness == \A d \in Device : WF_vars(Begin(d)) /\ WF_vars(SyncStep(d))

FairSpec == Spec /\ Fairness

-----------------------------------------------------------------------------
(* Properties.                                                              *)

Label == {"idle", "open", "put", "apply"}

\* Type invariant.
TypeOK ==
    /\ blob \in [made : BOOLEAN, view : View, plain : BOOLEAN]
    /\ live \in [Device -> View]
    /\ used \in SUBSET Id
    /\ pc \in [Device -> Label]
    /\ mine \in [Device -> View]
    /\ current \in [Device -> BOOLEAN]
    /\ attempt \in [Device -> 0..mergeBlobMaxAttempts]
    /\ edits \in 0..MaxEdits
    /\ faults \in 0..MaxFaults

\* The blob behaves as the register: under concurrent syncs, lost answers and
\* crashes every accepted PUT merges something into what the account held, so no
\* device's contribution is ever overwritten.
Register == INSTANCE GroupRegister WITH reg <- blob.view
BlobIsMergedInto == Register!Spec

\* ApplyMerged never takes from the store: each group of the device stays, in its
\* own or in a winning version, or is deleted, and no tombstone is dropped
\* ("can't race and lose one another's writes", groups/store.go).
ApplyKeepsLocal ==
    [][\A d \in Device : ApplyMerged(d) => Below(live[d], live'[d])]_vars

\* A deleted group does not come back on the device it was deleted on: no stale
\* copy resurrects it.
DeletedStaysDeleted ==
    [][\A d \in Device : \A i \in live[d].deleted :
          i \in live'[d].deleted /\ live'[d].groups[i] = NoGroup]_vars

\* When the user stops editing, all devices end up with the same groups, those
\* of the account, although a sync may give up after repeated conflicts: the same
\* ids, times, names and members, in whatever order each copy lists the members.
Convergence == <>[](\A d \in Device : SameGroups(live[d], blob.view))

\* ... and with the same bytes: "ties broken deterministically by canonical content
\* so the result is order-independent" (groups/merge.go:11).
OrderConverges == <>[](\A d \in Device : live[d] = blob.view)

=============================================================================
