-------------------------- MODULE NotificationSync --------------------------
(***************************************************************************)
(* The notification drawer, cloud/notifications.go: the store's mutations, *)
(* its reconciliation with the share inbox and the pending inbox, the      *)
(* merge of two drawers and the sync through the "notifications" blob.     *)
(*                                                                         *)
(* A drawer (notifData, syncView) keeps its list of rows as a set of ids   *)
(* with the time each row was created: rows are listed newest first, and   *)
(* no two rows have the same time.  Likewise the list of tombstones is a   *)
(* set with the place of each: after a merge they are in the order of      *)
(* their ids, a later dismissal comes last.  Of a row's content only the   *)
(* time matters here; a share, an invite and a drain notice differ in      *)
(* their ids.  Clocks agree.                                               *)
(*                                                                         *)
(* SyncMergedBlob is one step here: GroupsSync has it read by read and     *)
(* write by write, and shows that under conflicts, lost answers and        *)
(* crashes it amounts to merging into the blob once.                       *)
(***************************************************************************)
EXTENDS Integers, FiniteSets

CONSTANTS
    Device,            \* the account's devices
    Share,             \* ids of share rows
    Invite,            \* ids of invite rows
    Drain,             \* ids of drain notices (fresh uuids)
    Past,              \* ids of rows that may have been dismissed before
    NoBlob,            \* the blob was never uploaded
    MaxId,             \* ids are the numbers 1..MaxId
    maxNotifications,  \* rows a drawer keeps
    maxDismissed,      \* tombstones a drawer keeps
    MaxEdits,          \* bound: arrivals, mutations, reconciliations
    MaxFaults          \* bound: syncs that fail

Id == Share \cup Invite \cup Drain

\* Rows with their times and flags; tombstones with their place in the list.
Drawer == [items : SUBSET Id, at : [Id -> Nat], seen : SUBSET Id,
           retired : SUBSET Id, tomb : SUBSET Id, place : [Id -> Nat]]

ASSUME DrawerAssumption ==
    /\ Id = 1..MaxId
    /\ Past \subseteq Id
    /\ MaxId \in Nat
    /\ maxNotifications \in Nat \ {0}
    /\ maxDismissed \in Nat \ {0}
    /\ MaxEdits \in Nat
    /\ MaxFaults \in Nat
    /\ NoBlob \notin Drawer
    /\ Share \cap Invite = {} /\ Share \cap Drain = {} /\ Invite \cap Drain = {}

VARIABLES
    inbox,    \* server: the shares that can be downloaded
    sent,     \* server: CreatedAt of each share, 0 before it is sent
    pending,  \* server: the contact requests that wait
    blob,     \* server: the synced drawer, NoBlob before the first upload
    drawer,   \* drawer[d]: the items and tombstones of d's file
    handled,  \* handled[d]: rows d has downloaded; never synced
    pc,       \* pc[d]: where d's Sync stands
    base,     \* base[d]: the view that Sync took from the store
    mine,     \* mine[d]: the merged view SyncMergedBlob returned
    now,      \* the clock
    used,     \* ids of rows that ever existed
    gone,     \* history: gone[d]: rows dismissed on d while it did not sync
    edits,
    faults

server   == <<inbox, sent, pending>>
syncVars == <<pc, base, mine>>
vars     == <<server, blob, drawer, handled, syncVars, now, used, gone, edits, faults>>

-----------------------------------------------------------------------------
(* Drawers.                                                                 *)

Nowhere == [i \in Id |-> 0]

EmptyDrawer == [items |-> {}, at |-> Nowhere, seen |-> {}, retired |-> {},
                tomb |-> {}, place |-> Nowhere]

On(f, S) == [i \in Id |-> IF i \in S THEN f[i] ELSE 0]

\* The n elements of S with the largest keys.
Last(S, key, n) == {i \in S : Cardinality({j \in S : key[j] > key[i]}) < n}

\* What save leaves of a drawer: the newest rows, the tombstones listed last.
Saved(v) ==
    LET kept == Last(v.items, v.at, maxNotifications)
        tomb == Last(v.tomb, v.place, maxDismissed)
    IN  [items |-> kept, at |-> On(v.at, kept), seen |-> v.seen \cap kept,
         retired |-> v.retired \cap kept, tomb |-> tomb, place |-> On(v.place, tomb)]

\* Rows R appear in a drawer, stamped by "at"; S of them count as seen.
Insert(v, R, at, S) ==
    [v EXCEPT !.items = @ \cup R,
              !.at = [i \in Id |-> IF i \in R THEN at[i] ELSE v.at[i]],
              !.seen = @ \cup S]

\* mergeRecord: the earlier CreatedAt of two copies.
Earlier(s, t) == IF s = 0 \/ (t # 0 /\ t < s) THEN t ELSE s

\* Mutant of MergeNotifications: the flags of the local copy are kept.
MergeKeepsLocalFlags(a, b) ==
    LET tomb == a.tomb \cup b.tomb
        rows == (a.items \cup b.items) \ tomb
    IN  Saved([items |-> rows, at |-> [i \in Id |-> Earlier(a.at[i], b.at[i])],
               seen |-> b.seen \cap rows,
               retired |-> (a.retired \cup b.retired) \cap rows,
               tomb |-> tomb, place |-> [i \in Id |-> i]])

\* Mutant of MergeNotifications: only rows dismissed on both sides are dropped.
MergeTombstonesOfBoth(a, b) ==
    LET tomb == a.tomb \cap b.tomb
        rows == (a.items \cup b.items) \ tomb
    IN  Saved([items |-> rows, at |-> [i \in Id |-> Earlier(a.at[i], b.at[i])],
               seen |-> (a.seen \cup b.seen) \cap rows,
               retired |-> (a.retired \cup b.retired) \cap rows,
               tomb |-> tomb, place |-> [i \in Id |-> i]])

\* Mutant of MergeNotifications: the cap cuts the other side's tombstones first.
MergeCutsForeign(a, b) ==
    LET tomb == a.tomb \cup b.tomb
        rows == (a.items \cup b.items) \ tomb
    IN  Saved([items |-> rows, at |-> [i \in Id |-> Earlier(a.at[i], b.at[i])],
               seen |-> (a.seen \cup b.seen) \cap rows,
               retired |-> (a.retired \cup b.retired) \cap rows,
               tomb |-> tomb, place |-> [i \in Id |-> IF i \in a.tomb THEN MaxId + i ELSE i]])

\* Rows union by id, flags OR together, tombstones union and win, both capped.
MergeNotifications(a, b) ==
    LET tomb == a.tomb \cup b.tomb
        rows == (a.items \cup b.items) \ tomb
    IN  Saved([items |-> rows, at |-> [i \in Id |-> Earlier(a.at[i], b.at[i])],
               seen |-> (a.seen \cup b.seen) \cap rows,
               retired |-> (a.retired \cup b.retired) \cap rows,
               tomb |-> tomb, place |-> [i \in Id |-> i]])

-----------------------------------------------------------------------------

\* The inbox as the devices list it after they dismissed "old", looked and synced.
Listed(old) ==
    Saved(Insert([EmptyDrawer EXCEPT !.tomb = old, !.place = On([i \in Id |-> i], old)],
                 inbox \ old, sent, {}))

\* Shares and requests may be waiting before a device first looks, or be listed or
\* dismissed.
Init ==
    /\ inbox \in SUBSET Share
    /\ sent = [i \in Id |-> IF i \in inbox THEN i ELSE 0]
    /\ pending \in SUBSET Invite
    /\ \/ /\ blob = NoBlob /\ drawer = [d \in Device |-> EmptyDrawer]
          /\ used = inbox \cup pending
       \/ \E old \in SUBSET Past :
             /\ blob = Listed(old) /\ drawer = [d \in Device |-> Listed(old)]
             /\ used = inbox \cup pending \cup old
    /\ handled = [d \in Device |-> {}]
    /\ pc = [d \in Device |-> "idle"]
    /\ base = [d \in Device |-> EmptyDrawer]
    /\ mine = [d \in Device |-> EmptyDrawer]
    /\ now = MaxId
    /\ gone = [d \in Device |-> drawer[d].tomb]
    /\ edits = 0
    /\ faults = 0

\* Every change is counted.  What it creates is stamped in the order of the ids.
Change == edits < MaxEdits /\ edits' = edits + 1

Stamp(i) == now + i

Tick == now' = now + MaxId

save(d, v) == drawer' = [drawer EXCEPT ![d] = Saved(v)]

\* A mutation that adds no row and dismisses none.
Touches(d) ==
    /\ handled' = [handled EXCEPT ![d] = @ \cap drawer'[d].items]
    /\ UNCHANGED <<server, blob, syncVars, now, used, gone, faults>>

-----------------------------------------------------------------------------
(* The server's side, as far as the drawer sees it.                         *)

ShareArrives(i) ==
    /\ Change
    /\ i \in Share \ used
    /\ inbox' = inbox \cup {i}
    /\ sent' = [sent EXCEPT ![i] = Stamp(i)]
    /\ used' = used \cup {i}
    /\ Tick
    /\ UNCHANGED <<pending, blob, drawer, handled, syncVars, gone, faults>>

\* A share expires, is downloaded once or is deleted.
ShareEnds(i) ==
    /\ Change
    /\ inbox' = inbox \ {i}
    /\ i \in inbox
    /\ UNCHANGED <<sent, pending, blob, drawer, handled, syncVars, now, used, gone, faults>>

InviteArrives(i) ==
    /\ Change
    /\ i \in Invite \ used
    /\ pending' = pending \cup {i}
    /\ used' = used \cup {i}
    /\ UNCHANGED <<inbox, sent, blob, drawer, handled, syncVars, now, gone, faults>>

InviteResolved(i) ==
    /\ Change
    /\ i \in pending
    /\ pending' = pending \ {i}
    /\ UNCHANGED <<inbox, sent, blob, drawer, handled, syncVars, now, used, gone, faults>>

-----------------------------------------------------------------------------
(* The store's mutations, each under its lock.                              *)

MarkAllSeen(d) ==
    /\ Change
    /\ drawer[d].items # drawer[d].seen
    /\ save(d, [drawer[d] EXCEPT !.seen = drawer[d].items])
    /\ Touches(d)

\* Removes the row and appends its tombstone.
Dismiss(d, i) ==
    LET v == drawer[d] IN
    /\ Change
    /\ i \in used
    /\ i \in v.items \/ i \notin v.tomb
    /\ save(d, [v EXCEPT !.items = @ \ {i},
                         !.tomb = @ \cup {i},
                         !.place = IF i \in v.tomb THEN @ ELSE [@ EXCEPT ![i] = MaxId + Stamp(i)]])
    /\ handled' = [handled EXCEPT ![d] = @ \cap drawer'[d].items]
    /\ gone' = IF pc[d] = "idle" THEN [gone EXCEPT ![d] = @ \cup {i}] ELSE gone
    /\ Tick
    /\ UNCHANGED <<server, blob, syncVars, used, faults>>

MarkHandled(d, i) ==
    /\ Change
    /\ i \in drawer[d].items
    /\ save(d, [drawer[d] EXCEPT !.seen = @ \cup {i}])
    /\ handled' = [handled EXCEPT ![d] = (@ \cup {i}) \cap drawer'[d].items]
    /\ UNCHANGED <<server, blob, syncVars, now, used, gone, faults>>

\* The sender's own row, made after the upload and before the inbox is read.
SeedSelfShare(d, i) ==
    /\ Change
    /\ i \in inbox
    /\ i \notin drawer[d].tomb \cup drawer[d].items
    /\ save(d, Insert(drawer[d], {i}, [j \in Id |-> Stamp(j)], {i}))
    /\ handled' = [handled EXCEPT ![d] = @ \cap drawer'[d].items]
    /\ Tick
    /\ UNCHANGED <<server, blob, syncVars, used, gone, faults>>

\* Rows of shares that left the inbox are retired, new shares become rows.
ReconcileShares(d) ==
    LET v    == drawer[d]
        over == {i \in v.items \cap Share : i \notin inbox \cup v.retired}
        new  == inbox \ (v.tomb \cup v.items)
    IN  /\ Change
        /\ over \cup new # {}
        /\ save(d, Insert([v EXCEPT !.retired = @ \cup over], new, sent, {}))
        /\ Touches(d)

\* Requests that wait become rows, rows of resolved requests go, untombstoned.
ReconcilePending(d) ==
    LET v    == drawer[d]
        over == (v.items \cap Invite) \ pending
        new  == pending \ (v.tomb \cup v.items)
    IN  /\ Change
        /\ over \cup new # {}
        /\ save(d, Insert([v EXCEPT !.items = @ \ over], new, [j \in Id |-> Stamp(j)], {}))
        /\ handled' = [handled EXCEPT ![d] = @ \cap drawer'[d].items]
        /\ Tick
        /\ UNCHANGED <<server, blob, syncVars, used, gone, faults>>

\* Each event of a drain gets a row under a fresh id.
ApplyDrainReport(d, R) ==
    /\ Change
    /\ R # {}
    /\ R \cap used = {}
    /\ save(d, Insert(drawer[d], R, [j \in Id |-> Stamp(j)], {}))
    /\ handled' = [handled EXCEPT ![d] = @ \cap drawer'[d].items]
    /\ used' = used \cup R
    /\ Tick
    /\ UNCHANGED <<server, blob, syncVars, gone, faults>>

-----------------------------------------------------------------------------
(* Sync.                                                                    *)

Goto(d, label) == pc' = [pc EXCEPT ![d] = label]

Return(d) ==
    /\ Goto(d, "idle")
    /\ base' = [base EXCEPT ![d] = EmptyDrawer]
    /\ mine' = [mine EXCEPT ![d] = EmptyDrawer]

\* The view to be synced is taken, without the Handled flags.
Begin(d) ==
    /\ pc[d] = "idle"
    /\ base' = [base EXCEPT ![d] = drawer[d]]
    /\ Goto(d, "exchange")
    /\ UNCHANGED <<server, blob, drawer, handled, mine, now, used, gone, edits, faults>>

\* Mutant of Exchange: a device that has nothing to push takes nothing over either.
ExchangeUpToDate(d) ==
    LET merged == IF blob = NoBlob THEN base[d] ELSE MergeNotifications(base[d], blob)
    IN  /\ pc[d] = "exchange"
        /\ blob' = merged
        /\ IF merged = blob
           THEN Return(d)
           ELSE /\ mine' = [mine EXCEPT ![d] = merged]
                /\ Goto(d, "apply")
                /\ UNCHANGED base
        /\ UNCHANGED <<server, drawer, handled, now, used, gone, edits, faults>>

\* SyncMergedBlob: what the blob holds is merged into, or the blob is created.
Exchange(d) ==
    LET merged == IF blob = NoBlob THEN base[d] ELSE MergeNotifications(base[d], blob)
    IN  /\ pc[d] = "exchange"
        /\ blob' = merged
        /\ mine' = [mine EXCEPT ![d] = merged]
        /\ Goto(d, "apply")
        /\ UNCHANGED <<server, drawer, handled, base, now, used, gone, edits, faults>>

\* Mutant of ApplyMerged: rows handled since Begin are not looked up again.
ApplyForgetsHandled(d) ==
    /\ pc[d] = "apply"
    /\ save(d, mine[d])
    /\ handled' = [handled EXCEPT ![d] = @ \cap base[d].seen \cap drawer'[d].items]
    /\ Return(d)
    /\ UNCHANGED <<server, blob, now, used, gone, edits, faults>>

\* The merged rows and tombstones replace the store's; the file is read again
\* for the Handled flags.
ApplyMerged(d) ==
    /\ pc[d] = "apply"
    /\ save(d, mine[d])
    /\ handled' = [handled EXCEPT ![d] = @ \cap drawer'[d].items]
    /\ Return(d)
    /\ UNCHANGED <<server, blob, now, used, gone, edits, faults>>

\* A call fails, the attempts are used up or the process ends.
SyncFails(d) ==
    /\ pc[d] # "idle"
    /\ faults < MaxFaults
    /\ faults' = faults + 1
    /\ Return(d)
    /\ UNCHANGED <<server, blob, drawer, handled, now, used, gone, edits>>

-----------------------------------------------------------------------------

SyncStep(d) == Exchange(d) \/ ApplyMerged(d)

ServerStep ==
    \E i \in Id : ShareArrives(i) \/ ShareEnds(i) \/ InviteArrives(i) \/ InviteResolved(i)

StoreStep(d) ==
    \/ MarkAllSeen(d) \/ ReconcileShares(d) \/ ReconcilePending(d)
    \/ \E i \in Id : Dismiss(d, i) \/ MarkHandled(d, i)
    \/ \E i \in Share : SeedSelfShare(d, i)
    \/ \E R \in SUBSET Drain : ApplyDrainReport(d, R)

Next ==
    \/ ServerStep
    \/ \E d \in Device : Begin(d) \/ SyncStep(d) \/ StoreStep(d) \/ SyncFails(d)

Spec == Init /\ [][Next]_vars

\* The host syncs again and again; a sync that was begun goes on.
Fairness == \A d \in Device : WF_vars(Begin(d)) /\ WF_vars(SyncStep(d))

FairSpec == Spec /\ Fairness

-----------------------------------------------------------------------------
(* Properties.                                                              *)

Label == {"idle", "exchange", "apply"}

\* Type invariant: a drawer's flags belong to rows it lists, and no row of a
\* drawer is handled that it does not list.
TypeOK ==
    /\ inbox \in SUBSET Share
    /\ sent \in [Id -> Nat]
    /\ pending \in SUBSET Invite
    /\ blob \in Drawer \cup {NoBlob}
    /\ drawer \in [Device -> Drawer]
    /\ handled \in [Device -> SUBSET Id]
    /\ pc \in [Device -> Label]
    /\ base \in [Device -> Drawer]
    /\ mine \in [Device -> Drawer]
    /\ now \in Nat
    /\ used \in SUBSET Id
    /\ gone \in [Device -> SUBSET Id]
    /\ edits \in 0..MaxEdits
    /\ faults \in 0..MaxFaults
    /\ \A d \in Device : handled[d] \subseteq drawer[d].items

\* No cap can have been reached.
NothingCut ==
    /\ Cardinality(used) <= maxNotifications
    /\ Cardinality(used) <= maxDismissed

\* "tombstones its id so no re-poll (or another device) resurrects it": a row
\* dismissed outside a sync of its device stays away, whatever the inboxes list
\* and other devices still hold.  (A row dismissed during the round trip may come
\* back: ApplyMerged replaces the tombstones by those of the merge.)
NoResurrection ==
    NothingCut => \A d \in Device : gone[d] \cap drawer[d].items = {}

\* "Seen and Retired are MONOTONIC (only ever flip true)": a row that stays
\* listed loses a flag in one way only: it got the flag during a round trip, and
\* ApplyMerged overwrites it with the row as it was merged.
FlagsStay ==
    [][\A d \in Device : \A i \in drawer[d].items \cap drawer'[d].items :
          /\ i \in drawer[d].seen /\ (ApplyMerged(d) => i \in base[d].seen)
                => i \in drawer'[d].seen
          /\ i \in drawer[d].retired /\ (ApplyMerged(d) => i \in base[d].retired)
                => i \in drawer'[d].retired]_vars

\* "Per-device Handled ... preserved locally across the round trip": a row stays
\* handled as long as it is listed, even if it was handled while the sync ran.
HandledStays ==
    [][\A d \in Device : handled[d] \cap drawer'[d].items \subseteq handled'[d]]_vars

\* When nothing changes any more, all devices come to list the same rows with the
\* same flags and tombstones, although the caps cut rows and tombstones that other
\* devices still hold, and syncs fail: a tombstone that is cut may bring its row back,
\* but never to one device only, and the devices do not go on cutting each other's.
Convergence == <>[](\A d, e \in Device : drawer[d] = drawer[e])

=============================================================================
