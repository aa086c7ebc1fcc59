---------------------------- MODULE PendingInbox ----------------------------
(***************************************************************************)
(* Contact discovery between two accounts: adding each other from the      *)
(* directory, invitations and their acceptance, key rotations and          *)
(* revocations, all sent through the other's pending inbox and applied by  *)
(* DrainPending (cloud/discovery.go, pending.go, pending_apply.go,         *)
(* broadcast.go, directory.go; bundle/; contacts/lock.go, contact.go).     *)
(*                                                                         *)
(* A key is the number of the rotation that made it; 0 stands for the      *)
(* empty keys of a revoked contact.  A bundle's ID is its sender's and     *)
(* never changes, so every entry for the other account has the same one.   *)
(* The server is external: it keeps items until they are acknowledged,     *)
(* lists them in the order of their ids, in which they came, and routes a  *)
(* fingerprint to the account that publishes it.                           *)
(***************************************************************************)
EXTENDS Integers, Sequences

CONSTANTS
    Account,    \* two accounts
    Inviter,    \* those that send invitations
    Rotator,    \* those that rotate and revoke their key
    Friend,     \* other people, contacts that only the user touches
    Form,       \* forms of an accept's lock: "good", or "odd": its labels are invalid
    MaxKey,     \* bound: keys of one account
    MaxEvents,  \* bound: what users do
    MaxFaults   \* bound: skips, passes that end early, items nobody asked for

Stranger == MaxKey + 1   \* the key of somebody else

ASSUME PendingInboxAssumption ==
    /\ \A a, b, c \in Account : a = b \/ b = c \/ a = c
    /\ \A a \in Account : \E b \in Account : a # b
    /\ Inviter \subseteq Account /\ Rotator \subseteq Account
    /\ Form \subseteq {"good", "odd"}
    /\ MaxKey \in Nat \ {0}
    /\ MaxEvents \in Nat
    /\ MaxFaults \in Nat

VARIABLES
    key,        \* key[a]: the key of a's identity, 0 once it is revoked
    published,  \* server: published[a]: a's keys in the directory
    inbox,      \* server: inbox[a]: the set of a's pending items
    posted,     \* server: the last id given out
    file,       \* file[a]: contacts.json: [peer, friends], peer the entries for the other
    drain,      \* drain[a]: the variables of DrainPending
    shook,      \* history: shook[a]: a and the other agreed to connect
    upset,      \* history: upset[a]: what may have kept an update from a's contacts
    events      \* number of the users' events and of faults so far

server  == <<published, inbox, posted>>
history == <<shook, upset>>
vars    == <<key, server, file, drain, history, events>>

Other(a) == CHOOSE b \in Account : b # a

NoFile == [peer |-> <<>>, friends |-> {}]
NoPass == [pc |-> "idle", todo |-> {}, copy |-> NoFile]

Entry(lock, connection) ==
    [key |-> lock, previous |-> <<>>, connection |-> connection, cloud |-> TRUE]

\* The accounts do not know each other, or have connected before.
Init ==
    /\ key = [a \in Account |-> 1]
    /\ published = [a \in Account |-> {1}]
    /\ inbox = [a \in Account |-> {}]
    /\ posted = 0
    /\ \/ /\ file = [a \in Account |-> NoFile]
          /\ shook = [a \in Account |-> FALSE]
       \/ /\ file = [a \in Account |-> [peer |-> <<Entry(1, "connected")>>, friends |-> {}]]
          /\ shook = [a \in Account |-> TRUE]
    /\ drain = [a \in Account |-> NoPass]
    /\ upset = [a \in Account |-> {}]
    /\ events = [user |-> 0, fault |-> 0]

Event   == events.user < MaxEvents /\ events' = [events EXCEPT !.user = @ + 1]
Failure == events.fault < MaxFaults /\ events' = [events EXCEPT !.fault = @ + 1]

-----------------------------------------------------------------------------
(* Sending.                                                                 *)

\* "lock" is the key of the lock it carries, "revoked" the one it takes back.
Item(kind, lock, revoked, form) ==
    [id |-> posted + 1, kind |-> kind, lock |-> lock, revoked |-> revoked, form |-> form]

\* PostPending, PostPendingToFingerprint.
Post(b, item) ==
    /\ inbox' = [inbox EXCEPT ![b] = @ \cup {item}]
    /\ posted' = posted + 1

\* The entry that a fingerprint matches is the first with it.
Matches(peer, i, lock) == peer[i].key = lock /\ \A j \in 1..(i - 1) : peer[j].key # lock

\* contacts.SaveFromLock: matches the current fingerprint, else appends.
SaveFromLock(peer, lock) ==
    IF \E i \in DOMAIN peer : peer[i].key = lock
    THEN [i \in DOMAIN peer |->
            IF Matches(peer, i, lock) THEN [peer[i] EXCEPT !.cloud = TRUE] ELSE peer[i]]
    ELSE Append(peer, Entry(lock, ""))

\* Store.MarkConnectedByFingerprint; SetCloudConnection.
SetConnection(peer, lock, connection) ==
    [i \in DOMAIN peer |->
        IF Matches(peer, i, lock) THEN [peer[i] EXCEPT !.connection = connection] ELSE peer[i]]

\* Updates reach only the first of two entries.
Doubled(peer) == IF Len(peer) > 1 THEN {"two entries"} ELSE {}

\* A search hit that ParseDirectoryLock accepted is saved as a contact.
AddFromDirectory(a) ==
    /\ Event
    /\ \E lock \in published[Other(a)] :
          LET peer == SaveFromLock(file[a].peer, lock) IN
          /\ file' = [file EXCEPT ![a].peer = peer]
          /\ upset' = [upset EXCEPT ![a] = @ \cup Doubled(peer)]
    /\ UNCHANGED <<key, server, drain, shook>>

\* Mutant of Invite: the invitation itself connects.
InviteConnects(a) ==
    LET b == Other(a) IN
    /\ Event
    /\ a \in Inviter /\ key[a] # 0
    /\ \E i \in DOMAIN file[a].peer :
          LET lock == file[a].peer[i].key IN
          /\ lock # 0
          /\ file[a].peer[i].connection # "connected"
          /\ IF lock \in published[b]
             THEN /\ Post(b, Item("contact_request", key[a], 0, "good"))
                  /\ file' = [file EXCEPT ![a].peer = SetConnection(@, lock, "connected")]
             ELSE /\ file' = [file EXCEPT ![a].peer = SetConnection(@, lock, "unreachable")]
                  /\ UNCHANGED <<inbox, posted>>
    /\ UNCHANGED <<key, published, drain, history>>

\* InviteContact, SendFriendRequest; the state follows the answer.
Invite(a) ==
    LET b == Other(a) IN
    /\ Event
    /\ a \in Inviter /\ key[a] # 0
    /\ \E i \in DOMAIN file[a].peer :
          LET lock == file[a].peer[i].key IN
          /\ lock # 0
          /\ file[a].peer[i].connection # "connected"
          /\ IF lock \in published[b]
             THEN /\ Post(b, Item("contact_request", key[a], 0, "good"))
                  /\ file' = [file EXCEPT ![a].peer = SetConnection(@, lock, "invited")]
             ELSE /\ file' = [file EXCEPT ![a].peer = SetConnection(@, lock, "unreachable")]
                  /\ UNCHANGED <<inbox, posted>>
    /\ UNCHANGED <<key, published, drain, history>>

Without(items, id) == {item \in items : item.id # id}

\* The caller of AcceptContactRequest saves the requester.
SaveRequester(peer, lock) == SetConnection(SaveFromLock(peer, lock), lock, "connected")

\* AcceptContactRequest: the reply, then the ack, whose failure (~acked) leaves the
\* request; then the caller saves the requester as a connected contact.
AcceptContactRequest(a, acked, form) ==
    LET b == Other(a) IN
    /\ Event
    /\ key[a] # 0
    /\ \E request \in inbox[a] :
          LET peer == SaveRequester(file[a].peer, request.lock) IN
          /\ request.kind = "contact_request"
          /\ inbox' = [inbox EXCEPT ![a] = IF acked THEN Without(@, request.id) ELSE @,
                                    ![b] = @ \cup {Item("contact_accept", key[a], 0, form)}]
          /\ file' = IF acked THEN [file EXCEPT ![a].peer = peer] ELSE file
          /\ upset' = IF ~acked THEN upset
                      ELSE [upset EXCEPT ![a] = @ \cup Doubled(peer) \cup
                              (IF request.lock # key[b] THEN {"old request"} ELSE {})]
    /\ posted' = posted + 1
    /\ shook' = [x \in Account |-> TRUE]
    /\ UNCHANGED <<key, published, drain>>

\* The user declines: only the ack.
Decline(a) ==
    /\ Event
    /\ \E request \in inbox[a] :
          /\ request.kind = "contact_request"
          /\ inbox' = [inbox EXCEPT ![a] = Without(@, request.id)]
    /\ UNCHANGED <<key, published, posted, file, drain, history>>

\* broadcast: one item for each contact that is reachable; sends may fail.
Broadcast(a, item, failing) ==
    LET b == Other(a)
        peer == file[a].peer
        sent == {i \in DOMAIN peer : /\ ~failing /\ peer[i].cloud
                                     /\ peer[i].key # 0 /\ peer[i].key \in published[b]}
    IN  /\ inbox' = [inbox EXCEPT ![b] = @ \cup {[item EXCEPT !.id = posted + i] : i \in sent}]
        /\ posted' = posted + Len(peer)
        /\ upset' = IF sent = {} THEN [upset EXCEPT ![b] = @ \cup {"not sent"}] ELSE upset

\* A new key, published in place of the old one, and BroadcastRotation.
Rotate(a, failing) ==
    /\ Event
    /\ a \in Rotator
    /\ key[a] \in 1..(MaxKey - 1)
    /\ key' = [key EXCEPT ![a] = @ + 1]
    /\ published' = [published EXCEPT ![a] = {key[a] + 1}]
    /\ Broadcast(a, Item("rotation", key[a] + 1, key[a], "good"), failing)
    /\ UNCHANGED <<file, drain, shook>>

Revoke(a, failing) ==
    /\ Event
    /\ a \in Rotator
    /\ key[a] # 0
    /\ key' = [key EXCEPT ![a] = 0]
    /\ published' = [published EXCEPT ![a] = {}]
    /\ Broadcast(a, Item("revocation", 0, key[a], "good"), failing)
    /\ UNCHANGED <<file, drain, shook>>

\* An item arrives that is corrupt or not by the contact it names.
Forgery(a, kind) ==
    /\ Failure
    /\ \E revoked \in {file[a].peer[i].key : i \in DOMAIN file[a].peer} :
          Post(a, Item(kind, IF kind = "revocation" THEN 0 ELSE Stranger, revoked, "forged"))
    /\ UNCHANGED <<key, published, file, drain, history>>

\* An accept arrives of an invitation that was never sent.  The lock is properly signed:
\* its sender's, who is not in the directory, or the other's, as the directory has it.
Unasked(a) ==
    /\ Failure
    /\ \E lock \in published[Other(a)] \cup {Stranger} :
          Post(a, Item("contact_accept", lock, 0, "unasked"))
    /\ UNCHANGED <<key, published, file, drain, history>>

-----------------------------------------------------------------------------
(* The user's own changes of the contact list.                              *)

AddFriend(a, f) ==
    /\ Event
    /\ f \notin file[a].friends
    /\ file' = [file EXCEPT ![a].friends = @ \cup {f}]
    /\ UNCHANGED <<key, server, drain, history>>

RemovePeer(a) ==
    /\ Event
    /\ file[a].peer # <<>>
    /\ file' = [file EXCEPT ![a].peer = Tail(@)]
    /\ UNCHANGED <<key, server, drain, history>>

-----------------------------------------------------------------------------
(* DrainPending.                                                            *)

Pass(a, pass) == drain' = [drain EXCEPT ![a] = pass]
Goto(a, pc)   == drain' = [drain EXCEPT ![a].pc = pc]

\* ListPending; requests are counted and left.
List(a) ==
    LET items == {item \in inbox[a] : item.kind # "contact_request"} IN
    /\ drain[a].pc = "idle"
    /\ items # {}
    /\ Pass(a, [NoPass EXCEPT !.pc = "next", !.todo = items])
    /\ UNCHANGED <<key, server, file, history, events>>

First(items) == CHOOSE item \in items : \A other \in items : item.id <= other.id

Current(a) == First(drain[a].todo)

Rest(items) == items \ {First(items)}

\* Mutant of NextItem: the loop runs past the last item.
NextItemAlways(pass) == [NoPass EXCEPT !.pc = "next", !.todo = Rest(pass.todo)]

\* The pass's loop over the listed items.
NextItem(pass) ==
    [NoPass EXCEPT !.pc = IF Rest(pass.todo) = {} THEN "idle" ELSE "next",
                   !.todo = Rest(pass.todo)]

\* FetchPending, unlockFor and ApplyPending: which branch an item takes.  Of an accept,
\* VerifyLockSelfSig checks the lock by its own key, and nothing asks for an invitation.
Fetch(a) ==
    LET item == Current(a) IN
    /\ drain[a].pc = "next"
    /\ Goto(a, IF item.kind # "contact_accept" THEN "load"
               ELSE IF item.form = "forged" THEN "ack" ELSE "save")
    /\ UNCHANGED <<key, server, file, history, events>>

\* The fetch or the decryption fails: the item waits for a later pass.
Skip(a) ==
    /\ Failure
    /\ drain[a].pc = "next"
    /\ Pass(a, NextItem(drain[a]))
    /\ upset' = [upset EXCEPT ![a] = @ \cup {"skipped"}]
    /\ UNCHANGED <<key, server, file, shook>>

\* The lock of an accept is saved; one with invalid labels ends the pass.
SaveAccept(a) ==
    LET item == Current(a)
        peer == SaveFromLock(file[a].peer, item.lock)
    IN
    /\ drain[a].pc = "save"
    /\ IF item.form = "odd"
       THEN Pass(a, NoPass) /\ UNCHANGED <<file, upset>>
       ELSE /\ file' = [file EXCEPT ![a].peer = peer]
            /\ upset' = [upset EXCEPT ![a] = @ \cup Doubled(peer) \cup
                            (IF item.form = "unasked" THEN {"unasked"} ELSE {})]
            /\ Goto(a, "mark")
    /\ UNCHANGED <<key, server, shook, events>>

MarkConnected(a) ==
    /\ drain[a].pc = "mark"
    /\ file' = [file EXCEPT ![a].peer = SetConnection(@, Current(a).lock, "connected")]
    /\ Goto(a, "ack")
    /\ UNCHANGED <<key, server, history, events>>

\* Mutant of Verified: the revoked fingerprint is not compared with the contact's.
VerifiedNoContinuity(item, contact) ==
    item.form = "good"

\* Mutant of Verified: whose signature it is does not matter.
VerifiedNoSignature(item, contact) ==
    item.revoked = contact.key

\* VerifyRotation, VerifyRevocation: continuity with the stored key, by its signature.
Verified(item, contact) ==
    /\ item.form = "good"
    /\ item.revoked = contact.key

\* ApplyUpdate, ApplyRevoke: the old key goes to PreviousKeys.
Applied(item, contact) ==
    [contact EXCEPT !.previous = Append(@, contact.key), !.key = item.lock]

\* Mutant of LoadContacts: an update that does not verify is kept for the next pass.
LoadContactsKeepsRejected(a) ==
    LET item == Current(a)
        peer == file[a].peer
    IN
    /\ drain[a].pc = "load"
    /\ IF peer # <<>> /\ Verified(item, peer[1])
       THEN drain' = [drain EXCEPT ![a].pc = "store",
                                   ![a].copy = [file[a] EXCEPT !.peer[1] = Applied(item, @)]]
       ELSE Pass(a, NextItem(drain[a]))
    /\ UNCHANGED <<key, server, file, history, events>>

\* applyBundleToContacts: Load and ProcessImport; FindByID is the first entry.
LoadContacts(a) ==
    LET item == Current(a)
        peer == file[a].peer
    IN
    /\ drain[a].pc = "load"
    /\ IF peer # <<>> /\ Verified(item, peer[1])
       THEN drain' = [drain EXCEPT ![a].pc = "store",
                                   ![a].copy = [file[a] EXCEPT !.peer[1] = Applied(item, @)]]
       ELSE Goto(a, "ack")
    /\ UNCHANGED <<key, server, file, history, events>>

\* Store.Save of the whole list that was loaded.
StoreContacts(a) ==
    /\ drain[a].pc = "store"
    /\ file' = [file EXCEPT ![a] = drain[a].copy]
    /\ drain' = [drain EXCEPT ![a].pc = "ack", ![a].copy = NoFile]
    /\ UNCHANGED <<key, server, history, events>>

Ack(a) ==
    /\ drain[a].pc = "ack"
    /\ inbox' = [inbox EXCEPT ![a] = Without(@, Current(a).id)]
    /\ Pass(a, NextItem(drain[a]))
    /\ UNCHANGED <<key, published, posted, file, history, events>>

\* Mutant of PassFails: a save that fails is acknowledged all the same.
PassFailsAcked(a, deleted) ==
    /\ Failure
    /\ drain[a].pc \in {"save", "mark", "store", "ack"}
    /\ inbox' = [inbox EXCEPT ![a] = Without(@, Current(a).id)]
    /\ Pass(a, NoPass)
    /\ UNCHANGED <<key, published, posted, file, history>>

\* The ack or a save fails and ends the pass; the ack may have reached the server.
PassFails(a, deleted) ==
    /\ Failure
    /\ drain[a].pc \in {"save", "mark", "store", "ack"}
    /\ deleted => drain[a].pc = "ack"
    /\ inbox' = IF deleted THEN [inbox EXCEPT ![a] = Without(@, Current(a).id)] ELSE inbox
    /\ Pass(a, NoPass)
    /\ UNCHANGED <<key, published, posted, file, history>>

-----------------------------------------------------------------------------

DrainStep(a) ==
    \/ List(a) \/ Fetch(a) \/ SaveAccept(a) \/ MarkConnected(a)
    \/ LoadContacts(a) \/ StoreContacts(a) \/ Ack(a)

UserStep(a) ==
    \/ AddFromDirectory(a) \/ Invite(a) \/ Decline(a) \/ RemovePeer(a)
    \/ \E acked \in BOOLEAN, form \in Form : AcceptContactRequest(a, acked, form)
    \/ \E failing \in BOOLEAN : Rotate(a, failing) \/ Revoke(a, failing)
    \/ \E f \in Friend : AddFriend(a, f)

Fault(a) ==
    \/ Skip(a)
    \/ \E deleted \in BOOLEAN : PassFails(a, deleted)
    \/ \E kind \in {"contact_accept", "rotation", "revocation"} : Forgery(a, kind)
    \/ Unasked(a)

Next == \E a \in Account : DrainStep(a) \/ UserStep(a) \/ Fault(a)

Spec == Init /\ [][Next]_vars

\* Every sync drains the inbox, and a pass goes on.
FairSpec == Spec /\ \A a \in Account : WF_vars(DrainStep(a))

-----------------------------------------------------------------------------
(* Properties.                                                              *)

Lock == 1..Stranger
PendingItem == [id : Nat, kind : {"contact_request", "contact_accept", "rotation", "revocation"},
                lock : Lock \cup {0}, revoked : Lock \cup {0},
                form : {"good", "odd", "forged", "unasked"}]
Contact == [key : Lock \cup {0}, previous : Seq(Lock \cup {0}),
            connection : {"", "invited", "connected", "unreachable"}, cloud : BOOLEAN]
File == [peer : Seq(Contact), friends : SUBSET Friend]

\* Type invariant; an id is given out once, a pass has an item in hand until it ends,
\* and a copy of the contact list only between Load and Save.
TypeOK ==
    /\ key \in [Account -> 0..MaxKey]
    /\ published \in [Account -> SUBSET Lock]
    /\ inbox \in [Account -> SUBSET PendingItem]
    /\ posted \in Nat
    /\ \A a \in Account : \A x, y \in inbox[a] : x.id <= posted /\ (x.id = y.id => x = y)
    /\ file \in [Account -> File]
    /\ drain \in [Account -> [pc : {"idle", "next", "save", "mark", "load", "store", "ack"},
                              todo : SUBSET PendingItem, copy : File]]
    /\ \A a \in Account : /\ drain[a].pc = "idle" <=> drain[a].todo = {}
                          /\ drain[a].pc # "store" => drain[a].copy = NoFile
    /\ shook \in [Account -> BOOLEAN]
    /\ upset \in [Account -> SUBSET {"not sent", "skipped", "two entries", "old request",
                                     "unasked"}]
    /\ events \in [user : 0..MaxEvents, fault : 0..MaxFaults]

\* "a stranger cannot substitute or revoke keys": no update gives a contact another
\* person's key, and its keys are emptied only if the other account revoked them, whatever
\* is forged, unasked for, delivered twice or applied from a list that has changed since.
\* Somebody else's key is only ever an entry of its own, as it was saved.
ContactKeysAreGenuine ==
    \A a \in Account : \A i \in DOMAIN file[a].peer :
        LET c == file[a].peer[i] IN
        /\ c.key = Stranger => c.previous = <<>>
        /\ c.key = 0 => key[Other(a)] = 0
        /\ \A n \in DOMAIN c.previous : c.previous[n] # Stranger

\* An update that is delivered again, because its ack failed, is not applied again:
\* a contact's keys only go forward, and each is retired once.
AppliedOnce ==
    \A a \in Account : \A i \in DOMAIN file[a].peer :
        LET c == file[a].peer[i] IN
        /\ \A m, n \in DOMAIN c.previous : m < n => c.previous[m] < c.previous[n]
        /\ \A n \in DOMAIN c.previous : c.key = 0 \/ c.previous[n] < c.key

\* "they accepted our invite or we accepted theirs": a contact is connected only after one
\* of the two accepted, or after an accept that nobody asked for was saved, through
\* rotations, forged and repeated items, saves that fail and lists written back.
ConnectedIsMutual ==
    \A a \in Account : \A i \in DOMAIN file[a].peer :
        file[a].peer[i].connection = "connected" => shook[a] \/ "unasked" \in upset[a]

\* "the handshake completed ...; NEVER inferred", whatever accepts arrive.
\* (The code does not keep this one: README, Findings.)
NeverInferred ==
    \A a \in Account : \A i \in DOMAIN file[a].peer :
        file[a].peer[i].connection = "connected" => shook[a]

\* Once the inbox is empty, a contact has the other's current key: no rotation or
\* revocation is lost between its post and the contact list.  The exceptions: it was
\* not sent; an item was skipped, so that a later one was judged, and dropped, against
\* a key that was too old; a key was saved that the contact does not have yet, or no
\* longer has, and now there are two entries of which updates only reach the first; the
\* user accepted a request from before the last rotation, which found no contact; or an
\* accept that nobody asked for was saved, with the other's ID.
KeysConverge ==
    \A a \in Account :
        /\ file[a].peer # <<>>
        /\ drain[a].pc = "idle"
        /\ \A item \in inbox[a] : item.kind = "contact_request"
        /\ upset[a] = {}
        => file[a].peer[1].key = key[Other(a)]

\* A lock with invalid labels is first in line.
Blocked(a, id) ==
    \E item \in inbox[a] : item.kind = "contact_accept" /\ item.form = "odd" /\ item.id <= id

\* Every update is handled and acknowledged in the end, however often a fetch, a save
\* or an ack fails: the inbox is drained again and again.  Only behind a lock with
\* invalid labels, which ends every pass, do updates wait for ever.
UpdatesAreHandled ==
    \A a \in Account :
        []<>(\A item \in inbox[a] : item.kind = "contact_request" \/ Blocked(a, item.id))

\* "a background cloud sync and a UI action can't race and lose one of their writes": a
\* contact that the user added stays in the list.
\* (The code does not keep this one: README, Findings.)
FriendsStay ==
    [][\A a \in Account : file[a].friends \subseteq file'[a].friends]_vars

\* "re-adding the same person refreshes their labels instead of duplicating them".
\* (The code does not keep this one: README, Findings.)
OneEntryEach == \A a \in Account : Len(file[a].peer) <= 1

=============================================================================
