------------------------- MODULE PendingInboxProofs -------------------------
(* Proofs about PendingInbox, for two accounts, any number of keys, events  *)
(* and other contacts: types, that a contact only ever has genuine keys,    *)
(* that each is retired once, where a connection comes from, and that a     *)
(* contact has the other's current key once the inbox is empty.             *)
EXTENDS PendingInbox, SequenceTheorems, WellFoundedInduction, TLAPS

-----------------------------------------------------------------------------
(* Accounts, items and lists.                                               *)

\* There are two accounts, each the other's other.
LEMMA OtherAccount ==
    ASSUME NEW a \in Account
    PROVE  /\ Other(a) \in Account
           /\ Other(a) # a
           /\ Other(Other(a)) = a
           /\ \A b \in Account : b = a \/ b = Other(a)
<1>1. \E b \in Account : b # a
  BY PendingInboxAssumption
<1>2. Other(a) \in Account /\ Other(a) # a
  BY <1>1 DEF Other
<1>3. \A b \in Account : b = a \/ b = Other(a)
  BY <1>2, PendingInboxAssumption
<1>4. \E b \in Account : b # Other(a)
  BY <1>2
<1>5. Other(Other(a)) \in Account /\ Other(Other(a)) # Other(a)
  BY <1>4 DEF Other
<1>6. QED
  BY <1>2, <1>3, <1>5

\* A nonempty set of naturals has a least element.
LEMMA LeastNatural ==
    ASSUME NEW T \in SUBSET Nat, T # {}
    PROVE  \E x \in T : \A y \in T : x <= y
<1> DEFINE R == OpToRel(<, Nat)
<1>1. IsWellFoundedOn(R, Nat)
  BY NatLessThanWellFounded
<1>2. \A x, y \in Nat : y < x => <<y, x>> \in R
  BY DEF OpToRel
<1> HIDE DEF R
<1>3. PICK x \in T : \A y \in T : ~(<<y, x>> \in R)
  BY <1>1, WFMin
<1>4. \A y \in T : ~(y < x)
  BY <1>2, <1>3
<1> QED
  BY <1>4

\* The items of a list that is not empty have a first.
LEMMA FirstItem ==
    ASSUME NEW items \in SUBSET PendingItem, items # {}
    PROVE  First(items) \in items /\ \A i \in items : First(items).id <= i.id
<1> DEFINE ids == {i.id : i \in items}
<1>1. ids \in SUBSET Nat /\ ids # {}
  BY DEF PendingItem
<1> HIDE DEF ids
<1>2. PICK n \in ids : \A m \in ids : n <= m
  BY <1>1, LeastNatural
<1>3. PICK first \in items : first.id = n
  BY <1>2 DEF ids
<1>4. \A i \in items : first.id <= i.id
  BY <1>2, <1>3 DEF ids
<1>5. \E item \in items : \A i \in items : item.id <= i.id
  BY <1>3, <1>4
<1>6. QED
  BY <1>5 DEF First

\* A function on 1..n is a sequence.
LEMMA MadeSeq ==
    ASSUME NEW S, NEW n \in Nat, NEW f \in [1..n -> S]
    PROVE  f \in Seq(S) /\ Len(f) = n
  BY SeqDef, LenProperties

Saved(new, peer, lock) ==
    /\ new \in Seq(Contact)
    /\ Len(new) = Len(peer) \/ Len(new) = Len(peer) + 1
    /\ \A i \in 1..Len(peer) : /\ new[i].key = peer[i].key
                               /\ new[i].previous = peer[i].previous
                               /\ new[i].connection = peer[i].connection
    /\ \A i \in 1..Len(new) : i \in 1..Len(peer) \/ new[i] = Entry(lock, "")

\* Saving a lock keeps the entries, their keys and connections, and may add one.
LEMMA SavedPeer ==
    ASSUME NEW peer \in Seq(Contact), NEW lock \in Lock \cup {0}
    PROVE  Saved(SaveFromLock(peer, lock), peer, lock)
<1> DEFINE new == SaveFromLock(peer, lock)
<1>1. Len(peer) \in Nat /\ DOMAIN peer = 1..Len(peer) /\ \A i \in 1..Len(peer) : peer[i] \in Contact
  BY LenProperties, ElementOfSeq
<1>2. Entry(lock, "") \in Contact
  <2>1. <<>> \in Seq(Lock \cup {0})
    BY EmptySeq
  <2>2. QED
    BY <2>1 DEF Entry, Contact
<1>3. CASE \E i \in DOMAIN peer : peer[i].key = lock
  <2> DEFINE f == [i \in 1..Len(peer) |-> IF Matches(peer, i, lock)
                                          THEN [peer[i] EXCEPT !.cloud = TRUE] ELSE peer[i]]
  <2>1. new = f
    BY <1>1, <1>3 DEF SaveFromLock
  <2>2. \A i \in 1..Len(peer) : f[i] \in Contact /\ f[i].key = peer[i].key
            /\ f[i].previous = peer[i].previous /\ f[i].connection = peer[i].connection
    <3>1. SUFFICES ASSUME NEW i \in 1..Len(peer)
          PROVE f[i] \in Contact /\ f[i].key = peer[i].key
            /\ f[i].previous = peer[i].previous /\ f[i].connection = peer[i].connection
      OBVIOUS
    <3>2. f[i] = peer[i] \/ f[i] = [peer[i] EXCEPT !.cloud = TRUE]
      BY <3>1
    <3>3. peer[i] \in Contact
      BY <1>1
    <3>4. QED
      BY <3>2, <3>3 DEF Contact
  <2>3. f \in [1..Len(peer) -> Contact]
    BY <2>2
  <2> HIDE DEF f
  <2>4. f \in Seq(Contact) /\ Len(f) = Len(peer)
    BY <2>3, <1>1, MadeSeq
  <2>5. QED
    BY <2>1, <2>2, <2>4, <1>1 DEF Saved
<1>4. CASE ~(\E i \in DOMAIN peer : peer[i].key = lock)
  <2> DEFINE e == Entry(lock, "")
             g == Append(peer, e)
  <2>1. new = g
    BY <1>4 DEF SaveFromLock
  <2> HIDE DEF e
  <2>2. /\ g \in Seq(Contact)
        /\ Len(g) = Len(peer) + 1
        /\ \A i \in 1..Len(peer) : g[i] = peer[i]
        /\ g[Len(peer) + 1] = e
    <3>1. e \in Contact
      BY <1>2 DEF e
    <3>2. QED
      BY <3>1, AppendProperties
  <2> HIDE DEF g, new
  <2>3. \A i \in 1..Len(g) : i \in 1..Len(peer) \/ g[i] = e
    BY <2>2, <1>1
  <2>4. Saved(g, peer, lock)
    BY <2>2, <2>3 DEF Saved, e
  <2>5. QED
    BY <2>1, <2>4 DEF new
<1>5. QED
  BY <1>3, <1>4

Marked(new, peer, lock, connection) ==
    /\ new \in Seq(Contact)
    /\ Len(new) = Len(peer)
    /\ \A i \in 1..Len(peer) :
          /\ new[i].key = peer[i].key
          /\ new[i].previous = peer[i].previous
          /\ \/ new[i].connection = peer[i].connection
             \/ new[i].connection = connection /\ peer[i].key = lock

\* Marking an entry keeps the entries and their keys.
LEMMA MarkedPeer ==
    ASSUME NEW peer \in Seq(Contact), NEW lock,
           NEW connection \in {"", "invited", "connected", "unreachable"}
    PROVE  Marked(SetConnection(peer, lock, connection), peer, lock, connection)
<1> DEFINE f == [i \in 1..Len(peer) |-> IF Matches(peer, i, lock)
                                        THEN [peer[i] EXCEPT !.connection = connection] ELSE peer[i]]
           Good(i) == /\ f[i].key = peer[i].key
                      /\ f[i].previous = peer[i].previous
                      /\ \/ f[i].connection = peer[i].connection
                         \/ f[i].connection = connection /\ peer[i].key = lock
<1>1. Len(peer) \in Nat /\ DOMAIN peer = 1..Len(peer) /\ \A i \in 1..Len(peer) : peer[i] \in Contact
  BY LenProperties, ElementOfSeq
<1>2. SetConnection(peer, lock, connection) = f
  BY <1>1 DEF SetConnection
<1>3. \A i \in 1..Len(peer) : f[i] \in Contact /\ Good(i)
  <2>1. SUFFICES ASSUME NEW i \in 1..Len(peer) PROVE f[i] \in Contact /\ Good(i)
    OBVIOUS
  <2>2. \/ f[i] = peer[i]
        \/ f[i] = [peer[i] EXCEPT !.connection = connection] /\ peer[i].key = lock
    BY <2>1 DEF Matches
  <2>3. peer[i] \in Contact
    BY <1>1
  <2>4. QED
    BY <2>2, <2>3 DEF Contact
<1>4. f \in [1..Len(peer) -> Contact]
  BY <1>3
<1> HIDE DEF f
<1>5. f \in Seq(Contact) /\ Len(f) = Len(peer)
  BY <1>4, <1>1, MadeSeq
<1>6. QED
  BY <1>2, <1>3, <1>5 DEF Marked

-----------------------------------------------------------------------------
(* Types.                                                                   *)

IdsFit(items, n) == \A x, y \in items : x.id <= n /\ (x.id = y.id => x = y)

Label == {"idle", "next", "save", "mark", "load", "store", "ack"}
PassType == [pc : Label, todo : SUBSET PendingItem, copy : File]
PassShape(p) == (p.pc = "idle" <=> p.todo = {}) /\ (p.pc # "store" => p.copy = NoFile)
Why == {"not sent", "skipped", "two entries", "old request", "unasked"}

KeysOK    == key \in [Account -> 0..MaxKey] /\ published \in [Account -> SUBSET Lock]
InboxOK   == /\ inbox \in [Account -> SUBSET PendingItem]
             /\ posted \in Nat
             /\ \A a \in Account : IdsFit(inbox[a], posted)
FileOK    == file \in [Account -> File]
DrainOK   == drain \in [Account -> PassType] /\ \A a \in Account : PassShape(drain[a])
Count     == [user : 0..MaxEvents, fault : 0..MaxFaults]
HistoryOK == /\ shook \in [Account -> BOOLEAN]
             /\ upset \in [Account -> SUBSET Why]
             /\ events \in Count

\* The type invariant, in parts.
LEMMA TypeParts == TypeOK <=> KeysOK /\ InboxOK /\ FileOK /\ DrainOK /\ HistoryOK
  BY DEF TypeOK, KeysOK, InboxOK, FileOK, DrainOK, HistoryOK, Count, IdsFit, Label, PassType,
         PassShape, Why

\* Numbers and forms that occur in items.
LEMMA LockFacts ==
    /\ Stranger \in Lock
    /\ 1..MaxKey \subseteq Lock
    /\ 0..MaxKey \subseteq Lock \cup {0}
    /\ Stranger \notin 0..MaxKey
  BY PendingInboxAssumption DEF Lock, Stranger

\* A list with other entries for the peer.
LEMMA PutPeer ==
    ASSUME NEW f \in [Account -> File], NEW a \in Account, NEW peer \in Seq(Contact)
    PROVE  LET g == [f EXCEPT ![a].peer = peer] IN
           /\ g \in [Account -> File]
           /\ g[a].peer = peer
           /\ \A b \in Account : b # a => g[b] = f[b]
<1>1. f[a] \in File /\ [f[a] EXCEPT !.peer = peer] \in File
  BY DEF File
<1>2. QED
  BY <1>1 DEF File

\* Fresh ids keep ids unique.
LEMMA FreshIds ==
    ASSUME NEW items \in SUBSET PendingItem, NEW m \in Nat, IdsFit(items, m),
           NEW new \in SUBSET PendingItem, NEW n \in Nat, m <= n,
           \A x \in new : m < x.id /\ x.id <= n,
           \A x, y \in new : x.id = y.id => x = y
    PROVE  IdsFit(items \cup new, n)
<1>1. \A x \in items \cup new : x.id \in Nat
  BY DEF PendingItem
<1>2. \A x \in items : x.id <= m
  BY DEF IdsFit
<1>3. \A x \in items, y \in new : x.id # y.id
  BY <1>1, <1>2
<1>4. \A x \in items \cup new : x.id <= n
  BY <1>1, <1>2
<1>5. \A x, y \in items : x.id = y.id => x = y
  BY DEF IdsFit
<1>6. QED
  BY <1>3, <1>4, <1>5 DEF IdsFit

\* One item is posted.
LEMMA PostOK ==
    ASSUME InboxOK, NEW b \in Account, NEW item \in PendingItem, item.id = posted + 1,
           Post(b, item)
    PROVE  InboxOK'
<1>1. posted \in Nat /\ posted' = posted + 1 /\ posted' \in Nat
  BY DEF InboxOK, Post
<1>2. inbox' \in [Account -> SUBSET PendingItem]
  BY DEF InboxOK, Post
<1>3. inbox'[b] = inbox[b] \cup {item} /\ \A x \in Account : x # b => inbox'[x] = inbox[x]
  BY DEF InboxOK, Post
<1>4. PICK n \in Nat : n = posted + 1 /\ n = posted'
  BY <1>1
<1>5. \A x \in Account : IdsFit(inbox[x] \cup {item}, n)
  <2>1. SUFFICES ASSUME NEW x \in Account PROVE IdsFit(inbox[x] \cup {item}, n)
    OBVIOUS
  <2>2. inbox[x] \in SUBSET PendingItem /\ IdsFit(inbox[x], posted) /\ posted <= n
    BY <1>1, <1>4 DEF InboxOK
  <2>3. \A y \in {item} : posted < y.id /\ y.id <= n
    BY <1>1, <1>4
  <2>4. {item} \in SUBSET PendingItem /\ \A y, z \in {item} : y.id = z.id => y = z
    OBVIOUS
  <2> HIDE DEF InboxOK
  <2>5. QED
    BY <1>1, <2>2, <2>3, <2>4, FreshIds
<1>6. \A x \in Account : IdsFit(inbox'[x], n)
  BY <1>3, <1>5 DEF IdsFit
<1>7. QED
  BY <1>1, <1>2, <1>4, <1>6 DEF InboxOK

\* Items are taken out.
LEMMA TakeOK ==
    ASSUME InboxOK, inbox' \in [Account -> SUBSET PendingItem], posted' = posted,
           \A a \in Account : inbox'[a] \subseteq inbox[a]
    PROVE  InboxOK'
  BY DEF InboxOK, IdsFit

\* The kinds of items that the model sends.
LEMMA ItemType ==
    ASSUME posted \in Nat, NEW kind \in {"contact_request", "contact_accept", "rotation", "revocation"},
           NEW lock \in Lock \cup {0}, NEW revoked \in Lock \cup {0},
           NEW form \in {"good", "odd", "forged", "unasked"}
    PROVE  Item(kind, lock, revoked, form) \in PendingItem /\
           Item(kind, lock, revoked, form).id = posted + 1
  BY DEF Item, PendingItem

\* What is under way.
LEMMA PassTypes ==
    /\ NoFile \in File
    /\ NoPass \in PassType /\ PassShape(NoPass)
<1>1. <<>> \in Seq(Contact)
  BY EmptySeq
<1>2. NoFile \in File
  BY <1>1 DEF NoFile, File
<1>3. QED
  BY <1>2 DEF NoPass, PassType, PassShape, Label

\* A pass with two fields changed.
LEMMA PassPut ==
    ASSUME NEW p \in PassType, NEW pc, NEW todo, NEW copy
    PROVE  /\ [p EXCEPT !.pc = pc, !.todo = todo] = [pc |-> pc, todo |-> todo, copy |-> p.copy]
           /\ [p EXCEPT !.pc = pc, !.copy = copy] = [pc |-> pc, todo |-> p.todo, copy |-> copy]
<1>1. PICK u : u = [p EXCEPT !.pc = pc, !.todo = todo]
  OBVIOUS
<1>2. u = [pc |-> pc, todo |-> todo, copy |-> p.copy]
  BY <1>1 DEF PassType
<1>3. PICK v : v = [p EXCEPT !.pc = pc, !.copy = copy]
  OBVIOUS
<1>4. v = [pc |-> pc, todo |-> p.todo, copy |-> copy]
  BY <1>3 DEF PassType
<1>5. QED
  BY <1>1, <1>2, <1>3, <1>4

\* The rest of a pass.
LEMMA NextItemType ==
    ASSUME NEW p \in PassType
    PROVE  /\ NextItem(p) \in PassType
           /\ PassShape(NextItem(p))
           /\ NextItem(p).todo = Rest(p.todo)
           /\ NextItem(p).copy = NoFile
           /\ NextItem(p).pc \in {"idle", "next"}
<1>1. Rest(p.todo) \subseteq p.todo
  BY DEF Rest
<1>2. p.todo \in SUBSET PendingItem
  BY DEF PassType
<1> DEFINE r == Rest(p.todo)
           q == IF r = {} THEN "idle" ELSE "next"
<1>3. NextItem(p) = [NoPass EXCEPT !.pc = q, !.todo = r]
  BY DEF NextItem
<1>4. r \in SUBSET PendingItem /\ q \in {"idle", "next"} /\ (q = "idle" <=> r = {})
  BY <1>1, <1>2
<1> HIDE DEF r, q
<1>5. NextItem(p) = [pc |-> q, todo |-> r, copy |-> NoFile]
  BY <1>3 DEF NoPass
<1>6. QED
  BY <1>4, <1>5, PassTypes DEF PassType, PassShape, Label, r

\* An event and a fault keep the count.
LEMMA EventOK == ASSUME HistoryOK, Event \/ Failure PROVE events' \in Count
<1>1. CASE Event
  BY <1>1, PendingInboxAssumption DEF HistoryOK, Event, Count
<1>2. CASE Failure
  BY <1>2, PendingInboxAssumption DEF HistoryOK, Failure, Count
<1>3. QED
  BY <1>1, <1>2

\* A saved lock, typed.
LEMMA AddOK == ASSUME TypeOK, NEW a \in Account, AddFromDirectory(a) PROVE TypeOK'
<1>1. KeysOK /\ InboxOK /\ FileOK /\ DrainOK /\ HistoryOK
  BY TypeParts
<1>2. PICK lock \in published[Other(a)] :
          /\ file' = [file EXCEPT ![a].peer = SaveFromLock(file[a].peer, lock)]
          /\ upset' = [upset EXCEPT ![a] = @ \cup Doubled(SaveFromLock(file[a].peer, lock))]
  BY DEF AddFromDirectory
<1>3. lock \in Lock \cup {0} /\ file[a].peer \in Seq(Contact)
  BY <1>1, OtherAccount DEF KeysOK, FileOK, File
<1>4. SaveFromLock(file[a].peer, lock) \in Seq(Contact)
  BY <1>3, SavedPeer DEF Saved
<1>5. FileOK'
  BY <1>1, <1>2, <1>4, PutPeer DEF FileOK
<1>6. HistoryOK'
  <2>1. Doubled(SaveFromLock(file[a].peer, lock)) \subseteq Why
    BY DEF Doubled, Why
  <2>2. shook' = shook
    BY DEF AddFromDirectory
  <2>3. events' \in Count
    BY <1>1, EventOK DEF AddFromDirectory
  <2>4. QED
    BY <1>1, <1>2, <2>1, <2>2, <2>3 DEF HistoryOK
<1>7. KeysOK' /\ InboxOK' /\ DrainOK'
  BY <1>1 DEF AddFromDirectory, KeysOK, InboxOK, DrainOK, server
<1>8. QED
  BY <1>5, <1>6, <1>7, TypeParts, PTL

\* An invitation, typed.
LEMMA InviteOK == ASSUME TypeOK, NEW a \in Account, Invite(a) PROVE TypeOK'
<1>1. KeysOK /\ InboxOK /\ FileOK /\ DrainOK /\ HistoryOK
  BY TypeParts
<1>2. KeysOK' /\ DrainOK' /\ HistoryOK'
  <2>1. events' \in Count
    BY <1>1, EventOK DEF Invite
  <2>2. QED
    BY <1>1, <2>1 DEF Invite, KeysOK, DrainOK, HistoryOK, history
<1>3. \E i \in DOMAIN file[a].peer : \E connection \in {"invited", "unreachable"} :
          /\ file' = [file EXCEPT ![a].peer = SetConnection(file[a].peer, file[a].peer[i].key, connection)]
          /\ \/ Post(Other(a), Item("contact_request", key[a], 0, "good"))
             \/ UNCHANGED <<inbox, posted>>
  BY DEF Invite
<1>4. PICK lock : \E connection \in {"invited", "unreachable"} :
          /\ file' = [file EXCEPT ![a].peer = SetConnection(file[a].peer, lock, connection)]
          /\ \/ Post(Other(a), Item("contact_request", key[a], 0, "good"))
             \/ UNCHANGED <<inbox, posted>>
  BY <1>3
<1>5. PICK connection \in {"invited", "unreachable"} :
          /\ file' = [file EXCEPT ![a].peer = SetConnection(file[a].peer, lock, connection)]
          /\ \/ Post(Other(a), Item("contact_request", key[a], 0, "good"))
             \/ UNCHANGED <<inbox, posted>>
  BY <1>4
<1>6. FileOK'
  <2>1. file[a].peer \in Seq(Contact)
    BY <1>1 DEF FileOK, File
  <2>2. SetConnection(file[a].peer, lock, connection) \in Seq(Contact)
    BY <2>1, MarkedPeer DEF Marked
  <2>3. QED
    BY <1>1, <1>5, <2>2, PutPeer DEF FileOK
<1>7. InboxOK'
  <2>1. key[a] \in Lock \cup {0} /\ 0 \in Lock \cup {0} /\ posted \in Nat
    BY <1>1, LockFacts DEF KeysOK, InboxOK
  <2>2. /\ Item("contact_request", key[a], 0, "good") \in PendingItem
        /\ Item("contact_request", key[a], 0, "good").id = posted + 1
    BY <2>1, ItemType
  <2>3. CASE Post(Other(a), Item("contact_request", key[a], 0, "good"))
    BY <1>1, <2>2, <2>3, PostOK, OtherAccount
  <2>4. CASE UNCHANGED <<inbox, posted>>
    BY <1>1, <2>4 DEF InboxOK
  <2>5. QED
    BY <1>5, <2>3, <2>4
<1>8. QED
  BY <1>2, <1>6, <1>7, TypeParts, PTL

\* An acceptance, typed.
LEMMA AcceptOK ==
    ASSUME TypeOK, NEW a \in Account, NEW acked \in BOOLEAN, NEW form \in Form,
           AcceptContactRequest(a, acked, form)
    PROVE  TypeOK'
<1> DEFINE b == Other(a)
           item == Item("contact_accept", key[a], 0, form)
<1>1. KeysOK /\ InboxOK /\ FileOK /\ DrainOK /\ HistoryOK
  BY TypeParts
<1>2. KeysOK' /\ DrainOK'
  BY <1>1 DEF AcceptContactRequest, KeysOK, DrainOK
<1>3. PICK request \in inbox[a] :
          LET peer == SaveRequester(file[a].peer, request.lock) IN
          /\ inbox' = [inbox EXCEPT ![a] = IF acked THEN Without(@, request.id) ELSE @,
                                    ![b] = @ \cup {item}]
          /\ file' = IF acked THEN [file EXCEPT ![a].peer = peer] ELSE file
          /\ upset' = IF ~acked THEN upset
                      ELSE [upset EXCEPT ![a] = @ \cup Doubled(peer) \cup
                              (IF request.lock # key[b] THEN {"old request"} ELSE {})]
  BY DEF AcceptContactRequest
<1>4. b \in Account /\ b # a
  BY OtherAccount
<1>5. FileOK'
  <2>1. file[a].peer \in Seq(Contact) /\ request.lock \in Lock \cup {0}
    <3>1. file[a].peer \in Seq(Contact)
      BY <1>1 DEF FileOK, File
    <3>2. request \in PendingItem
      BY <1>1 DEF InboxOK
    <3>3. QED
      BY <3>1, <3>2 DEF PendingItem
  <2>2. SaveRequester(file[a].peer, request.lock) \in Seq(Contact)
    BY <2>1, SavedPeer, MarkedPeer DEF SaveRequester, Saved, Marked
  <2>3. QED
    BY <1>1, <1>3, <2>2, PutPeer DEF FileOK
<1>6. HistoryOK'
  <2>1. Doubled(SaveRequester(file[a].peer, request.lock)) \subseteq Why /\ {"old request"} \subseteq Why
    BY DEF Doubled, Why
  <2>2. shook' \in [Account -> BOOLEAN]
    BY DEF AcceptContactRequest
  <2>3. events' \in Count
    BY <1>1, EventOK DEF AcceptContactRequest
  <2>4. upset' \in [Account -> SUBSET Why]
    BY <1>1, <1>3, <2>1 DEF HistoryOK
  <2>5. QED
    BY <2>2, <2>3, <2>4 DEF HistoryOK
<1>7. InboxOK'
  <2>1. key[a] \in Lock \cup {0} /\ 0 \in Lock \cup {0} /\ posted \in Nat
    BY <1>1, LockFacts DEF KeysOK, InboxOK
  <2>2. form \in {"good", "odd", "forged"}
    BY PendingInboxAssumption
  <2>3. item \in PendingItem /\ item.id = posted + 1
    BY <2>1, <2>2, ItemType
  <2> HIDE DEF item, b
  <2>4. PICK n \in Nat : n = posted + 1 /\ n = posted'
    <3>1. posted' = posted + 1
      BY DEF AcceptContactRequest
    <3>2. QED
      BY <2>1, <3>1
  <2>5. inbox \in [Account -> SUBSET PendingItem]
    BY <1>1 DEF InboxOK
  <2>6. inbox'[a] \subseteq inbox[a] /\ inbox'[b] = inbox[b] \cup {item}
        /\ inbox' \in [Account -> SUBSET PendingItem]
    BY <1>3, <1>4, <2>3, <2>5 DEF Without
  <2>7. \A x \in Account : inbox'[x] \subseteq inbox[x] \cup {item}
    BY <1>4, <2>6, OtherAccount DEF b
  <2>8. \A x \in Account : IdsFit(inbox[x] \cup {item}, n)
    <3>1. SUFFICES ASSUME NEW x \in Account PROVE IdsFit(inbox[x] \cup {item}, n)
      OBVIOUS
    <3>2. inbox[x] \in SUBSET PendingItem /\ IdsFit(inbox[x], posted) /\ posted <= n
      BY <1>1, <2>1, <2>4 DEF InboxOK
    <3>3. \A y \in {item} : posted < y.id /\ y.id <= n
      BY <2>1, <2>3, <2>4
    <3>4. {item} \in SUBSET PendingItem /\ \A y, z \in {item} : y.id = z.id => y = z
      BY <2>3
    <3>5. QED
      BY <2>1, <3>2, <3>3, <3>4, FreshIds
  <2>9. \A x \in Account : IdsFit(inbox'[x], n)
    BY <2>7, <2>8 DEF IdsFit
  <2>10. QED
    BY <2>4, <2>6, <2>9 DEF InboxOK
<1>8. QED
  BY <1>2, <1>5, <1>6, <1>7, TypeParts, PTL

Sent(item, new) ==
    /\ new \in SUBSET PendingItem
    /\ \A x \in new : /\ x.kind = item.kind /\ x.lock = item.lock
                      /\ x.revoked = item.revoked /\ x.form = item.form
                      /\ posted < x.id

Sends(b, item, new) ==
    /\ Sent(item, new)
    /\ inbox' = [inbox EXCEPT ![b] = @ \cup new]
    /\ \A x \in Account : upset[x] \subseteq upset'[x]
    /\ new = {} => "not sent" \in upset'[b]

\* A broadcast posts copies of the item with fresh ids, or is noted as not sent.
LEMMA BroadcastSends ==
    ASSUME InboxOK, FileOK, HistoryOK, NEW a \in Account, NEW item \in PendingItem,
           NEW failing, Broadcast(a, item, failing)
    PROVE  /\ InboxOK'
           /\ upset' \in [Account -> SUBSET Why]
           /\ \E new : Sends(Other(a), item, new)
<1> DEFINE b == Other(a)
           peer == file[a].peer
           sent == {i \in DOMAIN peer : /\ ~failing /\ peer[i].cloud
                                        /\ peer[i].key # 0 /\ peer[i].key \in published[b]}
           new == {[item EXCEPT !.id = posted + i] : i \in sent}
<1>1. b \in Account /\ posted \in Nat /\ inbox \in [Account -> SUBSET PendingItem]
  BY OtherAccount DEF InboxOK
<1>2. peer \in Seq(Contact) /\ Len(peer) \in Nat /\ sent \subseteq 1..Len(peer)
  <2>1. peer \in Seq(Contact)
    BY DEF FileOK, File
  <2>2. QED
    BY <2>1, LenProperties
<1>3. /\ inbox' = [inbox EXCEPT ![b] = @ \cup new]
      /\ posted' = posted + Len(peer)
      /\ upset' = IF sent = {} THEN [upset EXCEPT ![b] = @ \cup {"not sent"}] ELSE upset
  BY DEF Broadcast
<1>4. new = {} => sent = {}
  OBVIOUS
<1>5. \A x \in new : \E i \in 1..Len(peer) :
          /\ x = [item EXCEPT !.id = posted + i]
          /\ x.id = posted + i
  BY <1>2 DEF PendingItem
<1> HIDE DEF sent, b, peer
<1>6. \A x \in new : /\ x \in PendingItem
                     /\ x.kind = item.kind /\ x.lock = item.lock
                     /\ x.revoked = item.revoked /\ x.form = item.form
                     /\ posted < x.id /\ x.id <= posted + Len(peer)
  <2>1. SUFFICES ASSUME NEW x \in new
        PROVE /\ x \in PendingItem
              /\ x.kind = item.kind /\ x.lock = item.lock
              /\ x.revoked = item.revoked /\ x.form = item.form
              /\ posted < x.id /\ x.id <= posted + Len(peer)
    OBVIOUS
  <2>2. PICK i \in 1..Len(peer) : x = [item EXCEPT !.id = posted + i] /\ x.id = posted + i
    BY <1>5
  <2>3. posted + i \in Nat /\ posted < posted + i /\ posted + i <= posted + Len(peer)
    BY <1>1, <1>2
  <2>4. QED
    BY <2>2, <2>3 DEF PendingItem
<1>7. \A x, y \in new : x.id = y.id => x = y
  <2>1. SUFFICES ASSUME NEW x \in new, NEW y \in new, x.id = y.id PROVE x = y
    OBVIOUS
  <2>2. PICK i \in 1..Len(peer) : x = [item EXCEPT !.id = posted + i] /\ x.id = posted + i
    BY <1>5
  <2>3. PICK j \in 1..Len(peer) : y = [item EXCEPT !.id = posted + j] /\ y.id = posted + j
    BY <1>5
  <2>4. i = j
    BY <1>1, <1>2, <2>1, <2>2, <2>3
  <2>5. QED
    BY <2>2, <2>3, <2>4
<1> HIDE DEF new
<1>8. InboxOK'
  <2>1. PICK n \in Nat : n = posted + Len(peer) /\ n = posted' /\ posted <= n
    <3>1. posted + Len(peer) \in Nat /\ posted <= posted + Len(peer)
      BY <1>1, <1>2
    <3>2. QED
      BY <1>3, <3>1
  <2>2. new \in SUBSET PendingItem /\ \A x \in new : posted < x.id /\ x.id <= n
    BY <1>6, <2>1
  <2>3. inbox' \in [Account -> SUBSET PendingItem]
    BY <1>1, <1>3, <2>2
  <2>4. \A x \in Account : IdsFit(inbox[x] \cup new, n)
    <3>1. SUFFICES ASSUME NEW x \in Account PROVE IdsFit(inbox[x] \cup new, n)
      OBVIOUS
    <3>2. inbox[x] \in SUBSET PendingItem /\ IdsFit(inbox[x], posted)
      BY DEF InboxOK
    <3>3. QED
      BY <1>1, <1>7, <2>1, <2>2, <3>2, FreshIds
  <2>5. \A x \in Account : inbox'[x] \subseteq inbox[x] \cup new
    BY <1>1, <1>3
  <2>6. \A x \in Account : IdsFit(inbox'[x], n)
    BY <2>4, <2>5 DEF IdsFit
  <2>7. QED
    BY <2>1, <2>3, <2>6 DEF InboxOK
<1>9. upset' \in [Account -> SUBSET Why] /\ \A x \in Account : upset[x] \subseteq upset'[x]
  BY <1>1, <1>3 DEF HistoryOK, Why
<1>10. new = {} => "not sent" \in upset'[b]
  BY <1>1, <1>3, <1>4 DEF HistoryOK
<1>11. Sent(item, new)
  BY <1>6 DEF Sent
<1>12. Sends(b, item, new)
  BY <1>3, <1>9, <1>10, <1>11 DEF Sends
<1>13. QED
  BY <1>8, <1>9, <1>12 DEF b

\* A rotation, typed.
LEMMA RotateOK ==
    ASSUME TypeOK, NEW a \in Account, NEW failing, Rotate(a, failing)
    PROVE  /\ TypeOK'
           /\ \E new : Sends(Other(a), Item("rotation", key[a] + 1, key[a], "good"), new)
<1>1. KeysOK /\ InboxOK /\ FileOK /\ DrainOK /\ HistoryOK
  BY TypeParts
<1>2. key[a] \in 1..(MaxKey - 1) /\ key[a] + 1 \in 1..MaxKey /\ posted \in Nat
  BY <1>1, PendingInboxAssumption DEF Rotate, KeysOK, InboxOK
<1>3. key[a] \in Lock \cup {0} /\ key[a] + 1 \in Lock
  BY <1>1, <1>2, LockFacts DEF KeysOK
<1>4. Item("rotation", key[a] + 1, key[a], "good") \in PendingItem
  BY <1>2, <1>3, ItemType
<1>5. Broadcast(a, Item("rotation", key[a] + 1, key[a], "good"), failing)
  BY DEF Rotate
<1>6. /\ InboxOK'
      /\ upset' \in [Account -> SUBSET Why]
      /\ \E new : Sends(Other(a), Item("rotation", key[a] + 1, key[a], "good"), new)
  BY <1>1, <1>4, <1>5, BroadcastSends
<1>7. KeysOK'
  <2>1. key' = [key EXCEPT ![a] = key[a] + 1] /\ published' = [published EXCEPT ![a] = {key[a] + 1}]
    BY DEF Rotate
  <2>2. key[a] + 1 \in 0..MaxKey /\ {key[a] + 1} \in SUBSET Lock
    BY <1>2, <1>3, PendingInboxAssumption
  <2>3. QED
    BY <1>1, <2>1, <2>2 DEF KeysOK
<1>8. FileOK' /\ DrainOK' /\ HistoryOK'
  <2>1. events' \in Count
    BY <1>1, EventOK DEF Rotate
  <2>2. QED
    BY <1>1, <1>6, <2>1 DEF Rotate, FileOK, DrainOK, HistoryOK
<1>9. QED
  BY <1>6, <1>7, <1>8, TypeParts, PTL

\* A revocation, typed.
LEMMA RevokeOK ==
    ASSUME TypeOK, NEW a \in Account, NEW failing, Revoke(a, failing)
    PROVE  /\ TypeOK'
           /\ \E new : Sends(Other(a), Item("revocation", 0, key[a], "good"), new)
<1>1. KeysOK /\ InboxOK /\ FileOK /\ DrainOK /\ HistoryOK
  BY TypeParts
<1>2. key[a] \in Lock \cup {0} /\ 0 \in Lock \cup {0} /\ posted \in Nat
  BY <1>1, LockFacts DEF KeysOK, InboxOK
<1>3. Item("revocation", 0, key[a], "good") \in PendingItem
  BY <1>2, ItemType
<1>4. Broadcast(a, Item("revocation", 0, key[a], "good"), failing)
  BY DEF Revoke
<1>5. /\ InboxOK'
      /\ upset' \in [Account -> SUBSET Why]
      /\ \E new : Sends(Other(a), Item("revocation", 0, key[a], "good"), new)
  BY <1>1, <1>3, <1>4, BroadcastSends
<1>6. KeysOK'
  <2>1. key' = [key EXCEPT ![a] = 0] /\ published' = [published EXCEPT ![a] = {}]
    BY DEF Revoke
  <2>2. QED
    BY <1>1, <2>1, PendingInboxAssumption DEF KeysOK
<1>7. FileOK' /\ DrainOK' /\ HistoryOK'
  <2>1. events' \in Count
    BY <1>1, EventOK DEF Revoke
  <2>2. QED
    BY <1>1, <1>5, <2>1 DEF Revoke, FileOK, DrainOK, HistoryOK
<1>8. QED
  BY <1>5, <1>6, <1>7, TypeParts, PTL

\* The rest of what users and faults do, typed.
LEMMA DeclineOK == ASSUME TypeOK, NEW a \in Account, Decline(a) PROVE TypeOK'
<1>1. KeysOK /\ InboxOK /\ FileOK /\ DrainOK /\ HistoryOK
  BY TypeParts
<1>2. PICK request \in inbox[a] : inbox' = [inbox EXCEPT ![a] = Without(@, request.id)]
  BY DEF Decline
<1>3. InboxOK'
  <2>1. inbox' \in [Account -> SUBSET PendingItem] /\ \A x \in Account : inbox'[x] \subseteq inbox[x]
    BY <1>1, <1>2 DEF InboxOK, Without
  <2>2. QED
    BY <1>1, <2>1, TakeOK DEF Decline
<1>4. KeysOK' /\ FileOK' /\ DrainOK' /\ HistoryOK'
  <2>1. events' \in Count
    BY <1>1, EventOK DEF Decline
  <2>2. QED
    BY <1>1, <2>1 DEF Decline, KeysOK, FileOK, DrainOK, HistoryOK, history
<1>5. QED
  BY <1>3, <1>4, TypeParts, PTL

LEMMA RemoveOK == ASSUME TypeOK, NEW a \in Account, RemovePeer(a) PROVE TypeOK'
<1>1. KeysOK /\ InboxOK /\ FileOK /\ DrainOK /\ HistoryOK
  BY TypeParts
<1>2. FileOK'
  <2>1. file' = [file EXCEPT ![a].peer = Tail(file[a].peer)]
    BY DEF RemovePeer
  <2>2. file[a].peer \in Seq(Contact) /\ file[a].peer # <<>>
    BY <1>1 DEF FileOK, File, RemovePeer
  <2>3. Tail(file[a].peer) \in Seq(Contact)
    BY <2>2, HeadTailProperties
  <2>4. QED
    BY <1>1, <2>1, <2>3, PutPeer DEF FileOK
<1>3. KeysOK' /\ InboxOK' /\ DrainOK' /\ HistoryOK'
  <2>1. events' \in Count
    BY <1>1, EventOK DEF RemovePeer
  <2>2. QED
    BY <1>1, <2>1 DEF RemovePeer, KeysOK, InboxOK, DrainOK, HistoryOK, history, server
<1>4. QED
  BY <1>2, <1>3, TypeParts, PTL

LEMMA FriendOK == ASSUME TypeOK, NEW a \in Account, NEW f \in Friend, AddFriend(a, f) PROVE TypeOK'
<1>1. KeysOK /\ InboxOK /\ FileOK /\ DrainOK /\ HistoryOK
  BY TypeParts
<1>2. FileOK'
  <2>1. file[a] \in File /\ file \in [Account -> File]
    BY <1>1 DEF FileOK
  <2>2. file' = [file EXCEPT ![a] = [file[a] EXCEPT !.friends = file[a].friends \cup {f}]]
    BY <2>1 DEF AddFriend
  <2>3. [file[a] EXCEPT !.friends = file[a].friends \cup {f}] \in File
    BY <2>1 DEF File
  <2>4. QED
    BY <2>1, <2>2, <2>3 DEF FileOK
<1>3. KeysOK' /\ InboxOK' /\ DrainOK' /\ HistoryOK'
  <2>1. events' \in Count
    BY <1>1, EventOK DEF AddFriend
  <2>2. QED
    BY <1>1, <2>1 DEF AddFriend, KeysOK, InboxOK, DrainOK, HistoryOK, history, server
<1>4. QED
  BY <1>2, <1>3, TypeParts, PTL

LEMMA ForgeryOK ==
    ASSUME TypeOK, NEW a \in Account, NEW kind \in {"contact_accept", "rotation", "revocation"},
           Forgery(a, kind)
    PROVE  /\ TypeOK'
           /\ \E item \in PendingItem : /\ item.kind = kind /\ item.form = "forged"
                                        /\ item.id = posted + 1
                                        /\ Post(a, item)
<1>1. KeysOK /\ InboxOK /\ FileOK /\ DrainOK /\ HistoryOK
  BY TypeParts
<1> DEFINE lock == IF kind = "revocation" THEN 0 ELSE Stranger
<1>2. PICK i \in DOMAIN file[a].peer : Post(a, Item(kind, lock, file[a].peer[i].key, "forged"))
  BY DEF Forgery
<1>3. file[a].peer[i].key \in Lock \cup {0}
  <2>1. file[a].peer \in Seq(Contact)
    BY <1>1 DEF FileOK, File
  <2>2. file[a].peer[i] \in Contact
    BY <2>1
  <2>3. QED
    BY <2>2 DEF Contact
<1>4. lock \in Lock \cup {0} /\ posted \in Nat
  BY <1>1, LockFacts DEF InboxOK
<1> HIDE DEF lock
<1> DEFINE item == Item(kind, lock, file[a].peer[i].key, "forged")
<1>5. item \in PendingItem /\ item.id = posted + 1 /\ item.kind = kind /\ item.form = "forged"
  <2>1. item \in PendingItem /\ item.id = posted + 1
    BY <1>3, <1>4, ItemType
  <2>2. QED
    BY <2>1 DEF Item
<1>6. Post(a, item)
  BY <1>2
<1> HIDE DEF item
<1>7. InboxOK'
  BY <1>1, <1>5, <1>6, PostOK
<1>8. KeysOK' /\ FileOK' /\ DrainOK' /\ HistoryOK'
  <2>1. events' \in Count
    BY <1>1, EventOK DEF Forgery
  <2>2. QED
    BY <1>1, <2>1 DEF Forgery, KeysOK, FileOK, DrainOK, HistoryOK, history
<1>9. TypeOK'
  BY <1>7, <1>8, TypeParts, PTL
<1>10. QED
  BY <1>5, <1>6, <1>9

LEMMA UnaskedOK ==
    ASSUME TypeOK, NEW a \in Account, Unasked(a)
    PROVE  /\ TypeOK'
           /\ \E item \in PendingItem : /\ item.kind = "contact_accept" /\ item.form = "unasked"
                                        /\ item.lock \in published[Other(a)] \cup {Stranger}
                                        /\ item.id = posted + 1 /\ Post(a, item)
<1>1. KeysOK /\ InboxOK /\ FileOK /\ DrainOK /\ HistoryOK
  BY TypeParts
<1>0. PICK lock \in published[Other(a)] \cup {Stranger} :
          Post(a, Item("contact_accept", lock, 0, "unasked"))
  BY DEF Unasked
<1> DEFINE item == Item("contact_accept", lock, 0, "unasked")
<1>2. item \in PendingItem /\ item.id = posted + 1
  <2>1. lock \in Lock \cup {0}
    BY <1>1, OtherAccount, LockFacts DEF KeysOK
  <2>2. QED
    BY <1>1, <2>1, ItemType DEF InboxOK
<1>3. item.kind = "contact_accept" /\ item.form = "unasked" /\ item.lock = lock
  BY DEF Item
<1>4. Post(a, item)
  BY <1>0
<1> HIDE DEF item
<1>5. InboxOK'
  BY <1>1, <1>2, <1>4, PostOK
<1>6. KeysOK' /\ FileOK' /\ DrainOK' /\ HistoryOK'
  <2>1. events' \in Count
    BY <1>1, EventOK DEF Unasked
  <2>2. QED
    BY <1>1, <2>1 DEF Unasked, KeysOK, FileOK, DrainOK, HistoryOK, history
<1>7. TypeOK'
  BY <1>5, <1>6, TypeParts, PTL
<1>8. QED
  BY <1>2, <1>3, <1>4, <1>7

LEMMA SkipOK == ASSUME TypeOK, NEW a \in Account, Skip(a) PROVE TypeOK'
<1>1. KeysOK /\ InboxOK /\ FileOK /\ DrainOK /\ HistoryOK
  BY TypeParts
<1>2. DrainOK'
  <2>1. drain[a] \in PassType /\ drain' = [drain EXCEPT ![a] = NextItem(drain[a])]
    BY <1>1 DEF DrainOK, Skip, Pass
  <2>2. NextItem(drain[a]) \in PassType /\ PassShape(NextItem(drain[a]))
    BY <2>1, NextItemType
  <2>3. QED
    BY <1>1, <2>1, <2>2 DEF DrainOK
<1>3. KeysOK' /\ InboxOK' /\ FileOK' /\ HistoryOK'
  <2>1. events' \in Count
    BY <1>1, EventOK DEF Skip
  <2>2. upset' \in [Account -> SUBSET Why]
    BY <1>1 DEF HistoryOK, Skip, Why
  <2>3. QED
    BY <1>1, <2>1, <2>2 DEF Skip, KeysOK, InboxOK, FileOK, HistoryOK, server
<1>4. QED
  BY <1>2, <1>3, TypeParts, PTL

LEMMA PassFailsOK == ASSUME TypeOK, NEW a \in Account, NEW deleted \in BOOLEAN, PassFails(a, deleted) PROVE TypeOK'
<1>1. KeysOK /\ InboxOK /\ FileOK /\ DrainOK /\ HistoryOK
  BY TypeParts
<1>2. DrainOK'
  <2>1. drain' = [drain EXCEPT ![a] = NoPass]
    BY DEF PassFails, Pass
  <2>2. QED
    BY <1>1, <2>1, PassTypes DEF DrainOK
<1>3. InboxOK'
  <2>1. inbox' \in [Account -> SUBSET PendingItem] /\ \A x \in Account : inbox'[x] \subseteq inbox[x]
    BY <1>1 DEF InboxOK, Without, PassFails
  <2>2. QED
    BY <1>1, <2>1, TakeOK DEF PassFails
<1>4. KeysOK' /\ FileOK' /\ HistoryOK'
  <2>1. events' \in Count
    BY <1>1, EventOK DEF PassFails
  <2>2. QED
    BY <1>1, <2>1 DEF PassFails, KeysOK, FileOK, HistoryOK, history
<1>5. QED
  BY <1>2, <1>3, <1>4, TypeParts, PTL

\* A pass that is under way has an item in hand, the first of those it has left.
LEMMA CurrentItem ==
    ASSUME TypeOK, NEW a \in Account, drain[a].pc # "idle"
    PROVE  /\ Current(a) \in drain[a].todo
           /\ Current(a) \in PendingItem
           /\ \A i \in drain[a].todo : Current(a).id <= i.id
<1>1. drain[a] \in PassType /\ PassShape(drain[a])
  BY TypeParts DEF DrainOK
<1>2. drain[a].todo \in SUBSET PendingItem /\ drain[a].todo # {}
  BY <1>1 DEF PassType, PassShape
<1>3. QED
  BY <1>2, FirstItem DEF Current

\* The pass goes on with the same items.
LEMMA GotoType ==
    ASSUME DrainOK, NEW a \in Account, drain[a].pc \notin {"idle", "store"},
           NEW pc \in Label \ {"idle", "store"}, Goto(a, pc)
    PROVE  /\ DrainOK'
           /\ drain' = [drain EXCEPT ![a] = [pc |-> pc, todo |-> drain[a].todo, copy |-> NoFile]]
<1>1. drain[a] \in PassType /\ PassShape(drain[a])
  BY DEF DrainOK
<1>2. drain[a] = [pc |-> drain[a].pc, todo |-> drain[a].todo, copy |-> NoFile]
  BY <1>1 DEF PassType, PassShape
<1> DEFINE new == [pc |-> pc, todo |-> drain[a].todo, copy |-> NoFile]
<1>3. [drain[a] EXCEPT !.pc = pc] = new
  BY <1>1, <1>2 DEF PassType
<1>4. new \in PassType /\ PassShape(new)
  BY <1>1, PassTypes DEF PassType, PassShape
<1>5. drain' = [drain EXCEPT ![a] = [drain[a] EXCEPT !.pc = pc]]
  BY DEF Goto, DrainOK
<1> HIDE DEF new
<1>6. drain' = [drain EXCEPT ![a] = new]
  BY <1>3, <1>5
<1>7. DrainOK'
  BY <1>4, <1>6 DEF DrainOK
<1>8. QED
  BY <1>6, <1>7 DEF new

\* The steps of a pass, typed.
LEMMA ListOK == ASSUME TypeOK, NEW a \in Account, List(a) PROVE TypeOK'
<1>1. KeysOK /\ InboxOK /\ FileOK /\ DrainOK /\ HistoryOK
  BY TypeParts
<1> DEFINE items == {item \in inbox[a] : item.kind # "contact_request"}
<1>2. items \in SUBSET PendingItem /\ items # {}
  BY <1>1 DEF InboxOK, List
<1>3. drain' = [drain EXCEPT ![a] = [NoPass EXCEPT !.pc = "next", !.todo = items]]
  BY DEF List, Pass
<1> HIDE DEF items
<1> DEFINE new == [pc |-> "next", todo |-> items, copy |-> NoFile]
<1>4. drain' = [drain EXCEPT ![a] = new]
  <2>1. [NoPass EXCEPT !.pc = "next", !.todo = items] = new
    <3>1. PICK u : u = [NoPass EXCEPT !.pc = "next", !.todo = items]
      OBVIOUS
    <3>2. u = new
      BY <3>1 DEF NoPass
    <3>3. QED
      BY <3>1, <3>2
  <2> HIDE DEF new
  <2>2. QED
    BY <1>3, <2>1
<1>5. new \in PassType /\ PassShape(new)
  BY <1>2, PassTypes DEF PassType, PassShape, Label
<1> HIDE DEF new
<1>6. DrainOK'
  BY <1>1, <1>4, <1>5 DEF DrainOK
<1>7. KeysOK' /\ InboxOK' /\ FileOK' /\ HistoryOK'
  BY <1>1 DEF List, KeysOK, InboxOK, FileOK, HistoryOK, history, server
<1>8. QED
  BY <1>6, <1>7, TypeParts, PTL

LEMMA FetchOK == ASSUME TypeOK, NEW a \in Account, Fetch(a) PROVE TypeOK'
<1>1. KeysOK /\ InboxOK /\ FileOK /\ DrainOK /\ HistoryOK
  BY TypeParts
<1>2. PICK pc \in {"load", "ack", "save"} : Goto(a, pc)
  BY DEF Fetch
<1>3. DrainOK'
  BY <1>1, <1>2, GotoType DEF Fetch, Label
<1>4. KeysOK' /\ InboxOK' /\ FileOK' /\ HistoryOK'
  BY <1>1 DEF Fetch, KeysOK, InboxOK, FileOK, HistoryOK, history, server
<1>5. QED
  BY <1>3, <1>4, TypeParts, PTL

LEMMA SaveAcceptOK == ASSUME TypeOK, NEW a \in Account, SaveAccept(a) PROVE TypeOK'
<1>1. KeysOK /\ InboxOK /\ FileOK /\ DrainOK /\ HistoryOK
  BY TypeParts
<1>2. KeysOK' /\ InboxOK' /\ shook' = shook /\ events' = events
  BY <1>1 DEF SaveAccept, KeysOK, InboxOK, server
<1>3. CASE Current(a).form = "odd"
  <2>1. drain' = [drain EXCEPT ![a] = NoPass] /\ file' = file /\ upset' = upset
    BY <1>3 DEF SaveAccept, Pass
  <2>2. FileOK' /\ HistoryOK' /\ DrainOK'
    BY <1>1, <1>2, <2>1, PassTypes DEF FileOK, HistoryOK, DrainOK
  <2>3. QED
    BY <1>2, <2>2, TypeParts, PTL
<1>4. CASE Current(a).form # "odd"
  <2> DEFINE peer == SaveFromLock(file[a].peer, Current(a).lock)
             why  == IF Current(a).form = "unasked" THEN {"unasked"} ELSE {}
  <2>1. /\ file' = [file EXCEPT ![a].peer = peer]
        /\ upset' = [upset EXCEPT ![a] = @ \cup Doubled(peer) \cup why]
        /\ Goto(a, "mark") /\ drain[a].pc = "save"
    BY <1>4 DEF SaveAccept
  <2>2. file[a].peer \in Seq(Contact) /\ Current(a).lock \in Lock \cup {0}
    <3>1. Current(a) \in PendingItem
      BY <2>1, CurrentItem
    <3>2. file[a].peer \in Seq(Contact)
      BY <1>1 DEF FileOK, File
    <3>3. QED
      BY <3>1, <3>2 DEF PendingItem
  <2>3. peer \in Seq(Contact)
    BY <2>2, SavedPeer DEF Saved
  <2>4. Doubled(peer) \cup why \subseteq Why
    BY DEF Doubled, Why
  <2> HIDE DEF peer, why
  <2>5. FileOK' /\ HistoryOK'
    <3>1. FileOK'
      BY <1>1, <2>1, <2>3, PutPeer DEF FileOK
    <3>2. upset' \in [Account -> SUBSET Why]
      BY <1>1, <2>1, <2>4 DEF HistoryOK
    <3>3. QED
      BY <1>1, <1>2, <3>1, <3>2 DEF HistoryOK
  <2>6. DrainOK'
    BY <1>1, <2>1, GotoType DEF Label
  <2>7. QED
    BY <1>2, <2>5, <2>6, TypeParts, PTL
<1>5. QED
  BY <1>3, <1>4

LEMMA MarkOK == ASSUME TypeOK, NEW a \in Account, MarkConnected(a) PROVE TypeOK'
<1>1. KeysOK /\ InboxOK /\ FileOK /\ DrainOK /\ HistoryOK
  BY TypeParts
<1>2. KeysOK' /\ InboxOK' /\ HistoryOK'
  BY <1>1 DEF MarkConnected, KeysOK, InboxOK, HistoryOK, history, server
<1>3. DrainOK'
  BY <1>1, GotoType DEF MarkConnected, Label
<1>4. FileOK'
  <2> DEFINE peer == SetConnection(file[a].peer, Current(a).lock, "connected")
  <2>1. file' = [file EXCEPT ![a].peer = peer]
    BY DEF MarkConnected
  <2>2. file[a].peer \in Seq(Contact)
    BY <1>1 DEF FileOK, File
  <2>3. peer \in Seq(Contact)
    BY <2>2, MarkedPeer DEF Marked
  <2> HIDE DEF peer
  <2>4. QED
    BY <1>1, <2>1, <2>3, PutPeer DEF FileOK
<1>5. QED
  BY <1>2, <1>3, <1>4, TypeParts, PTL

(* What Load leaves: nothing, or a copy whose first entry has the update.   *)
Loaded(a) ==
    LET item == Current(a)
        peer == file[a].peer
        copy == drain'[a].copy
    IN  /\ peer # <<>> /\ item.form = "good" /\ item.revoked = peer[1].key
        /\ drain' = [drain EXCEPT ![a] = [pc |-> "store", todo |-> drain[a].todo, copy |-> copy]]
        /\ copy \in File
        /\ Len(copy.peer) = Len(peer)
        /\ copy.peer[1] = Applied(item, peer[1])
        /\ \A i \in 2..Len(peer) : copy.peer[i] = peer[i]

\* An update keeps an entry an entry.
LEMMA AppliedType ==
    ASSUME NEW item \in PendingItem, NEW c \in Contact
    PROVE  /\ Applied(item, c) \in Contact
           /\ Applied(item, c).key = item.lock
           /\ Applied(item, c).previous = Append(c.previous, c.key)
           /\ Applied(item, c).connection = c.connection
<1>1. c.previous \in Seq(Lock \cup {0}) /\ c.key \in Lock \cup {0} /\ item.lock \in Lock \cup {0}
  BY DEF Contact, PendingItem
<1> DEFINE p == Append(c.previous, c.key)
<1>2. p \in Seq(Lock \cup {0})
  BY <1>1, AppendProperties
<1>3. Applied(item, c) = [c EXCEPT !.previous = p, !.key = item.lock]
  BY DEF Applied
<1> HIDE DEF p
<1>4. QED
  BY <1>1, <1>2, <1>3 DEF Contact, p

LEMMA LoadSteps ==
    ASSUME TypeOK, NEW a \in Account, LoadContacts(a)
    PROVE  TypeOK' /\ (Loaded(a) \/ Goto(a, "ack"))
<1>1. KeysOK /\ InboxOK /\ FileOK /\ DrainOK /\ HistoryOK
  BY TypeParts
<1>2. KeysOK' /\ InboxOK' /\ FileOK' /\ HistoryOK'
  BY <1>1 DEF LoadContacts, KeysOK, InboxOK, FileOK, HistoryOK, history, server
<1> DEFINE item == Current(a)
           peer == file[a].peer
<1>3. drain[a].pc = "load" /\ drain[a] \in PassType /\ PassShape(drain[a]) /\ file[a] \in File
  BY <1>1 DEF LoadContacts, DrainOK, FileOK
<1>4. CASE peer # <<>> /\ Verified(item, peer[1])
  <2>1. peer \in Seq(Contact) /\ Len(peer) \in Nat /\ 1 \in 1..Len(peer) /\ peer[1] \in Contact
        /\ DOMAIN peer = 1..Len(peer)
    <3>1. peer \in Seq(Contact)
      BY <1>3 DEF File
    <3>2. QED
      BY <1>4, <3>1, LenProperties, EmptySeq, ElementOfSeq
  <2>2. item \in PendingItem
    BY <1>3, CurrentItem
  <2> DEFINE c == Applied(item, peer[1])
             q == [peer EXCEPT ![1] = c]
             copy == [file[a] EXCEPT !.peer = q]
             new == [pc |-> "store", todo |-> drain[a].todo, copy |-> copy]
  <2>3. c \in Contact
    BY <2>1, <2>2, AppliedType
  <2>4. drain' = [drain EXCEPT ![a].pc = "store", ![a].copy = [file[a] EXCEPT !.peer[1] = c]]
    BY <1>4 DEF LoadContacts
  <2>5. [file[a] EXCEPT !.peer[1] = c] = copy
    BY <1>3 DEF File
  <2> HIDE DEF c
  <2>6. q \in Seq(Contact) /\ Len(q) = Len(peer) /\ q[1] = c /\ \A i \in 2..Len(peer) : q[i] = peer[i]
    BY <2>1, <2>3, ExceptSeq
  <2> HIDE DEF q
  <2>7. copy \in File /\ copy.peer = q
    BY <1>3, <2>6 DEF File
  <2> HIDE DEF copy
  <2>8. drain' = [drain EXCEPT ![a].pc = "store", ![a].copy = copy]
    BY <2>4, <2>5
  <2>9. drain' = [drain EXCEPT ![a] = new]
    <3>1. [drain[a] EXCEPT !.pc = "store", !.copy = copy] = new
      BY <1>3, PassPut
    <3>2. drain' = [drain EXCEPT ![a] = [drain[a] EXCEPT !.pc = "store", !.copy = copy]]
      BY <1>1, <2>8 DEF DrainOK
    <3> HIDE DEF new
    <3>3. QED
      BY <3>1, <3>2
  <2>10. new \in PassType /\ PassShape(new)
    BY <1>3, <2>7 DEF PassType, PassShape, Label
  <2>11. DrainOK' /\ drain'[a] = new
    BY <1>1, <2>9, <2>10 DEF DrainOK
  <2>12. drain'[a].copy = copy
    BY <2>11
  <2>13. item.form = "good" /\ item.revoked = peer[1].key
    BY <1>4 DEF Verified
  <2>14. Loaded(a)
    BY <1>4, <2>6, <2>7, <2>9, <2>12, <2>13 DEF Loaded, c
  <2>15. QED
    BY <1>2, <2>11, <2>14, TypeParts, PTL
<1>5. CASE ~(peer # <<>> /\ Verified(item, peer[1]))
  <2>1. Goto(a, "ack")
    BY <1>5 DEF LoadContacts
  <2>2. DrainOK'
    BY <1>1, <1>3, <2>1, GotoType DEF Label
  <2>3. QED
    BY <1>2, <2>1, <2>2, TypeParts, PTL
<1>6. QED
  BY <1>4, <1>5

LEMMA StoreOK == ASSUME TypeOK, NEW a \in Account, StoreContacts(a)
                 PROVE  /\ TypeOK'
                        /\ drain' = [drain EXCEPT ![a] = [pc |-> "ack", todo |-> drain[a].todo, copy |-> NoFile]]
<1>1. KeysOK /\ InboxOK /\ FileOK /\ DrainOK /\ HistoryOK
  BY TypeParts
<1>2. KeysOK' /\ InboxOK' /\ HistoryOK'
  BY <1>1 DEF StoreContacts, KeysOK, InboxOK, HistoryOK, history, server
<1>3. drain[a] \in PassType /\ PassShape(drain[a]) /\ drain[a].pc = "store"
  BY <1>1 DEF DrainOK, StoreContacts
<1> DEFINE new == [pc |-> "ack", todo |-> drain[a].todo, copy |-> NoFile]
<1>4. drain' = [drain EXCEPT ![a] = new]
  <2>1. [drain[a] EXCEPT !.pc = "ack", !.copy = NoFile] = new
    BY <1>3, PassPut
  <2>2. drain' = [drain EXCEPT ![a] = [drain[a] EXCEPT !.pc = "ack", !.copy = NoFile]]
    BY <1>1 DEF DrainOK, StoreContacts
  <2> HIDE DEF new
  <2>3. QED
    BY <2>1, <2>2
<1>5. new \in PassType /\ PassShape(new)
  BY <1>3, PassTypes DEF PassType, PassShape, Label
<1>6. DrainOK'
  BY <1>1, <1>4, <1>5 DEF DrainOK
<1>7. FileOK'
  BY <1>1, <1>3 DEF StoreContacts, FileOK, PassType
<1>8. QED
  BY <1>2, <1>4, <1>6, <1>7, TypeParts, PTL

LEMMA AckOK == ASSUME TypeOK, NEW a \in Account, Ack(a) PROVE TypeOK'
<1>1. KeysOK /\ InboxOK /\ FileOK /\ DrainOK /\ HistoryOK
  BY TypeParts
<1>2. DrainOK'
  <2>1. drain[a] \in PassType /\ drain' = [drain EXCEPT ![a] = NextItem(drain[a])]
    BY <1>1 DEF DrainOK, Ack, Pass
  <2>2. NextItem(drain[a]) \in PassType /\ PassShape(NextItem(drain[a]))
    BY <2>1, NextItemType
  <2>3. QED
    BY <1>1, <2>1, <2>2 DEF DrainOK
<1>3. InboxOK'
  <2>1. inbox' \in [Account -> SUBSET PendingItem] /\ \A x \in Account : inbox'[x] \subseteq inbox[x]
    BY <1>1 DEF InboxOK, Without, Ack
  <2>2. QED
    BY <1>1, <2>1, TakeOK DEF Ack
<1>4. KeysOK' /\ FileOK' /\ HistoryOK'
  BY <1>1 DEF Ack, KeysOK, FileOK, HistoryOK, history
<1>5. QED
  BY <1>2, <1>3, <1>4, TypeParts, PTL

\* The first state has the types.
LEMMA TypeInit == Init => TypeOK
<1>1. SUFFICES ASSUME Init PROVE TypeOK
  OBVIOUS
<1>2. KeysOK
  BY <1>1, PendingInboxAssumption, LockFacts DEF Init, KeysOK
<1>3. InboxOK
  BY <1>1 DEF Init, InboxOK, IdsFit
<1>4. [peer |-> <<Entry(1, "connected")>>, friends |-> {}] \in File
  <2>1. Entry(1, "connected") \in Contact
    <3>1. <<>> \in Seq(Lock \cup {0})
      BY EmptySeq
    <3>2. 1 \in Lock
      BY PendingInboxAssumption, LockFacts
    <3>3. QED
      BY <3>1, <3>2 DEF Entry, Contact
  <2>2. QED
    BY <2>1 DEF File
<1>5. FileOK /\ HistoryOK
  <2>1. FileOK
    BY <1>1, <1>4, PassTypes DEF Init, FileOK
  <2>2. shook \in [Account -> BOOLEAN]
    BY <1>1 DEF Init
  <2>3. upset \in [Account -> SUBSET Why] /\ events \in Count
    BY <1>1, PendingInboxAssumption DEF Init, Count
  <2>4. QED
    BY <2>1, <2>2, <2>3 DEF HistoryOK
<1>6. DrainOK
  BY <1>1, PassTypes DEF Init, DrainOK
<1>7. QED
  BY <1>2, <1>3, <1>5, <1>6, TypeParts

\* Every step keeps the types.
LEMMA TypeStep == TypeOK /\ [Next]_vars => TypeOK'
<1>1. SUFFICES ASSUME TypeOK, [Next]_vars PROVE TypeOK'
  OBVIOUS
<1>2. CASE UNCHANGED vars
  <2>1. KeysOK /\ InboxOK /\ FileOK /\ DrainOK /\ HistoryOK
    BY <1>1, TypeParts
  <2>2. KeysOK' /\ InboxOK' /\ FileOK' /\ DrainOK' /\ HistoryOK'
    BY <1>2, <2>1 DEF vars, server, history, KeysOK, InboxOK, FileOK, DrainOK, HistoryOK
  <2>3. QED
    BY <2>2, TypeParts, PTL
<1>3. CASE Next
  <2>1. PICK a \in Account : DrainStep(a) \/ UserStep(a) \/ Fault(a)
    BY <1>3 DEF Next
  <2>2. CASE DrainStep(a)
    BY <1>1, <2>2, ListOK, FetchOK, SaveAcceptOK, MarkOK, LoadSteps, StoreOK, AckOK DEF DrainStep
  <2>3. CASE UserStep(a)
    BY <1>1, <2>3, AddOK, InviteOK, DeclineOK, RemoveOK, AcceptOK, RotateOK, RevokeOK, FriendOK
       DEF UserStep
  <2>4. CASE Fault(a)
    BY <1>1, <2>4, SkipOK, PassFailsOK, ForgeryOK, UnaskedOK DEF Fault
  <2>5. QED
    BY <2>1, <2>2, <2>3, <2>4
<1>4. QED
  BY <1>1, <1>2, <1>3

\* Type correctness of the inbox, the contact list and the pass over them: ids are
\* given out once, and a pass has an item in hand until it ends.
THEOREM TypeCorrect == Spec => []TypeOK
  BY TypeInit, TypeStep, PTL DEF Spec

-----------------------------------------------------------------------------
(* What items and entries may hold, k being the other account's key and s   *)
(* whether one of the two accepted.                                         *)

Key == 1..MaxKey

Update(i) == i.kind \in {"rotation", "revocation"} /\ i.form = "good"
Accept(i) == i.kind = "contact_accept" /\ i.form \notin {"forged", "unasked"}
Unsought(i) == i.kind = "contact_accept" /\ i.form = "unasked"

RotationFits(i)      == i.revoked \in Key /\ i.lock = i.revoked + 1 /\ i.lock \in Key
RevocationFits(i, k) == i.revoked \in Key /\ i.lock = 0 /\ k = 0

ItemFits(i, k, s) ==
    /\ i.kind = "contact_request" => i.lock \in Key
    /\ Accept(i) => i.lock \in Key /\ s = TRUE
    /\ Unsought(i) => i.lock \in Key \cup {Stranger}
    /\ i.kind = "rotation" /\ i.form = "good" => RotationFits(i)
    /\ i.kind = "revocation" /\ i.form = "good" => RevocationFits(i, k)

ContactFits(c, k) ==
    /\ c.key \in Key \/ (c.key = 0 /\ k = 0) \/ (c.key = Stranger /\ c.previous = <<>>)
    /\ \A n \in DOMAIN c.previous : c.previous[n] \in Key /\ (c.key = 0 \/ c.previous[n] < c.key)
    /\ \A m, n \in DOMAIN c.previous : m < n => c.previous[m] < c.previous[n]

PeerFits(peer, k) == \A i \in DOMAIN peer : ContactFits(peer[i], k)

PassFits(p, items) ==
    /\ p.todo \subseteq items
    /\ \A i \in p.todo : i.kind # "contact_request"
    /\ p.pc \in {"save", "mark"} => Accept(First(p.todo)) \/ Unsought(First(p.todo))
    /\ p.pc \in {"load", "store"} => First(p.todo).kind \in {"rotation", "revocation"}

PublishedInv == \A a \in Account : published[a] = IF key[a] = 0 THEN {} ELSE {key[a]}
ItemsInv     == \A a \in Account : \A i \in inbox[a] : ItemFits(i, key[Other(a)], shook[a])
PeersInv     == \A a \in Account : /\ PeerFits(file[a].peer, key[Other(a)])
                                   /\ PeerFits(drain[a].copy.peer, key[Other(a)])
PassesInv    == \A a \in Account : PassFits(drain[a], inbox[a])

SafeInv == PublishedInv /\ ItemsInv /\ PeersInv /\ PassesInv

\* A revocation is for ever, and so is an agreement.
Onward == \A a \in Account : (key[a] = 0 => key'[a] = 0) /\ (shook[a] = TRUE => shook'[a] = TRUE)

\* Keys are positive.
LEMMA KeyFacts ==
    /\ Key \subseteq Nat /\ Key \subseteq Lock /\ 0 \notin Key
    /\ Stranger \notin Key /\ Stranger \in Lock /\ Stranger # 0
  BY PendingInboxAssumption DEF Key, Lock, Stranger

\* What fits goes on to fit: an item, and a contact list.
LEMMA ItemFitsOn ==
    ASSUME NEW k, NEW s, NEW l, NEW t, k = 0 => l = 0, s = TRUE => t = TRUE,
           NEW i, ItemFits(i, k, s)
    PROVE  ItemFits(i, l, t)
BY DEF ItemFits, RevocationFits

LEMMA PeerFitsOn ==
    ASSUME NEW k, NEW l, k = 0 => l = 0, NEW peer, PeerFits(peer, k)
    PROVE  PeerFits(peer, l)
<1>1. \A c : ContactFits(c, k) => ContactFits(c, l)
  BY DEF ContactFits
<1>2. QED
  BY <1>1 DEF PeerFits

\* The items stay right if those that come are.
LEMMA KeepItems ==
    ASSUME ItemsInv, Onward,
           \A a \in Account : \A i \in inbox'[a] :
              i \in inbox[a] \/ ItemFits(i, key'[Other(a)], shook'[a])
    PROVE  ItemsInv'
<1>1. SUFFICES ASSUME NEW a \in Account, NEW i \in inbox'[a]
      PROVE ItemFits(i, key'[Other(a)], shook'[a])
  BY DEF ItemsInv
<1>2. CASE i \in inbox[a]
  <2>1. ItemFits(i, key[Other(a)], shook[a])
    BY <1>2 DEF ItemsInv
  <2>2. /\ key[Other(a)] = 0 => key'[Other(a)] = 0
        /\ shook[a] = TRUE => shook'[a] = TRUE
    BY OtherAccount DEF Onward
  <2>3. PICK k, s, l, t : /\ k = key[Other(a)] /\ s = shook[a]
                          /\ l = key'[Other(a)] /\ t = shook'[a]
    OBVIOUS
  <2>4. ItemFits(i, l, t)
    <3>1. ItemFits(i, k, s) /\ (k = 0 => l = 0) /\ (s = TRUE => t = TRUE)
      BY <2>1, <2>2, <2>3
    <3>2. QED
      BY <3>1, ItemFitsOn
  <2>5. QED
    BY <2>3, <2>4
<1>3. QED
  BY <1>2

\* The entries stay right if those that come are.
LEMMA KeepPeers ==
    ASSUME PeersInv, Onward,
           \A a \in Account :
              /\ \/ file'[a].peer = file[a].peer
                 \/ PeerFits(file'[a].peer, key'[Other(a)])
              /\ \/ drain'[a].copy.peer = drain[a].copy.peer
                 \/ PeerFits(drain'[a].copy.peer, key'[Other(a)])
    PROVE  PeersInv'
<1>1. SUFFICES ASSUME NEW a \in Account
      PROVE /\ PeerFits(file'[a].peer, key'[Other(a)])
            /\ PeerFits(drain'[a].copy.peer, key'[Other(a)])
  BY DEF PeersInv
<1>2. /\ PeerFits(file[a].peer, key[Other(a)])
      /\ PeerFits(drain[a].copy.peer, key[Other(a)])
  BY DEF PeersInv
<1>3. key[Other(a)] = 0 => key'[Other(a)] = 0
  BY OtherAccount DEF Onward
<1>4. /\ PeerFits(file[a].peer, key'[Other(a)])
      /\ PeerFits(drain[a].copy.peer, key'[Other(a)])
  <2>1. PICK l : l = key'[Other(a)]
    OBVIOUS
  <2>2. key[Other(a)] = 0 => l = 0
    BY <1>3, <2>1
  <2>3. \A peer : PeerFits(peer, key[Other(a)]) => PeerFits(peer, l)
    BY <2>2, PeerFitsOn
  <2>4. QED
    BY <1>2, <2>1, <2>3
<1>5. QED
  BY <1>4

\* A pass stays right if its items stay.
LEMMA KeepPasses ==
    ASSUME PassesInv,
           \A a \in Account : \/ drain'[a] = drain[a] /\ drain[a].todo \subseteq inbox'[a]
                              \/ PassFits(drain'[a], inbox'[a])
    PROVE  PassesInv'
<1>1. SUFFICES ASSUME NEW a \in Account, drain'[a] = drain[a], drain[a].todo \subseteq inbox'[a]
      PROVE PassFits(drain'[a], inbox'[a])
  BY DEF PassesInv
<1>2. PassFits(drain[a], inbox[a])
  BY DEF PassesInv
<1>3. PassFits(drain[a], inbox'[a])
  BY <1>1, <1>2 DEF PassFits
<1>4. QED
  BY <1>1, <1>3

\* A saved lock is a key, or that of an entry of its own.
LEMMA FitsSaved ==
    ASSUME NEW peer \in Seq(Contact), NEW k, PeerFits(peer, k),
           NEW lock \in Key \cup {Stranger}
    PROVE  PeerFits(SaveFromLock(peer, lock), k)
<1> DEFINE new == SaveFromLock(peer, lock)
<1>1. Saved(new, peer, lock)
  BY SavedPeer, KeyFacts
<1> HIDE DEF new
<1>2. DOMAIN new = 1..Len(new) /\ DOMAIN peer = 1..Len(peer)
  BY <1>1, LenProperties DEF Saved
<1>3. ASSUME NEW i \in 1..Len(new) PROVE ContactFits(new[i], k)
  <2>1. CASE i \in 1..Len(peer)
    BY <1>1, <1>2, <2>1 DEF Saved, PeerFits, ContactFits
  <2>2. CASE new[i] = Entry(lock, "")
    <3>1. new[i].key = lock /\ new[i].previous = <<>> /\ new[i].connection = ""
      <4>1. /\ Entry(lock, "").key = lock
            /\ Entry(lock, "").previous = <<>>
            /\ Entry(lock, "").connection = ""
        BY DEF Entry
      <4>2. QED
        BY <2>2, <4>1
    <3>2. DOMAIN <<>> = {}
      OBVIOUS
    <3>3. QED
      BY <3>1, <3>2 DEF ContactFits
  <2>3. QED
    BY <1>1, <2>1, <2>2 DEF Saved
<1>4. QED
  BY <1>2, <1>3 DEF PeerFits, new

\* Marking does not touch keys.
LEMMA FitsMarked ==
    ASSUME NEW peer \in Seq(Contact), NEW k, PeerFits(peer, k), NEW lock,
           NEW connection \in {"", "invited", "connected", "unreachable"}
    PROVE  PeerFits(SetConnection(peer, lock, connection), k)
<1> DEFINE new == SetConnection(peer, lock, connection)
<1>1. Marked(new, peer, lock, connection)
  BY MarkedPeer
<1> HIDE DEF new
<1>2. DOMAIN new = 1..Len(peer) /\ DOMAIN peer = 1..Len(peer)
  BY <1>1, LenProperties DEF Marked
<1>3. QED
  BY <1>1, <1>2 DEF Marked, PeerFits, ContactFits, new

\* An update takes an entry from one key to the next, or empties it.
LEMMA FitsApplied ==
    ASSUME NEW c \in Contact, NEW k, NEW s, ContactFits(c, k),
           NEW item \in PendingItem, ItemFits(item, k, s),
           item.kind \in {"rotation", "revocation"}, item.form = "good", item.revoked = c.key
    PROVE  ContactFits(Applied(item, c), k)
<1> DEFINE d == Applied(item, c)
<1>1. d.key = item.lock /\ d.previous = Append(c.previous, c.key) /\ d.connection = c.connection
  BY AppliedType
<1> HIDE DEF d
<1>2. c.previous \in Seq(Lock \cup {0}) /\ c.key \in Lock \cup {0}
  BY DEF Contact
<1> DEFINE p == c.previous
           q == d.previous
<1>3. Len(p) \in Nat /\ DOMAIN p = 1..Len(p)
  BY <1>2, LenProperties
<1>4. /\ q \in Seq(Lock \cup {0}) /\ Len(q) = Len(p) + 1 /\ DOMAIN q = 1..(Len(p) + 1)
      /\ \A i \in 1..Len(p) : q[i] = p[i]
      /\ q[Len(p) + 1] = c.key
  BY <1>1, <1>2, AppendProperties, LenProperties
<1>5. c.key \in Key /\ c.key \in Nat
  BY KeyFacts DEF ItemFits, RotationFits, RevocationFits
<1>6. \A n \in 1..Len(p) : p[n] \in Key /\ p[n] \in Nat /\ p[n] < c.key
  BY <1>3, <1>5, KeyFacts DEF ContactFits
<1>7. \A m, n \in 1..Len(p) : m < n => p[m] < p[n]
  BY <1>3 DEF ContactFits
<1>8. (d.key = 0 /\ k = 0) \/ (d.key \in Key /\ d.key = c.key + 1)
  BY <1>1 DEF ItemFits, RotationFits, RevocationFits
<1> HIDE DEF p, q
<1>9. \A n \in DOMAIN q : n \in 1..Len(p) \/ n = Len(p) + 1
  BY <1>3, <1>4
<1>10. \A n \in DOMAIN q : q[n] \in Key /\ q[n] \in Nat /\ q[n] <= c.key
  BY <1>4, <1>5, <1>6, <1>9
<1>11. \A n \in DOMAIN q : q[n] \in Key /\ (d.key = 0 \/ q[n] < d.key)
  BY <1>5, <1>8, <1>10
<1>12. \A m, n \in DOMAIN q : m < n => q[m] < q[n]
  <2>1. SUFFICES ASSUME NEW m \in DOMAIN q, NEW n \in DOMAIN q, m < n PROVE q[m] < q[n]
    OBVIOUS
  <2>2. m \in 1..Len(p)
    BY <1>3, <1>4, <2>1
  <2>3. q[m] = p[m] /\ p[m] < c.key
    BY <1>4, <1>6, <2>2
  <2>4. CASE n = Len(p) + 1
    BY <1>4, <2>3, <2>4
  <2>5. CASE n \in 1..Len(p)
    BY <1>4, <1>7, <2>1, <2>2, <2>3, <2>5
  <2>6. QED
    BY <1>9, <2>4, <2>5
<1>13. QED
  BY <1>8, <1>11, <1>12 DEF ContactFits, d, q

\* Removing the first entry leaves the others.
LEMMA FitsTail ==
    ASSUME NEW peer \in Seq(Contact), peer # <<>>, NEW k, PeerFits(peer, k)
    PROVE  PeerFits(Tail(peer), k)
<1>1. /\ Tail(peer) \in Seq(Contact) /\ Len(Tail(peer)) = Len(peer) - 1
      /\ \A i \in 1..Len(Tail(peer)) : Tail(peer)[i] = peer[i + 1]
  BY HeadTailProperties
<1>2. Len(peer) \in Nat /\ DOMAIN peer = 1..Len(peer) /\ DOMAIN Tail(peer) = 1..Len(Tail(peer))
  BY <1>1, LenProperties
<1>3. \A i \in DOMAIN Tail(peer) : i + 1 \in DOMAIN peer /\ Tail(peer)[i] = peer[i + 1]
  BY <1>1, <1>2
<1>4. QED
  BY <1>3 DEF PeerFits

\* The list and the passes when one account's list is written.
LEMMA SafeFile ==
    ASSUME TypeOK, SafeInv, NEW a \in Account, NEW peer \in Seq(Contact),
           file' = [file EXCEPT ![a].peer = peer],
           PeerFits(peer, key[Other(a)]),
           UNCHANGED <<key, published, shook>>
    PROVE  /\ Onward /\ PublishedInv'
           /\ \A x \in Account : \/ file'[x].peer = file[x].peer
                                 \/ PeerFits(file'[x].peer, key'[Other(x)])
<1>1. file \in [Account -> File]
  BY TypeParts DEF FileOK
<1>2. /\ file'[a].peer = peer
      /\ \A x \in Account : x # a => file'[x] = file[x]
  BY <1>1, PutPeer
<1>3. Onward /\ PublishedInv'
  BY DEF Onward, SafeInv, PublishedInv
<1>4. PeerFits(file'[a].peer, key'[Other(a)])
  BY <1>2
<1>5. QED
  BY <1>2, <1>3, <1>4

\* An inbox that loses no item under way.
LEMMA SafeRest ==
    ASSUME TypeOK, SafeInv, UNCHANGED <<inbox, key, published, shook>>
    PROVE  Onward /\ PublishedInv' /\ ItemsInv'
  BY DEF Onward, SafeInv, PublishedInv, ItemsInv

\* What users do keeps SafeInv.
LEMMA AddSafe == ASSUME TypeOK, SafeInv, NEW a \in Account, AddFromDirectory(a) PROVE SafeInv'
<1>1. PICK lock \in published[Other(a)] :
          file' = [file EXCEPT ![a].peer = SaveFromLock(file[a].peer, lock)]
  BY DEF AddFromDirectory
<1>2. UNCHANGED <<key, published, inbox, drain, shook>>
  BY DEF AddFromDirectory, server
<1>3. lock \in Key
  <2>1. Other(a) \in Account /\ key[Other(a)] \in 0..MaxKey
    BY OtherAccount, TypeParts DEF KeysOK
  <2>2. lock = key[Other(a)] /\ lock # 0
    BY <1>1, <2>1 DEF SafeInv, PublishedInv
  <2>3. QED
    BY <2>1, <2>2, PendingInboxAssumption DEF Key
<1>4. file[a].peer \in Seq(Contact) /\ PeerFits(file[a].peer, key[Other(a)])
  BY TypeParts DEF FileOK, File, SafeInv, PeersInv
<1> DEFINE peer == SaveFromLock(file[a].peer, lock)
<1>5. peer \in Seq(Contact) /\ PeerFits(peer, key[Other(a)])
  BY <1>3, <1>4, FitsSaved, SavedPeer, KeyFacts DEF Saved
<1> HIDE DEF peer
<1>6. /\ Onward /\ PublishedInv' /\ ItemsInv'
      /\ \A x \in Account : \/ file'[x].peer = file[x].peer
                            \/ PeerFits(file'[x].peer, key'[Other(x)])
  BY <1>1, <1>2, <1>5, SafeFile, SafeRest DEF peer
<1>7. PeersInv'
  BY <1>2, <1>6, KeepPeers DEF SafeInv
<1>8. PassesInv'
  BY <1>2 DEF SafeInv, PassesInv
<1>9. QED
  BY <1>6, <1>7, <1>8 DEF SafeInv

LEMMA InviteSafe == ASSUME TypeOK, SafeInv, NEW a \in Account, Invite(a) PROVE SafeInv'
<1> DEFINE b == Other(a)
           item == Item("contact_request", key[a], 0, "good")
<1>1. \E i \in DOMAIN file[a].peer : \E connection \in {"invited", "unreachable"} :
          /\ file' = [file EXCEPT ![a].peer = SetConnection(file[a].peer, file[a].peer[i].key, connection)]
          /\ Post(b, item) \/ UNCHANGED <<inbox, posted>>
  BY DEF Invite
<1>2. PICK lock : \E connection \in {"invited", "unreachable"} :
          /\ file' = [file EXCEPT ![a].peer = SetConnection(file[a].peer, lock, connection)]
          /\ Post(b, item) \/ UNCHANGED <<inbox, posted>>
  BY <1>1
<1>3. PICK connection \in {"invited", "unreachable"} :
          /\ file' = [file EXCEPT ![a].peer = SetConnection(file[a].peer, lock, connection)]
          /\ Post(b, item) \/ UNCHANGED <<inbox, posted>>
  BY <1>2
<1>4. UNCHANGED <<key, published, drain, shook>> /\ key[a] # 0
  BY DEF Invite, history
<1>5. file[a].peer \in Seq(Contact) /\ PeerFits(file[a].peer, key[Other(a)])
  BY TypeParts DEF FileOK, File, SafeInv, PeersInv
<1> DEFINE peer == SetConnection(file[a].peer, lock, connection)
<1>6. peer \in Seq(Contact) /\ PeerFits(peer, key[Other(a)])
  BY <1>5, FitsMarked, MarkedPeer DEF Marked
<1> HIDE DEF peer
<1>7. /\ Onward /\ PublishedInv'
      /\ \A x \in Account : \/ file'[x].peer = file[x].peer
                            \/ PeerFits(file'[x].peer, key'[Other(x)])
  BY <1>3, <1>4, <1>6, SafeFile DEF peer
<1>8. PeersInv'
  BY <1>4, <1>7, KeepPeers DEF SafeInv
<1>9. item.kind = "contact_request" /\ item.lock = key[a] /\ key[a] \in Key
  BY <1>4, TypeParts, PendingInboxAssumption DEF Item, KeysOK, Key
<1> HIDE DEF item
<1>10. \A x \in Account : inbox[x] \subseteq inbox'[x] /\ inbox'[x] \subseteq inbox[x] \cup {item}
  <2>1. inbox \in [Account -> SUBSET PendingItem]
    BY TypeParts DEF InboxOK
  <2>2. QED
    BY <1>3, <2>1 DEF Post
<1>11. \A k, s : ItemFits(item, k, s)
  BY <1>9 DEF ItemFits, Accept, Unsought
<1>12. ItemsInv'
  BY <1>7, <1>10, <1>11, KeepItems DEF SafeInv
<1>13. PassesInv'
  <2>1. \A x \in Account : drain'[x] = drain[x] /\ drain[x].todo \subseteq inbox'[x]
    BY <1>4, <1>10 DEF SafeInv, PassesInv, PassFits
  <2>2. QED
    BY <2>1, KeepPasses DEF SafeInv
<1>14. QED
  BY <1>7, <1>8, <1>12, <1>13 DEF SafeInv

\* Acknowledging a request takes no item from a pass.
LEMMA RequestTaken ==
    ASSUME TypeOK, SafeInv, NEW a \in Account, NEW request \in inbox[a],
           request.kind = "contact_request"
    PROVE  drain[a].todo \subseteq Without(inbox[a], request.id)
<1>1. drain[a].todo \subseteq inbox[a] /\ \A i \in drain[a].todo : i.kind # "contact_request"
  BY DEF SafeInv, PassesInv, PassFits
<1>2. \A x \in inbox[a] : x.id = request.id => x = request
  BY TypeParts DEF InboxOK, IdsFit
<1>3. QED
  BY <1>1, <1>2 DEF Without

LEMMA AcceptSafe ==
    ASSUME TypeOK, SafeInv, NEW a \in Account, NEW acked \in BOOLEAN, NEW form \in Form,
           AcceptContactRequest(a, acked, form)
    PROVE  SafeInv'
<1> DEFINE b == Other(a)
           item == Item("contact_accept", key[a], 0, form)
<1>1. PICK request \in inbox[a] :
          /\ request.kind = "contact_request"
          /\ inbox' = [inbox EXCEPT ![a] = IF acked THEN Without(@, request.id) ELSE @,
                                    ![b] = @ \cup {item}]
          /\ file' = IF acked THEN [file EXCEPT ![a].peer = SaveRequester(file[a].peer, request.lock)]
                     ELSE file
  BY DEF AcceptContactRequest
<1>2. UNCHANGED <<key, published, drain>> /\ shook' = [x \in Account |-> TRUE] /\ key[a] # 0
  BY DEF AcceptContactRequest
<1>3. b \in Account /\ b # a
  BY OtherAccount
<1>4. Onward /\ PublishedInv'
  BY <1>2 DEF Onward, SafeInv, PublishedInv
<1>5. PeersInv'
  <2>1. file \in [Account -> File] /\ file[a].peer \in Seq(Contact)
    BY TypeParts DEF FileOK, File
  <2>2. request.lock \in Key
    BY <1>1 DEF SafeInv, ItemsInv, ItemFits
  <2>3. PeerFits(file[a].peer, key[Other(a)])
    BY DEF SafeInv, PeersInv
  <2> DEFINE mid == SaveFromLock(file[a].peer, request.lock)
             peer == SetConnection(mid, request.lock, "connected")
  <2>4. mid \in Seq(Contact) /\ PeerFits(mid, key[Other(a)])
    BY <2>1, <2>2, <2>3, FitsSaved, SavedPeer, KeyFacts DEF Saved
  <2> HIDE DEF mid
  <2>5. peer \in Seq(Contact) /\ PeerFits(peer, key[Other(a)])
    BY <2>4, FitsMarked, MarkedPeer DEF Marked
  <2> HIDE DEF peer
  <2>6. file' = IF acked THEN [file EXCEPT ![a].peer = peer] ELSE file
    BY <1>1 DEF SaveRequester, peer, mid
  <2>7. \A x \in Account : \/ file'[x].peer = file[x].peer
                           \/ PeerFits(file'[x].peer, key'[Other(x)])
    <3>1. CASE ~acked
      BY <2>6, <3>1
    <3>2. CASE acked
      <4>1. file'[a].peer = peer /\ \A x \in Account : x # a => file'[x] = file[x]
        BY <2>1, <2>5, <2>6, <3>2, PutPeer
      <4>2. PeerFits(file'[a].peer, key'[Other(a)])
        BY <1>2, <2>5, <4>1
      <4>3. QED
        BY <4>1, <4>2
    <3>3. QED
      BY <3>1, <3>2
  <2>8. QED
    BY <1>2, <1>4, <2>7, KeepPeers DEF SafeInv
<1>6. /\ item.kind = "contact_accept" /\ item.lock = key[a] /\ key[a] \in Key
      /\ item.form # "unasked"
  BY <1>2, TypeParts, PendingInboxAssumption DEF Item, KeysOK, Key
<1> HIDE DEF item, b
<1>7. /\ inbox'[a] = inbox[a] \/ inbox'[a] = Without(inbox[a], request.id)
      /\ inbox'[b] = inbox[b] \cup {item}
  <2>1. inbox \in [Account -> SUBSET PendingItem]
    BY TypeParts DEF InboxOK
  <2>2. QED
    BY <1>1, <1>3, <2>1
<1>8. \A x \in Account : inbox'[x] \subseteq inbox[x] \cup {item}
  BY <1>3, <1>7, OtherAccount DEF b, Without
<1>9. \A k : ItemFits(item, k, TRUE)
  BY <1>6 DEF ItemFits, Unsought
<1>10. ItemsInv'
  BY <1>2, <1>4, <1>8, <1>9, KeepItems DEF SafeInv
<1>11. PassesInv'
  <2>1. drain[a].todo \subseteq inbox'[a]
    BY <1>1, <1>7, RequestTaken DEF SafeInv, PassesInv, PassFits
  <2>2. drain[b].todo \subseteq inbox'[b]
    BY <1>3, <1>7 DEF SafeInv, PassesInv, PassFits
  <2>3. \A x \in Account : drain'[x] = drain[x] /\ drain[x].todo \subseteq inbox'[x]
    BY <1>2, <2>1, <2>2, OtherAccount DEF b
  <2>4. QED
    BY <2>3, KeepPasses DEF SafeInv
<1>12. QED
  BY <1>4, <1>5, <1>10, <1>11 DEF SafeInv

LEMMA DeclineSafe == ASSUME TypeOK, SafeInv, NEW a \in Account, Decline(a) PROVE SafeInv'
<1>1. PICK request \in inbox[a] : /\ request.kind = "contact_request"
                                  /\ inbox' = [inbox EXCEPT ![a] = Without(@, request.id)]
  BY DEF Decline
<1>2. UNCHANGED <<key, published, file, drain, shook>>
  BY DEF Decline, history
<1>3. Onward /\ PublishedInv' /\ PeersInv'
  BY <1>2 DEF Onward, SafeInv, PublishedInv, PeersInv
<1>4. inbox'[a] = Without(inbox[a], request.id) /\ \A x \in Account : x # a => inbox'[x] = inbox[x]
  BY <1>1, TypeParts DEF InboxOK
<1>5. ItemsInv'
  BY <1>3, <1>4, KeepItems DEF SafeInv, Without
<1>6. PassesInv'
  <2>1. \A x \in Account : drain'[x] = drain[x] /\ drain[x].todo \subseteq inbox'[x]
    BY <1>1, <1>2, <1>4, RequestTaken DEF SafeInv, PassesInv, PassFits
  <2>2. QED
    BY <2>1, KeepPasses DEF SafeInv
<1>7. QED
  BY <1>3, <1>5, <1>6 DEF SafeInv

LEMMA RemoveSafe == ASSUME TypeOK, SafeInv, NEW a \in Account, RemovePeer(a) PROVE SafeInv'
<1> DEFINE peer == Tail(file[a].peer)
<1>1. file' = [file EXCEPT ![a].peer = peer] /\ file[a].peer # <<>>
  BY DEF RemovePeer
<1>2. UNCHANGED <<key, published, inbox, drain, shook>>
  BY DEF RemovePeer, server, history
<1>3. file[a].peer \in Seq(Contact) /\ PeerFits(file[a].peer, key[Other(a)])
  BY TypeParts DEF FileOK, File, SafeInv, PeersInv
<1>4. peer \in Seq(Contact) /\ PeerFits(peer, key[Other(a)])
  BY <1>1, <1>3, FitsTail, HeadTailProperties
<1> HIDE DEF peer
<1>5. /\ Onward /\ PublishedInv' /\ ItemsInv'
      /\ \A x \in Account : \/ file'[x].peer = file[x].peer
                            \/ PeerFits(file'[x].peer, key'[Other(x)])
  BY <1>1, <1>2, <1>4, SafeFile, SafeRest
<1>6. PeersInv'
  BY <1>2, <1>5, KeepPeers DEF SafeInv
<1>7. PassesInv'
  BY <1>2 DEF SafeInv, PassesInv
<1>8. QED
  BY <1>5, <1>6, <1>7 DEF SafeInv

LEMMA FriendSafe == ASSUME TypeOK, SafeInv, NEW a \in Account, NEW f, AddFriend(a, f) PROVE SafeInv'
<1>1. UNCHANGED <<key, published, inbox, drain, shook>>
  BY DEF AddFriend, server, history
<1>2. \A x \in Account : file'[x].peer = file[x].peer
  <2>1. file \in [Account -> File]
    BY TypeParts DEF FileOK
  <2>2. file' = [file EXCEPT ![a] = [file[a] EXCEPT !.friends = file[a].friends \cup {f}]]
    BY <2>1 DEF AddFriend
  <2>3. QED
    BY <2>1, <2>2 DEF File
<1>3. PublishedInv' /\ ItemsInv' /\ PassesInv'
  BY <1>1 DEF SafeInv, PublishedInv, ItemsInv, PassesInv
<1>4. PeersInv'
  BY <1>1, <1>2 DEF SafeInv, PeersInv
<1>5. QED
  BY <1>3, <1>4 DEF SafeInv

\* A broadcast adds items that are right to the other's inbox.
LEMMA SafeSent ==
    ASSUME TypeOK, SafeInv, NEW a \in Account, NEW item, NEW new, Sends(Other(a), item, new),
           Onward, \A x \in new : ItemFits(x, key'[a], shook'[Other(a)]),
           UNCHANGED <<file, drain>>
    PROVE  ItemsInv' /\ PeersInv' /\ PassesInv'
<1>1. inbox' = [inbox EXCEPT ![Other(a)] = @ \cup new] /\ inbox \in [Account -> SUBSET PendingItem]
  BY TypeParts DEF Sends, InboxOK
<1>2. Other(a) \in Account /\ Other(Other(a)) = a
  BY OtherAccount
<1>3. \A x \in Account : inbox[x] \subseteq inbox'[x]
  BY <1>1
<1>4. \A x \in Account : \A i \in inbox'[x] :
          i \in inbox[x] \/ ItemFits(i, key'[Other(x)], shook'[x])
  <2>1. SUFFICES ASSUME NEW x \in Account, NEW i \in inbox'[x], i \notin inbox[x]
        PROVE ItemFits(i, key'[Other(x)], shook'[x])
    OBVIOUS
  <2>2. x = Other(a) /\ i \in new
    BY <1>1, <2>1
  <2>3. QED
    BY <1>2, <2>2
<1>5. ItemsInv'
  BY <1>4, KeepItems DEF SafeInv
<1>6. PeersInv'
  BY KeepPeers DEF SafeInv
<1>7. PassesInv'
  <2>1. \A x \in Account : drain'[x] = drain[x] /\ drain[x].todo \subseteq inbox'[x]
    BY <1>3 DEF SafeInv, PassesInv, PassFits
  <2>2. QED
    BY <2>1, KeepPasses DEF SafeInv
<1>8. QED
  BY <1>5, <1>6, <1>7

LEMMA RotateSafe == ASSUME TypeOK, SafeInv, NEW a \in Account, NEW failing, Rotate(a, failing) PROVE SafeInv'
<1> DEFINE item == Item("rotation", key[a] + 1, key[a], "good")
<1>1. PICK new : Sends(Other(a), item, new)
  BY RotateOK
<1>2. /\ key' = [key EXCEPT ![a] = key[a] + 1] /\ published' = [published EXCEPT ![a] = {key[a] + 1}]
      /\ UNCHANGED <<file, drain, shook>>
      /\ key[a] \in 1..(MaxKey - 1)
  BY DEF Rotate
<1>3. key \in [Account -> 0..MaxKey] /\ published \in [Account -> SUBSET Lock]
  BY TypeParts DEF KeysOK
<1>4. key[a] \in Key /\ key[a] + 1 \in Key /\ key[a] # 0 /\ key[a] + 1 # 0
  BY <1>2, PendingInboxAssumption DEF Key
<1>5. Onward
  BY <1>2, <1>3, <1>4 DEF Onward
<1>6. PublishedInv'
  BY <1>2, <1>3, <1>4 DEF SafeInv, PublishedInv
<1>7. item.kind = "rotation" /\ item.lock = key[a] + 1 /\ item.revoked = key[a] /\ item.form = "good"
  BY DEF Item
<1> HIDE DEF item
<1>8. \A x \in new : \A k, s : ItemFits(x, k, s)
  <2>1. SUFFICES ASSUME NEW x \in new PROVE \A k, s : ItemFits(x, k, s)
    OBVIOUS
  <2>2. x.kind = "rotation" /\ x.lock = key[a] + 1 /\ x.revoked = key[a] /\ x.form = "good"
    BY <1>1, <1>7 DEF Sends, Sent
  <2>3. QED
    BY <1>4, <2>2 DEF ItemFits, RotationFits, Accept, Unsought
<1>9. ItemsInv' /\ PeersInv' /\ PassesInv'
  BY <1>1, <1>2, <1>5, <1>8, SafeSent
<1>10. QED
  BY <1>6, <1>9 DEF SafeInv

LEMMA RevokeSafe == ASSUME TypeOK, SafeInv, NEW a \in Account, NEW failing, Revoke(a, failing) PROVE SafeInv'
<1> DEFINE item == Item("revocation", 0, key[a], "good")
<1>1. PICK new : Sends(Other(a), item, new)
  BY RevokeOK
<1>2. /\ key' = [key EXCEPT ![a] = 0] /\ published' = [published EXCEPT ![a] = {}]
      /\ UNCHANGED <<file, drain, shook>>
      /\ key[a] # 0
  BY DEF Revoke
<1>3. key \in [Account -> 0..MaxKey] /\ published \in [Account -> SUBSET Lock]
  BY TypeParts DEF KeysOK
<1>4. key[a] \in Key /\ key'[a] = 0
  BY <1>2, <1>3, PendingInboxAssumption DEF Key
<1>5. Onward
  BY <1>2, <1>3 DEF Onward
<1>6. PublishedInv'
  BY <1>2, <1>3 DEF SafeInv, PublishedInv
<1>7. item.kind = "revocation" /\ item.lock = 0 /\ item.revoked = key[a] /\ item.form = "good"
  BY DEF Item
<1> HIDE DEF item
<1>8. \A x \in new : \A s : ItemFits(x, 0, s)
  <2>1. SUFFICES ASSUME NEW x \in new PROVE \A s : ItemFits(x, 0, s)
    OBVIOUS
  <2>2. x.kind = "revocation" /\ x.lock = 0 /\ x.revoked = key[a] /\ x.form = "good"
    BY <1>1, <1>7 DEF Sends, Sent
  <2>3. QED
    BY <1>4, <2>2 DEF ItemFits, RevocationFits, Accept, Unsought
<1>9. ItemsInv' /\ PeersInv' /\ PassesInv'
  BY <1>1, <1>2, <1>4, <1>5, <1>8, SafeSent
<1>10. QED
  BY <1>6, <1>9 DEF SafeInv

\* Faults keep SafeInv: an item arrives that is right whatever the other account does.
LEMMA SafePosted ==
    ASSUME TypeOK, SafeInv, NEW a \in Account, NEW item \in PendingItem, Post(a, item),
           \A k, s : ItemFits(item, k, s), UNCHANGED <<key, published, file, drain, shook>>
    PROVE  SafeInv'
<1>3. Onward /\ PublishedInv' /\ PeersInv'
  BY DEF Onward, SafeInv, PublishedInv, PeersInv
<1>4. \A x \in Account : inbox[x] \subseteq inbox'[x] /\ inbox'[x] \subseteq inbox[x] \cup {item}
  <2>1. inbox \in [Account -> SUBSET PendingItem]
    BY TypeParts DEF InboxOK
  <2>2. QED
    BY <2>1 DEF Post
<1>6. ItemsInv'
  BY <1>3, <1>4, KeepItems DEF SafeInv
<1>7. PassesInv'
  <2>1. \A x \in Account : drain'[x] = drain[x] /\ drain[x].todo \subseteq inbox'[x]
    BY <1>4 DEF SafeInv, PassesInv, PassFits
  <2>2. QED
    BY <2>1, KeepPasses DEF SafeInv
<1>8. QED
  BY <1>3, <1>6, <1>7 DEF SafeInv

LEMMA ForgerySafe ==
    ASSUME TypeOK, SafeInv, NEW a \in Account, NEW kind \in {"contact_accept", "rotation", "revocation"},
           Forgery(a, kind)
    PROVE  SafeInv'
<1>1. PICK item \in PendingItem : item.kind = kind /\ item.form = "forged" /\ Post(a, item)
  BY ForgeryOK
<1>2. UNCHANGED <<key, published, file, drain, shook>>
  BY DEF Forgery, history
<1>3. \A k, s : ItemFits(item, k, s)
  BY <1>1 DEF ItemFits, Accept, Unsought
<1>4. QED
  BY <1>1, <1>2, <1>3, SafePosted

LEMMA UnaskedSafe == ASSUME TypeOK, SafeInv, NEW a \in Account, Unasked(a) PROVE SafeInv'
<1>1. PICK item \in PendingItem :
          /\ Unsought(item) /\ Post(a, item)
          /\ item.lock \in published[Other(a)] \cup {Stranger}
  BY UnaskedOK DEF Unsought
<1>2. UNCHANGED <<key, published, file, drain, shook>>
  BY DEF Unasked, history
<1>3. item.lock \in Key \cup {Stranger}
  <2>1. Other(a) \in Account /\ key[Other(a)] \in 0..MaxKey
    BY OtherAccount, TypeParts DEF KeysOK
  <2>2. key[Other(a)] # 0 => key[Other(a)] \in Key
    BY <2>1, PendingInboxAssumption DEF Key
  <2>3. published[Other(a)] = IF key[Other(a)] = 0 THEN {} ELSE {key[Other(a)]}
    BY <2>1 DEF SafeInv, PublishedInv
  <2>4. QED
    BY <1>1, <2>2, <2>3
<1>4. \A k, s : ItemFits(item, k, s)
  BY <1>1, <1>3 DEF ItemFits, Accept, Unsought
<1>5. QED
  BY <1>1, <1>2, <1>4, SafePosted

\* The pass of an account moves on, its list not being written.
LEMMA SafeMove ==
    ASSUME TypeOK, SafeInv, NEW a \in Account, NEW p, drain' = [drain EXCEPT ![a] = p],
           \A x \in Account : inbox'[x] \subseteq inbox[x] /\ (x # a => inbox'[x] = inbox[x]),
           PassFits(p, inbox'[a]), UNCHANGED <<key, published, shook>>
    PROVE  Onward /\ PublishedInv' /\ ItemsInv' /\ PassesInv'
<1>1. Onward /\ PublishedInv'
  BY DEF Onward, SafeInv, PublishedInv
<1>2. ItemsInv'
  BY <1>1, KeepItems DEF SafeInv
<1>3. drain'[a] = p /\ \A x \in Account : x # a => drain'[x] = drain[x]
  BY TypeParts DEF DrainOK
<1>4. \A x \in Account : \/ drain'[x] = drain[x] /\ drain[x].todo \subseteq inbox'[x]
                         \/ PassFits(drain'[x], inbox'[x])
  BY <1>3 DEF SafeInv, PassesInv, PassFits
<1>5. PassesInv'
  BY <1>4, KeepPasses DEF SafeInv
<1>6. QED
  BY <1>1, <1>2, <1>5

\* A copy is empty unless it is about to be stored.
LEMMA NoFileFits == \A k : PeerFits(NoFile.peer, k)
<1>1. NoFile.peer = <<>> /\ DOMAIN <<>> = {}
  BY DEF NoFile
<1>2. QED
  BY <1>1 DEF PeerFits

LEMMA SafeMoved ==
    ASSUME TypeOK, SafeInv, NEW a \in Account, NEW p \in PassType, drain' = [drain EXCEPT ![a] = p],
           \A x \in Account : inbox'[x] \subseteq inbox[x] /\ (x # a => inbox'[x] = inbox[x]),
           PassFits(p, inbox'[a]), p.copy = NoFile, UNCHANGED <<key, published, shook, file>>
    PROVE  SafeInv'
<1>1. Onward /\ PublishedInv' /\ ItemsInv' /\ PassesInv'
  BY SafeMove
<1>2. drain'[a] = p /\ \A x \in Account : x # a => drain'[x] = drain[x]
  BY TypeParts DEF DrainOK
<1>3. PeerFits(drain'[a].copy.peer, key'[Other(a)])
  BY <1>2, NoFileFits
<1>4. PeersInv'
  BY <1>1, <1>2, <1>3, KeepPeers DEF SafeInv
<1>5. QED
  BY <1>1, <1>4 DEF SafeInv

\* Ending the pass, or going on to the next item, leaves it right.
LEMMA NoPassFits == \A items : PassFits(NoPass, items)
  BY DEF PassFits, NoPass

LEMMA NextFits ==
    ASSUME NEW p \in PassType, NEW items, NEW less, PassFits(p, items), Rest(p.todo) \subseteq less
    PROVE  PassFits(NextItem(p), less)
<1>1. NextItem(p).todo = Rest(p.todo) /\ NextItem(p).pc \in {"idle", "next"}
  BY NextItemType
<1>2. Rest(p.todo) \subseteq p.todo
  BY DEF Rest
<1>3. QED
  BY <1>1, <1>2 DEF PassFits

LEMMA SkipSafe == ASSUME TypeOK, SafeInv, NEW a \in Account, Skip(a) PROVE SafeInv'
<1> DEFINE p == NextItem(drain[a])
<1>1. drain' = [drain EXCEPT ![a] = p] /\ UNCHANGED <<key, published, inbox, file, shook>>
  BY DEF Skip, Pass, server
<1>2. drain[a] \in PassType /\ PassFits(drain[a], inbox[a])
  BY TypeParts DEF DrainOK, SafeInv, PassesInv
<1>3. Rest(drain[a].todo) \subseteq inbox[a]
  BY <1>2 DEF PassFits, Rest
<1>4. p \in PassType /\ p.copy = NoFile /\ PassFits(p, inbox[a])
  BY <1>2, <1>3, NextFits, NextItemType
<1> HIDE DEF p
<1>5. QED
  BY <1>1, <1>4, SafeMoved

LEMMA PassFailsSafe == ASSUME TypeOK, SafeInv, NEW a \in Account, NEW deleted, PassFails(a, deleted) PROVE SafeInv'
<1>1. drain' = [drain EXCEPT ![a] = NoPass] /\ UNCHANGED <<key, published, file, shook>>
  BY DEF PassFails, Pass, history
<1>2. \A x \in Account : inbox'[x] \subseteq inbox[x] /\ (x # a => inbox'[x] = inbox[x])
  BY TypeParts DEF PassFails, InboxOK, Without
<1>3. NoPass \in PassType /\ NoPass.copy = NoFile /\ PassFits(NoPass, inbox'[a])
  BY PassTypes, NoPassFits DEF NoPass
<1>4. QED
  BY <1>1, <1>2, <1>3, SafeMoved

\* The steps of a pass keep SafeInv.
LEMMA ListSafe == ASSUME TypeOK, SafeInv, NEW a \in Account, List(a) PROVE SafeInv'
<1> DEFINE items == {item \in inbox[a] : item.kind # "contact_request"}
           p == [NoPass EXCEPT !.pc = "next", !.todo = items]
<1>1. drain' = [drain EXCEPT ![a] = p] /\ UNCHANGED <<key, published, inbox, file, shook>>
  BY DEF List, Pass, server, history
<1>2. items \subseteq inbox[a] /\ items \in SUBSET PendingItem /\ \A i \in items : i.kind # "contact_request"
  BY TypeParts DEF InboxOK
<1> HIDE DEF items
<1>3. p = [pc |-> "next", todo |-> items, copy |-> NoFile]
  <2>1. PICK u : u = p
    OBVIOUS
  <2>2. u = [pc |-> "next", todo |-> items, copy |-> NoFile]
    BY <2>1 DEF NoPass
  <2> HIDE DEF p
  <2>3. QED
    BY <2>1, <2>2
<1> HIDE DEF p
<1>4. p.pc = "next" /\ p.todo = items /\ p.copy = NoFile /\ p \in PassType
  BY <1>2, <1>3, PassTypes DEF PassType, Label
<1>5. PassFits(p, inbox[a])
  BY <1>2, <1>4 DEF PassFits
<1>6. QED
  BY <1>1, <1>4, <1>5, SafeMoved

LEMMA FetchSafe == ASSUME TypeOK, SafeInv, NEW a \in Account, Fetch(a) PROVE SafeInv'
<1>1. PICK pc \in {"load", "ack", "save"} :
          /\ Goto(a, pc)
          /\ pc = "load" => Current(a).kind # "contact_accept"
          /\ pc = "save" => Current(a).kind = "contact_accept" /\ Current(a).form # "forged"
  BY DEF Fetch
<1>2. drain[a].pc = "next" /\ UNCHANGED <<key, published, inbox, file, shook>>
  BY DEF Fetch, server, history
<1> DEFINE p == [pc |-> pc, todo |-> drain[a].todo, copy |-> NoFile]
<1>3. drain' = [drain EXCEPT ![a] = p]
  BY <1>1, <1>2, TypeParts, GotoType DEF Label
<1>4. p \in PassType
  BY TypeParts, PassTypes DEF DrainOK, PassType, Label
<1>5. PassFits(drain[a], inbox[a]) /\ Current(a) \in drain[a].todo /\ Current(a) \in PendingItem
  BY <1>2, CurrentItem DEF SafeInv, PassesInv
<1>6. Current(a).kind \in {"contact_accept", "rotation", "revocation"} /\ Current(a) = First(drain[a].todo)
  BY <1>5 DEF PassFits, PendingItem, Current
<1>7. PassFits(p, inbox[a])
  BY <1>1, <1>5, <1>6 DEF PassFits, Accept, Unsought
<1>8. p.copy = NoFile
  OBVIOUS
<1> HIDE DEF p
<1>9. QED
  BY <1>2, <1>3, <1>4, <1>7, <1>8, SafeMoved

\* A step of the pass that also writes the list.
LEMMA SafeWrite ==
    ASSUME TypeOK, SafeInv, NEW a \in Account, NEW p \in PassType, NEW peer \in Seq(Contact),
           drain' = [drain EXCEPT ![a] = p], p.copy = NoFile, PassFits(p, inbox[a]),
           file' = [file EXCEPT ![a].peer = peer], PeerFits(peer, key[Other(a)]),
           UNCHANGED <<key, published, inbox, shook>>
    PROVE  SafeInv'
<1>1. Onward /\ PublishedInv' /\ ItemsInv' /\ PassesInv'
  BY SafeMove
<1>2. \A x \in Account : \/ file'[x].peer = file[x].peer
                         \/ PeerFits(file'[x].peer, key'[Other(x)])
  BY SafeFile
<1>3. drain'[a] = p /\ \A x \in Account : x # a => drain'[x] = drain[x]
  BY TypeParts DEF DrainOK
<1>4. PeerFits(drain'[a].copy.peer, key'[Other(a)])
  BY <1>3, NoFileFits
<1>5. PeersInv'
  BY <1>1, <1>2, <1>3, <1>4, KeepPeers DEF SafeInv
<1>6. QED
  BY <1>1, <1>5 DEF SafeInv

LEMMA SaveAcceptSafe == ASSUME TypeOK, SafeInv, NEW a \in Account, SaveAccept(a) PROVE SafeInv'
<1>1. drain[a].pc = "save" /\ UNCHANGED <<key, published, inbox, shook>>
  BY DEF SaveAccept, server
<1>2. PassFits(drain[a], inbox[a]) /\ Current(a) \in drain[a].todo /\ Current(a) = First(drain[a].todo)
  BY <1>1, CurrentItem DEF SafeInv, PassesInv, Current
<1>3. CASE Current(a).form = "odd"
  <2>1. drain' = [drain EXCEPT ![a] = NoPass] /\ file' = file
    BY <1>3 DEF SaveAccept, Pass
  <2>2. NoPass \in PassType /\ NoPass.copy = NoFile /\ PassFits(NoPass, inbox'[a])
    BY PassTypes, NoPassFits DEF NoPass
  <2>3. QED
    BY <1>1, <2>1, <2>2, SafeMoved
<1>4. CASE Current(a).form # "odd"
  <2> DEFINE peer == SaveFromLock(file[a].peer, Current(a).lock)
             p == [pc |-> "mark", todo |-> drain[a].todo, copy |-> NoFile]
  <2>1. file' = [file EXCEPT ![a].peer = peer] /\ Goto(a, "mark")
    BY <1>4 DEF SaveAccept
  <2>2. drain' = [drain EXCEPT ![a] = p]
    BY <1>1, <2>1, TypeParts, GotoType DEF Label
  <2>3. p \in PassType /\ p.copy = NoFile
    BY TypeParts, PassTypes DEF DrainOK, PassType, Label
  <2>4. (Accept(Current(a)) \/ Unsought(Current(a))) /\ PassFits(p, inbox[a])
    BY <1>1, <1>2 DEF PassFits
  <2>5. Current(a).lock \in Key \cup {Stranger}
    BY <1>2, <2>4 DEF SafeInv, ItemsInv, ItemFits, PassFits
  <2>6. file[a].peer \in Seq(Contact) /\ PeerFits(file[a].peer, key[Other(a)])
    BY TypeParts DEF FileOK, File, SafeInv, PeersInv
  <2>7. peer \in Seq(Contact) /\ PeerFits(peer, key[Other(a)])
    BY <2>5, <2>6, FitsSaved, SavedPeer, KeyFacts DEF Saved
  <2> HIDE DEF p, peer
  <2>8. QED
    BY <1>1, <2>1, <2>2, <2>3, <2>4, <2>7, SafeWrite
<1>5. QED
  BY <1>3, <1>4

LEMMA MarkSafe == ASSUME TypeOK, SafeInv, NEW a \in Account, MarkConnected(a) PROVE SafeInv'
<1> DEFINE peer == SetConnection(file[a].peer, Current(a).lock, "connected")
           p == [pc |-> "ack", todo |-> drain[a].todo, copy |-> NoFile]
<1>1. /\ drain[a].pc = "mark" /\ UNCHANGED <<key, published, inbox, shook>>
      /\ file' = [file EXCEPT ![a].peer = peer] /\ Goto(a, "ack")
  BY DEF MarkConnected, server, history
<1>2. PassFits(drain[a], inbox[a]) /\ Current(a) \in drain[a].todo /\ Current(a) = First(drain[a].todo)
  BY <1>1, CurrentItem DEF SafeInv, PassesInv, Current
<1>3. drain' = [drain EXCEPT ![a] = p]
  BY <1>1, TypeParts, GotoType DEF Label
<1>4. p \in PassType /\ p.copy = NoFile
  BY TypeParts, PassTypes DEF DrainOK, PassType, Label
<1>5. (Accept(Current(a)) \/ Unsought(Current(a))) /\ PassFits(p, inbox[a])
  BY <1>1, <1>2 DEF PassFits
<1>6. file[a].peer \in Seq(Contact) /\ PeerFits(file[a].peer, key[Other(a)])
  BY TypeParts DEF FileOK, File, SafeInv, PeersInv
<1>7. peer \in Seq(Contact) /\ PeerFits(peer, key[Other(a)])
  BY <1>6, FitsMarked, MarkedPeer DEF Marked
<1> HIDE DEF p, peer
<1>8. QED
  BY <1>1, <1>3, <1>4, <1>5, <1>7, SafeWrite

LEMMA LoadSafe == ASSUME TypeOK, SafeInv, NEW a \in Account, LoadContacts(a) PROVE SafeInv'
<1>1. drain[a].pc = "load" /\ UNCHANGED <<key, published, inbox, file, shook>>
  BY DEF LoadContacts, server, history
<1>2. PassFits(drain[a], inbox[a]) /\ Current(a) \in drain[a].todo /\ Current(a) = First(drain[a].todo)
      /\ Current(a) \in PendingItem
  BY <1>1, CurrentItem DEF SafeInv, PassesInv, Current
<1>3. CASE Loaded(a)
  <2> DEFINE item == Current(a)
             peer == file[a].peer
             p == [pc |-> "store", todo |-> drain[a].todo, copy |-> drain'[a].copy]
  <2>1. PICK copy : /\ copy = drain'[a].copy
                    /\ drain' = [drain EXCEPT ![a] = [pc |-> "store", todo |-> drain[a].todo, copy |-> copy]]
                    /\ copy \in File
                    /\ Len(copy.peer) = Len(peer)
                    /\ copy.peer[1] = Applied(item, peer[1])
                    /\ \A i \in 2..Len(peer) : copy.peer[i] = peer[i]
    BY <1>3 DEF Loaded
  <2>2. peer # <<>> /\ item.form = "good" /\ item.revoked = peer[1].key
    BY <1>3 DEF Loaded
  <2> DEFINE q == [pc |-> "store", todo |-> drain[a].todo, copy |-> copy]
  <2>3. q.todo = drain[a].todo /\ q.pc = "store" /\ q.copy = copy
    OBVIOUS
  <2>4. PassFits(q, inbox[a])
    BY <1>1, <1>2, <2>3 DEF PassFits
  <2>5. peer \in Seq(Contact) /\ copy.peer \in Seq(Contact) /\ PeerFits(peer, key[Other(a)])
    BY <2>1, TypeParts DEF FileOK, File, SafeInv, PeersInv
  <2>6. /\ Len(peer) \in Nat \ {0}
        /\ DOMAIN peer = 1..Len(peer)
        /\ DOMAIN copy.peer = 1..Len(peer)
        /\ peer[1] \in Contact
    BY <2>1, <2>2, <2>5, EmptySeq, LenProperties
  <2>7. ContactFits(copy.peer[1], key[Other(a)])
    <3>1. ContactFits(peer[1], key[Other(a)])
      BY <2>5, <2>6 DEF PeerFits
    <3>2. ItemFits(item, key[Other(a)], shook[a]) /\ item.kind \in {"rotation", "revocation"}
      BY <1>1, <1>2 DEF SafeInv, ItemsInv, PassFits
    <3>3. ContactFits(Applied(item, peer[1]), key[Other(a)])
      BY <1>2, <2>2, <2>6, <3>1, <3>2, FitsApplied
    <3>4. QED
      BY <2>1, <3>3
  <2>8. \A i \in 1..Len(peer) : i = 1 \/ i \in 2..Len(peer)
    BY <2>6
  <2>9. PeerFits(copy.peer, key[Other(a)])
    BY <2>1, <2>5, <2>6, <2>7, <2>8 DEF PeerFits
  <2> HIDE DEF q
  <2>10. drain' = [drain EXCEPT ![a] = q]
    BY <2>1 DEF q
  <2>11. Onward /\ PublishedInv' /\ ItemsInv' /\ PassesInv'
    BY <1>1, <2>4, <2>10, SafeMove
  <2>12. drain'[a] = q /\ \A x \in Account : x # a => drain'[x] = drain[x]
    BY <2>10, TypeParts DEF DrainOK
  <2>13. PeerFits(drain'[a].copy.peer, key'[Other(a)])
    BY <1>1, <2>3, <2>9, <2>12
  <2>14. PeersInv'
    BY <1>1, <2>11, <2>12, <2>13, KeepPeers DEF SafeInv
  <2>15. QED
    BY <2>11, <2>14 DEF SafeInv
<1>4. CASE Goto(a, "ack")
  <2> DEFINE p == [pc |-> "ack", todo |-> drain[a].todo, copy |-> NoFile]
  <2>1. drain' = [drain EXCEPT ![a] = p]
    BY <1>1, <1>4, TypeParts, GotoType DEF Label
  <2>2. p \in PassType /\ p.copy = NoFile
    BY TypeParts, PassTypes DEF DrainOK, PassType, Label
  <2>3. PassFits(p, inbox[a])
    BY <1>2 DEF PassFits
  <2> HIDE DEF p
  <2>4. QED
    BY <1>1, <2>1, <2>2, <2>3, SafeMoved
<1>5. QED
  BY <1>3, <1>4, LoadSteps

LEMMA StoreSafe == ASSUME TypeOK, SafeInv, NEW a \in Account, StoreContacts(a) PROVE SafeInv'
<1> DEFINE p == [pc |-> "ack", todo |-> drain[a].todo, copy |-> NoFile]
<1>1. /\ drain[a].pc = "store" /\ UNCHANGED <<key, published, inbox, shook>>
      /\ file' = [file EXCEPT ![a] = drain[a].copy]
      /\ drain' = [drain EXCEPT ![a] = p]
  BY StoreOK DEF StoreContacts, server, history
<1>2. PassFits(drain[a], inbox[a])
  BY DEF SafeInv, PassesInv
<1>3. p.copy = NoFile /\ PassFits(p, inbox[a])
  BY <1>2 DEF PassFits
<1> HIDE DEF p
<1>4. Onward /\ PublishedInv' /\ ItemsInv' /\ PassesInv'
  BY <1>1, <1>3, SafeMove
<1>5. drain'[a] = p /\ \A x \in Account : x # a => drain'[x] = drain[x]
  BY <1>1, TypeParts DEF DrainOK
<1>6. file'[a] = drain[a].copy /\ \A x \in Account : x # a => file'[x] = file[x]
  BY <1>1, TypeParts DEF FileOK
<1>7. PeerFits(drain[a].copy.peer, key[Other(a)])
  BY DEF SafeInv, PeersInv
<1>8. /\ PeerFits(file'[a].peer, key'[Other(a)])
      /\ PeerFits(drain'[a].copy.peer, key'[Other(a)])
  BY <1>1, <1>3, <1>5, <1>6, <1>7, NoFileFits
<1>9. PeersInv'
  BY <1>4, <1>5, <1>6, <1>8, KeepPeers DEF SafeInv
<1>10. QED
  BY <1>4, <1>9 DEF SafeInv

\* What is left of a pass is in the inbox after the ack.
LEMMA RestStays ==
    ASSUME TypeOK, SafeInv, NEW a \in Account, drain[a].pc # "idle"
    PROVE  Rest(drain[a].todo) \subseteq Without(inbox[a], Current(a).id)
<1>1. drain[a].todo \subseteq inbox[a] /\ Current(a) \in drain[a].todo
  BY CurrentItem DEF SafeInv, PassesInv, PassFits
<1>2. \A x \in inbox[a] : x.id = Current(a).id => x = Current(a)
  BY <1>1, TypeParts DEF InboxOK, IdsFit
<1>3. QED
  BY <1>1, <1>2 DEF Without, Rest, Current

LEMMA AckSafe == ASSUME TypeOK, SafeInv, NEW a \in Account, Ack(a) PROVE SafeInv'
<1> DEFINE p == NextItem(drain[a])
<1>1. /\ drain' = [drain EXCEPT ![a] = p] /\ UNCHANGED <<key, published, file, shook>>
      /\ inbox' = [inbox EXCEPT ![a] = Without(@, Current(a).id)]
      /\ drain[a].pc = "ack"
  BY DEF Ack, Pass, history
<1>2. drain[a] \in PassType /\ PassFits(drain[a], inbox[a])
  BY TypeParts DEF DrainOK, SafeInv, PassesInv
<1>3. /\ inbox'[a] = Without(inbox[a], Current(a).id)
      /\ \A x \in Account : inbox'[x] \subseteq inbox[x] /\ (x # a => inbox'[x] = inbox[x])
  BY <1>1, TypeParts DEF InboxOK, Without
<1>4. Rest(drain[a].todo) \subseteq inbox'[a]
  BY <1>1, <1>3, RestStays
<1>5. p \in PassType /\ p.copy = NoFile /\ PassFits(p, inbox'[a])
  <2>1. PICK less : less = inbox'[a]
    OBVIOUS
  <2>2. PassFits(p, less)
    BY <1>2, <1>4, <2>1, NextFits
  <2>3. QED
    BY <1>2, <2>1, <2>2, NextItemType
<1> HIDE DEF p
<1>6. QED
  BY <1>1, <1>3, <1>5, SafeMoved

\* The first state is safe.
LEMMA SafeInit == Init => SafeInv
<1>1. SUFFICES ASSUME Init PROVE SafeInv
  OBVIOUS
<1>2. PublishedInv /\ ItemsInv
  BY <1>1 DEF Init, PublishedInv, ItemsInv
<1>3. PassesInv
  BY <1>1, NoPassFits DEF Init, PassesInv
<1>4. \A a \in Account : PeerFits(drain[a].copy.peer, key[Other(a)])
  BY <1>1, NoFileFits DEF Init, NoPass
<1>5. \A a \in Account : PeerFits(file[a].peer, key[Other(a)])
  <2>1. CASE \A a \in Account : file[a] = NoFile
    BY <2>1, NoFileFits
  <2>2. CASE \A a \in Account : file[a] = [peer |-> <<Entry(1, "connected")>>, friends |-> {}]
    <3> DEFINE e == Entry(1, "connected")
    <3>1. e.key = 1 /\ e.previous = <<>> /\ 1 \in Key /\ DOMAIN <<>> = {}
      BY PendingInboxAssumption DEF Entry, Key
    <3> HIDE DEF e
    <3>2. \A k : ContactFits(e, k)
      BY <3>1 DEF ContactFits
    <3>3. PICK one : one = <<e>>
      OBVIOUS
    <3>4. DOMAIN one = {1} /\ one[1] = e
      BY <3>3
    <3>5. \A k : PeerFits(one, k)
      BY <3>2, <3>4 DEF PeerFits
    <3>6. \A a \in Account : file[a] = [peer |-> one, friends |-> {}]
      BY <2>2, <3>3 DEF e
    <3>7. \A a \in Account : file[a].peer = one
      <4>1. [peer |-> one, friends |-> {}].peer = one
        OBVIOUS
      <4>2. QED
        BY <3>6, <4>1, Zenon
    <3>8. QED
      BY <3>5, <3>7
  <2>3. QED
    BY <1>1, <2>1, <2>2 DEF Init
<1>6. QED
  BY <1>2, <1>3, <1>4, <1>5 DEF SafeInv, PeersInv

\* Every step keeps SafeInv.
LEMMA SafeStep == TypeOK /\ SafeInv /\ [Next]_vars => SafeInv'
<1>1. SUFFICES ASSUME TypeOK, SafeInv, [Next]_vars PROVE SafeInv'
  OBVIOUS
<1>2. CASE UNCHANGED vars
  BY <1>1, <1>2 DEF vars, server, history, SafeInv, PublishedInv, ItemsInv, PeersInv, PassesInv
<1>3. CASE Next
  <2>1. PICK a \in Account : DrainStep(a) \/ UserStep(a) \/ Fault(a)
    BY <1>3 DEF Next
  <2>2. CASE DrainStep(a)
    BY <1>1, <2>2, ListSafe, FetchSafe, SaveAcceptSafe, MarkSafe, LoadSafe, StoreSafe, AckSafe
       DEF DrainStep
  <2>3. CASE UserStep(a)
    BY <1>1, <2>3, AddSafe, InviteSafe, DeclineSafe, RemoveSafe, AcceptSafe, RotateSafe, RevokeSafe,
       FriendSafe DEF UserStep
  <2>4. CASE Fault(a)
    BY <1>1, <2>4, SkipSafe, PassFailsSafe, ForgerySafe, UnaskedSafe DEF Fault
  <2>5. QED
    BY <2>1, <2>2, <2>3, <2>4
<1>4. QED
  BY <1>1, <1>2, <1>3

\* SafeInv always holds.
LEMMA SafeAlways == Spec => []SafeInv
  BY TypeCorrect, SafeInit, SafeStep, PTL DEF Spec

\* No update gives a contact somebody else's key, and no contact's keys are emptied but
\* by a revocation, whatever is forged, unasked for, delivered again or applied to a list
\* that has changed.
THEOREM GenuineKeys == Spec => []ContactKeysAreGenuine
<1>1. ASSUME SafeInv PROVE ContactKeysAreGenuine
  <2>1. SUFFICES ASSUME NEW a \in Account, NEW i \in DOMAIN file[a].peer
        PROVE  LET c == file[a].peer[i] IN
               /\ c.key = Stranger => c.previous = <<>>
               /\ c.key = 0 => key[Other(a)] = 0
               /\ \A n \in DOMAIN c.previous : c.previous[n] # Stranger
    BY DEF ContactKeysAreGenuine
  <2>2. ContactFits(file[a].peer[i], key[Other(a)])
    BY <1>1 DEF SafeInv, PeersInv, PeerFits
  <2>3. QED
    BY <2>2, KeyFacts DEF ContactFits
<1>2. QED
  BY <1>1, SafeAlways, PTL

\* An update that is delivered again is not applied again: a contact's keys go forward.
THEOREM KeysGoForward == Spec => []AppliedOnce
<1>1. SafeInv => AppliedOnce
  BY DEF SafeInv, PeersInv, PeerFits, ContactFits, AppliedOnce
<1>2. QED
  BY <1>1, SafeAlways, PTL

-----------------------------------------------------------------------------
(* Who is connected: an account's list has no connected entry before one of *)
(* the two accepted, or an accept that nobody asked for was saved.          *)

Met(a)      == shook[a] = TRUE \/ "unasked" \in upset[a]
Plain(peer) == \A i \in DOMAIN peer : peer[i].connection # "connected"
Quiet(a)    == Plain(file[a].peer) /\ Plain(drain[a].copy.peer) /\ drain[a].pc # "mark"
MetInv      == \A a \in Account : Met(a) \/ Quiet(a)

\* What is on record stays so.
LEMMA MetStays ==
    ASSUME TypeOK, Next
    PROVE  \A x \in Account : Met(x) => Met(x)'
<1>1. shook \in [Account -> BOOLEAN] /\ upset \in [Account -> SUBSET Why]
  BY TypeParts DEF HistoryOK
<1>2. PICK a \in Account : DrainStep(a) \/ UserStep(a) \/ Fault(a)
  BY DEF Next
<1>3. \/ upset' = upset
      \/ \E b \in Account : \E why : upset' = [upset EXCEPT ![b] = @ \cup why]
  <2>1. CASE DrainStep(a)
    <3>1. SaveAccept(a) \/ upset' = upset
      BY <2>1 DEF DrainStep, List, Fetch, MarkConnected, LoadContacts, StoreContacts, Ack, history
    <3>2. SaveAccept(a) => \/ upset' = upset
                           \/ \E one, two : upset' = [upset EXCEPT ![a] = @ \cup one \cup two]
      BY DEF SaveAccept
    <3>3. \A one, two : upset[a] \cup one \cup two = upset[a] \cup (one \cup two)
      OBVIOUS
    <3>4. QED
      BY <3>1, <3>2, <3>3
  <2>2. CASE UserStep(a)
    <3>1. CASE AddFromDirectory(a)
      BY <3>1 DEF AddFromDirectory
    <3>2. ASSUME NEW acked \in BOOLEAN, NEW form \in Form, AcceptContactRequest(a, acked, form)
          PROVE  \/ upset' = upset
                 \/ \E why : upset' = [upset EXCEPT ![a] = @ \cup why]
      <4>1. \/ upset' = upset
            \/ \E one, two : upset' = [upset EXCEPT ![a] = @ \cup one \cup two]
        BY <3>2 DEF AcceptContactRequest
      <4>2. \A one, two : upset[a] \cup one \cup two = upset[a] \cup (one \cup two)
        OBVIOUS
      <4>3. QED
        BY <4>1, <4>2
    <3>3. ASSUME NEW failing \in BOOLEAN, Rotate(a, failing) \/ Revoke(a, failing)
          PROVE  \/ upset' = upset
                 \/ upset' = [upset EXCEPT ![Other(a)] = @ \cup {"not sent"}]
      BY <3>3 DEF Rotate, Revoke, Broadcast
    <3>4. Invite(a) \/ Decline(a) \/ RemovePeer(a) \/ (\E f \in Friend : AddFriend(a, f))
            => upset' = upset
      BY DEF Invite, Decline, RemovePeer, AddFriend, history
    <3>5. QED
      BY <2>2, <3>1, <3>2, <3>3, <3>4, OtherAccount DEF UserStep
  <2>3. CASE Fault(a)
    BY <2>3 DEF Fault, Skip, PassFails, Forgery, Unasked, history
  <2>4. QED
    BY <1>2, <2>1, <2>2, <2>3
<1>4. \A x \in Account : upset[x] \subseteq upset'[x]
  BY <1>1, <1>3
<1>5. shook' = shook \/ shook' = [x \in Account |-> TRUE]
  BY <1>2 DEF DrainStep, List, Fetch, SaveAccept, MarkConnected, LoadContacts, StoreContacts, Ack,
     UserStep, AddFromDirectory, Invite, Decline, RemovePeer, AcceptContactRequest, Rotate, Revoke,
     AddFriend, Fault, Skip, PassFails, Forgery, Unasked, history
<1>6. \A x \in Account : shook[x] = TRUE => shook'[x] = TRUE
  BY <1>1, <1>5
<1>7. QED
  BY <1>4, <1>6 DEF Met

\* The account that moves keeps its list plain, or is met; the other's stays as it is.
LEMMA KeepMet ==
    ASSUME TypeOK, MetInv, Next, NEW a \in Account,
           \A x \in Account : x # a => file'[x] = file[x] /\ drain'[x] = drain[x],
           Quiet(a) => Met(a)' \/ Quiet(a)'
    PROVE  MetInv'
<1>1. SUFFICES ASSUME NEW x \in Account PROVE Met(x)' \/ Quiet(x)'
  BY DEF MetInv
<1>2. Met(x) => Met(x)'
  BY MetStays
<1>3. CASE x = a
  BY <1>2, <1>3 DEF MetInv
<1>4. CASE x # a
  BY <1>2, <1>4 DEF MetInv, Quiet
<1>5. QED
  BY <1>3, <1>4

\* A list without connected entries stays one.
LEMMA PlainSaved ==
    ASSUME NEW peer \in Seq(Contact), NEW lock \in Lock \cup {0}, Plain(peer)
    PROVE  Plain(SaveFromLock(peer, lock))
<1> DEFINE new == SaveFromLock(peer, lock)
<1>1. Saved(new, peer, lock)
  BY SavedPeer
<1> HIDE DEF new
<1>2. DOMAIN new = 1..Len(new) /\ DOMAIN peer = 1..Len(peer)
  BY <1>1, LenProperties DEF Saved
<1>3. Entry(lock, "").connection = ""
  BY DEF Entry
<1>4. \A i \in 1..Len(new) : new[i].connection # "connected"
  BY <1>1, <1>2, <1>3 DEF Saved, Plain
<1>5. QED
  BY <1>2, <1>4 DEF Plain, new

LEMMA PlainMarked ==
    ASSUME NEW peer \in Seq(Contact), NEW lock, NEW connection \in {"invited", "unreachable"},
           Plain(peer)
    PROVE  Plain(SetConnection(peer, lock, connection))
<1> DEFINE new == SetConnection(peer, lock, connection)
<1>1. Marked(new, peer, lock, connection)
  BY MarkedPeer
<1> HIDE DEF new
<1>2. DOMAIN new = 1..Len(peer) /\ DOMAIN peer = 1..Len(peer)
  BY <1>1, LenProperties DEF Marked
<1>3. QED
  BY <1>1, <1>2 DEF Marked, Plain, new

LEMMA PlainTail ==
    ASSUME NEW peer \in Seq(Contact), peer # <<>>, Plain(peer)
    PROVE  Plain(Tail(peer))
<1>1. /\ Tail(peer) \in Seq(Contact) /\ Len(Tail(peer)) = Len(peer) - 1
      /\ \A i \in 1..Len(Tail(peer)) : Tail(peer)[i] = peer[i + 1]
  BY HeadTailProperties
<1>2. Len(peer) \in Nat /\ DOMAIN peer = 1..Len(peer) /\ DOMAIN Tail(peer) = 1..Len(Tail(peer))
  BY <1>1, LenProperties
<1>3. \A i \in DOMAIN Tail(peer) : i + 1 \in DOMAIN peer /\ Tail(peer)[i] = peer[i + 1]
  BY <1>1, <1>2
<1>4. QED
  BY <1>3 DEF Plain

LEMMA PlainNoFile == Plain(NoFile.peer)
<1>1. NoFile.peer = <<>> /\ DOMAIN <<>> = {}
  BY DEF NoFile
<1>2. QED
  BY <1>1 DEF Plain

\* The user's steps keep MetInv.
LEMMA UserMet == ASSUME TypeOK, MetInv, Next, NEW a \in Account, UserStep(a) PROVE MetInv'
<1>1. file \in [Account -> File] /\ file[a].peer \in Seq(Contact)
  BY TypeParts DEF FileOK, File
<1> DEFINE Wrote(peer) == file' = [file EXCEPT ![a].peer = peer] /\ drain' = drain
<1>2. ASSUME NEW peer \in Seq(Contact), Wrote(peer), Plain(file[a].peer) => Plain(peer)
      PROVE  MetInv'
  <2>1. file'[a].peer = peer /\ \A x \in Account : x # a => file'[x] = file[x]
    BY <1>1, <1>2, PutPeer
  <2>2. QED
    BY <1>2, <2>1, KeepMet DEF Quiet
<1>3. CASE AddFromDirectory(a)
  <2>1. PICK lock \in published[Other(a)] : Wrote(SaveFromLock(file[a].peer, lock))
    BY <1>3 DEF AddFromDirectory
  <2>2. lock \in Lock \cup {0}
    BY OtherAccount, TypeParts DEF KeysOK
  <2>3. SaveFromLock(file[a].peer, lock) \in Seq(Contact)
    BY <1>1, <2>2, SavedPeer DEF Saved
  <2> HIDE DEF Wrote
  <2>4. QED
    BY <1>1, <1>2, <2>1, <2>2, <2>3, PlainSaved
<1>4. CASE Invite(a)
  <2>1. \E i \in DOMAIN file[a].peer : \E connection \in {"invited", "unreachable"} :
            Wrote(SetConnection(file[a].peer, file[a].peer[i].key, connection))
    BY <1>4 DEF Invite
  <2>2. PICK lock : \E connection \in {"invited", "unreachable"} :
            Wrote(SetConnection(file[a].peer, lock, connection))
    BY <2>1
  <2> HIDE DEF Wrote
  <2>3. PICK connection \in {"invited", "unreachable"} :
            Wrote(SetConnection(file[a].peer, lock, connection))
    BY <2>2
  <2>4. SetConnection(file[a].peer, lock, connection) \in Seq(Contact)
    BY <1>1, MarkedPeer DEF Marked
  <2>5. QED
    BY <1>1, <1>2, <2>3, <2>4, PlainMarked
<1>5. CASE RemovePeer(a)
  <2>1. Wrote(Tail(file[a].peer)) /\ file[a].peer # <<>>
    BY <1>5 DEF RemovePeer
  <2>2. Tail(file[a].peer) \in Seq(Contact)
    BY <1>1, <2>1, HeadTailProperties
  <2> HIDE DEF Wrote
  <2>3. QED
    BY <1>1, <1>2, <2>1, <2>2, PlainTail
<1>6. ASSUME NEW f, AddFriend(a, f) PROVE MetInv'
  <2>1. file' = [file EXCEPT ![a] = [file[a] EXCEPT !.friends = file[a].friends \cup {f}]]
    BY <1>1, <1>6 DEF AddFriend
  <2>2. file'[a].peer = file[a].peer /\ \A x \in Account : x # a => file'[x] = file[x]
    BY <1>1, <2>1 DEF File
  <2>3. drain' = drain
    BY <1>6 DEF AddFriend
  <2>4. QED
    BY <2>2, <2>3, KeepMet DEF Quiet
<1>7. ASSUME NEW acked, NEW form, AcceptContactRequest(a, acked, form) PROVE MetInv'
  BY <1>7 DEF AcceptContactRequest, MetInv, Met
<1>8. ASSUME NEW failing, Decline(a) \/ Rotate(a, failing) \/ Revoke(a, failing) PROVE MetInv'
  <2>1. file' = file /\ drain' = drain
    BY <1>8 DEF Decline, Rotate, Revoke
  <2>2. QED
    BY <2>1, KeepMet DEF Quiet
<1> HIDE DEF Wrote
<1>9. QED
  BY <1>3, <1>4, <1>5, <1>6, <1>7, <1>8 DEF UserStep

\* A pass that moves on without writing, its copy empty.
LEMMA MovedMet ==
    ASSUME TypeOK, MetInv, Next, NEW a \in Account, NEW p, drain' = [drain EXCEPT ![a] = p],
           p.copy = NoFile, p.pc # "mark", file' = file
    PROVE  MetInv'
<1>1. drain'[a] = p /\ \A x \in Account : x # a => drain'[x] = drain[x]
  BY TypeParts DEF DrainOK
<1>2. QED
  BY <1>1, PlainNoFile, KeepMet DEF Quiet

LEMMA FaultMet == ASSUME TypeOK, MetInv, Next, NEW a \in Account, Fault(a) PROVE MetInv'
<1>1. CASE Skip(a)
  <2>1. drain' = [drain EXCEPT ![a] = NextItem(drain[a])] /\ file' = file
    BY <1>1 DEF Skip, Pass
  <2>2. NextItem(drain[a]).copy = NoFile /\ NextItem(drain[a]).pc # "mark"
    BY TypeParts, NextItemType DEF DrainOK
  <2>3. QED
    BY <2>1, <2>2, MovedMet
<1>2. ASSUME NEW deleted, PassFails(a, deleted) PROVE MetInv'
  <2>1. drain' = [drain EXCEPT ![a] = NoPass] /\ file' = file
    BY <1>2 DEF PassFails, Pass
  <2>2. NoPass.copy = NoFile /\ NoPass.pc # "mark"
    BY DEF NoPass
  <2>3. QED
    BY <2>1, <2>2, MovedMet
<1>3. ASSUME NEW kind, Forgery(a, kind) \/ Unasked(a) PROVE MetInv'
  <2>1. file' = file /\ drain' = drain
    BY <1>3 DEF Forgery, Unasked
  <2>2. QED
    BY <2>1, KeepMet DEF Quiet
<1>4. QED
  BY <1>1, <1>2, <1>3 DEF Fault

\* Saving an accept: one of the two accepted, or it is on record that nobody had asked.
LEMMA SaveAcceptMet ==
    ASSUME TypeOK, SafeInv, MetInv, Next, NEW a \in Account, SaveAccept(a)
    PROVE  MetInv'
<1>1. drain[a].pc = "save" /\ shook' = shook
  BY DEF SaveAccept
<1>2. CASE Current(a).form = "odd"
  <2>1. drain' = [drain EXCEPT ![a] = NoPass] /\ file' = file
    BY <1>2 DEF SaveAccept, Pass
  <2>2. NoPass.copy = NoFile /\ NoPass.pc # "mark"
    BY DEF NoPass
  <2>3. QED
    BY <2>1, <2>2, MovedMet
<1>3. CASE Current(a).form # "odd"
  <2>1. PassFits(drain[a], inbox[a]) /\ Current(a) \in drain[a].todo /\ Current(a) = First(drain[a].todo)
    BY <1>1, CurrentItem DEF SafeInv, PassesInv, Current
  <2>2. Accept(Current(a)) \/ Unsought(Current(a))
    BY <1>1, <2>1 DEF PassFits
  <2>3. ASSUME Accept(Current(a)) PROVE Met(a)'
    BY <1>1, <2>1, <2>3 DEF SafeInv, ItemsInv, ItemFits, PassFits, Met
  <2>4. ASSUME Unsought(Current(a)) PROVE Met(a)'
    <3>1. PICK two : upset' = [upset EXCEPT ![a] = @ \cup two \cup {"unasked"}]
      BY <1>3, <2>4 DEF SaveAccept, Unsought
    <3>2. upset \in [Account -> SUBSET Why]
      BY TypeParts DEF HistoryOK
    <3>3. QED
      BY <3>1, <3>2 DEF Met
  <2>5. Met(a)'
    BY <2>2, <2>3, <2>4
  <2>6. /\ file' = [file EXCEPT ![a].peer = SaveFromLock(file[a].peer, Current(a).lock)]
        /\ drain' = [drain EXCEPT ![a].pc = "mark"]
    BY <1>3 DEF SaveAccept, Goto
  <2>7. \A x \in Account : x # a => file'[x] = file[x] /\ drain'[x] = drain[x]
    BY <2>6, TypeParts DEF FileOK, DrainOK
  <2>8. QED
    BY <2>5, <2>7, KeepMet
<1>4. QED
  BY <1>2, <1>3

\* The steps of a pass keep MetInv.
LEMMA DrainMet == ASSUME TypeOK, SafeInv, MetInv, Next, NEW a \in Account, DrainStep(a) PROVE MetInv'
<1>1. drain \in [Account -> PassType] /\ file \in [Account -> File] /\ \A x \in Account : PassShape(drain[x])
  BY TypeParts DEF DrainOK, FileOK
<1>2. ASSUME NEW pc, Goto(a, pc), pc # "mark", file' = file PROVE MetInv'
  <2>1. /\ drain'[a].copy = drain[a].copy /\ drain'[a].pc = pc
        /\ \A x \in Account : x # a => drain'[x] = drain[x]
    BY <1>1, <1>2 DEF Goto, PassType
  <2>2. QED
    BY <1>2, <2>1, KeepMet DEF Quiet
<1>3. CASE List(a)
  <2> DEFINE items == {item \in inbox[a] : item.kind # "contact_request"}
             p == [NoPass EXCEPT !.pc = "next", !.todo = items]
  <2>1. drain' = [drain EXCEPT ![a] = p] /\ file' = file
    BY <1>3 DEF List, Pass
  <2> HIDE DEF items
  <2>2. p.copy = NoFile /\ p.pc = "next"
    BY DEF NoPass
  <2> HIDE DEF p
  <2>3. QED
    BY <2>1, <2>2, MovedMet
<1>4. CASE Fetch(a)
  <2>1. PICK pc \in {"load", "ack", "save"} : Goto(a, pc)
    BY <1>4 DEF Fetch
  <2>2. file' = file
    BY <1>4 DEF Fetch
  <2>3. QED
    BY <1>2, <2>1, <2>2
<1>5. CASE MarkConnected(a)
  <2>1. drain[a].pc = "mark"
    BY <1>5 DEF MarkConnected
  <2>2. \A x \in Account : x # a => file'[x] = file[x] /\ drain'[x] = drain[x]
    BY <1>1, <1>5 DEF MarkConnected, Goto
  <2>3. QED
    BY <2>1, <2>2, KeepMet DEF Quiet
<1>6. CASE LoadContacts(a)
  <2>1. file' = file
    BY <1>6 DEF LoadContacts
  <2>2. CASE Loaded(a)
    <3> DEFINE peer == file[a].peer
    <3>1. PICK copy : /\ copy = drain'[a].copy
                      /\ drain' = [drain EXCEPT ![a] = [pc |-> "store", todo |-> drain[a].todo, copy |-> copy]]
                      /\ copy \in File
                      /\ Len(copy.peer) = Len(peer)
                      /\ copy.peer[1] = Applied(Current(a), peer[1])
                      /\ \A i \in 2..Len(peer) : copy.peer[i] = peer[i]
      BY <2>2 DEF Loaded
    <3>2. peer # <<>> /\ peer \in Seq(Contact) /\ copy.peer \in Seq(Contact)
      BY <1>1, <2>2, <3>1 DEF Loaded, File
    <3>3. /\ Len(peer) \in Nat \ {0}
          /\ DOMAIN peer = 1..Len(peer)
          /\ DOMAIN copy.peer = 1..Len(peer)
          /\ peer[1] \in Contact
      BY <3>1, <3>2, EmptySeq, LenProperties
    <3>4. copy.peer[1].connection = peer[1].connection
      <4>1. Applied(Current(a), peer[1]).connection = peer[1].connection
        BY <3>3 DEF Applied, Contact
      <4>2. QED
        BY <3>1, <4>1
    <3>5. \A i \in 1..Len(peer) : i = 1 \/ i \in 2..Len(peer)
      BY <3>3
    <3>6. Plain(peer) => Plain(copy.peer)
      BY <3>1, <3>3, <3>4, <3>5 DEF Plain
    <3>7. /\ drain'[a].pc = "store" /\ drain'[a].copy = copy
          /\ \A x \in Account : x # a => drain'[x] = drain[x]
      BY <1>1, <3>1
    <3> HIDE DEF peer
    <3>8. Quiet(a) => Quiet(a)'
      BY <2>1, <3>6, <3>7 DEF Quiet, peer
    <3>9. QED
      BY <2>1, <3>7, <3>8, KeepMet
  <2>3. CASE Goto(a, "ack")
    BY <1>2, <2>1, <2>3
  <2>4. QED
    BY <1>6, <2>2, <2>3, LoadSteps
<1>7. CASE StoreContacts(a)
  <2> DEFINE p == [pc |-> "ack", todo |-> drain[a].todo, copy |-> NoFile]
  <2>1. file' = [file EXCEPT ![a] = drain[a].copy] /\ drain' = [drain EXCEPT ![a] = p]
    BY <1>7, StoreOK DEF StoreContacts
  <2>2. p.copy = NoFile /\ p.pc = "ack"
    OBVIOUS
  <2> HIDE DEF p
  <2>3. /\ file'[a] = drain[a].copy /\ drain'[a] = p
        /\ \A x \in Account : x # a => file'[x] = file[x] /\ drain'[x] = drain[x]
    BY <1>1, <2>1
  <2>4. QED
    BY <2>2, <2>3, PlainNoFile, KeepMet DEF Quiet
<1>8. CASE Ack(a)
  <2>1. drain' = [drain EXCEPT ![a] = NextItem(drain[a])] /\ file' = file
    BY <1>8 DEF Ack, Pass
  <2>2. NextItem(drain[a]).copy = NoFile /\ NextItem(drain[a]).pc # "mark"
    BY <1>1, NextItemType
  <2>3. QED
    BY <2>1, <2>2, MovedMet
<1>9. QED
  BY <1>3, <1>4, <1>5, <1>6, <1>7, <1>8, SaveAcceptMet DEF DrainStep

\* The first state keeps it: a connected contact is one that was agreed on.
LEMMA MetInit == Init => MetInv
<1>1. SUFFICES ASSUME Init PROVE MetInv
  OBVIOUS
<1>2. CASE \A a \in Account : file[a] = NoFile
  <2>1. \A a \in Account : drain[a] = NoPass
    BY <1>1 DEF Init
  <2>2. NoPass.pc = "idle" /\ NoPass.copy = NoFile
    BY DEF NoPass
  <2>3. QED
    BY <1>2, <2>1, <2>2, PlainNoFile DEF MetInv, Quiet
<1>3. CASE \A a \in Account : shook[a] = TRUE
  BY <1>3 DEF MetInv, Met
<1>4. QED
  BY <1>1, <1>2, <1>3 DEF Init

\* Every step keeps MetInv.
LEMMA MetStep == TypeOK /\ SafeInv /\ MetInv /\ [Next]_vars => MetInv'
<1>1. SUFFICES ASSUME TypeOK, SafeInv, MetInv, [Next]_vars PROVE MetInv'
  OBVIOUS
<1>2. CASE UNCHANGED vars
  BY <1>1, <1>2 DEF vars, history, MetInv, Met, Quiet
<1>3. CASE Next
  <2>1. PICK a \in Account : DrainStep(a) \/ UserStep(a) \/ Fault(a)
    BY <1>3 DEF Next
  <2>2. QED
    BY <1>1, <1>3, <2>1, DrainMet, UserMet, FaultMet
<1>4. QED
  BY <1>1, <1>2, <1>3

\* A contact is connected only if one of the two accepted, or an accept that nobody asked
\* for was saved.
THEOREM MutualConnection == Spec => []ConnectedIsMutual
<1>1. Spec => []MetInv
  BY TypeCorrect, SafeAlways, MetInit, MetStep, PTL DEF Spec
<1>2. MetInv => ConnectedIsMutual
  BY DEF MetInv, Met, Quiet, Plain, ConnectedIsMutual
<1>3. QED
  BY <1>1, <1>2, PTL

-----------------------------------------------------------------------------
(* Why a contact gets the last key: as long as nothing upset the account,   *)
(* every key it holds, or is about to get, is current or is taken back by   *)
(* an update that is still in the inbox, and after whatever brought it.     *)

\* Key m is k, or an update with an id over n takes it back.
Followed(items, m, n, k) == m = k \/ \E u \in items : Update(u) /\ u.revoked = m /\ n < u.id
Pending(items, m, k)     == m = k \/ \E u \in items : Update(u) /\ u.revoked = m

\* What came since the pass listed the inbox is after all that it listed.
InOrder(items, p) ==
    \A i \in items : i.kind # "contact_request" => i \in p.todo \/ \A t \in p.todo : t.id < i.id

Chained(items, k) ==
    \A i \in items : Update(i) \/ Accept(i) => Followed(items, i.lock, i.id, k)

\* The item that is about to be acknowledged no longer counts.
Left(items, p) == IF p.pc = "ack" THEN items \ {First(p.todo)} ELSE items

Known(peer, items, p, k) == peer # <<>> => Pending(Left(items, p), peer[1].key, k)

CopyKnown(items, p, k) ==
    p.pc = "store" => /\ p.copy.peer # <<>>
                      /\ Followed(items, p.copy.peer[1].key, First(p.todo).id, k)

InStep(peer, items, p, k) ==
    /\ Len(peer) <= 1 /\ Len(p.copy.peer) <= 1
    /\ InOrder(items, p)
    /\ Chained(items, k)
    /\ Known(peer, items, p, k)
    /\ CopyKnown(items, p, k)

StepAt(a) == upset[a] = {} => InStep(file[a].peer, inbox[a], drain[a], key[Other(a)])
StepInv   == \A a \in Account : StepAt(a)

\* What the types and SafeInv say about the items of an account and its pass.
Typed(items, p) ==
    /\ items \in SUBSET PendingItem
    /\ \A x, y \in items : x.id = y.id => x = y
    /\ p \in PassType /\ PassShape(p) /\ PassFits(p, items)

LEMMA TypedAccount ==
    ASSUME TypeOK, SafeInv, NEW a \in Account
    PROVE  Typed(inbox[a], drain[a])
  BY TypeParts DEF InboxOK, IdsFit, DrainOK, SafeInv, PassesInv, Typed

\* The item in hand is the first of all but the requests.
LEMMA FirstOfAll ==
    ASSUME NEW items, NEW p, Typed(items, p), InOrder(items, p), p.pc # "idle"
    PROVE  /\ First(p.todo) \in p.todo /\ First(p.todo) \in items
           /\ First(p.todo).id \in Nat
           /\ \A i \in items : i.id \in Nat
           /\ \A i \in items : i.kind # "contact_request" => First(p.todo).id <= i.id
<1>1. p.todo \in SUBSET PendingItem /\ p.todo # {} /\ p.todo \subseteq items
  BY DEF Typed, PassType, PassShape, PassFits
<1>2. First(p.todo) \in p.todo /\ \A i \in p.todo : First(p.todo).id <= i.id
  BY <1>1, FirstItem
<1>3. \A i \in items : i.id \in Nat
  BY DEF Typed, PendingItem
<1>4. \A i \in items : i.kind # "contact_request" => First(p.todo).id <= i.id
  BY <1>1, <1>2, <1>3 DEF InOrder
<1>5. QED
  BY <1>1, <1>2, <1>3, <1>4

\* Items arrive after all others: what they take back is what was current.
LEMMA StepArrive ==
    ASSUME NEW peer, NEW items, NEW p, NEW k, InStep(peer, items, p, k), Typed(items, p),
           NEW new \in SUBSET PendingItem, NEW n \in Nat,
           \A i \in items : i.id <= n, \A u \in new : n < u.id,
           NEW l, \A u \in new : Update(u) \/ Accept(u) => u.lock = l,
           l = k \/ \E u \in new : Update(u) /\ u.revoked = k
    PROVE  InStep(peer, items \cup new, p, l)
<1> DEFINE all == items \cup new
<1>1. /\ \A i \in all : i.id \in Nat
      /\ \A i \in items, u \in new : i.id < u.id
  BY DEF Typed, PendingItem
<1>2. p.todo \subseteq items
  BY DEF Typed, PassFits
<1>3. \A m, i : i \in items /\ Followed(items, m, i.id, k) => Followed(all, m, i.id, l)
  BY <1>1 DEF Followed
<1>4. InOrder(all, p)
  BY <1>1, <1>2 DEF InStep, InOrder
<1>5. Chained(all, l)
  <2>1. SUFFICES ASSUME NEW i \in all, Update(i) \/ Accept(i) PROVE Followed(all, i.lock, i.id, l)
    BY DEF Chained
  <2>2. CASE i \in items
    BY <1>3, <2>1, <2>2 DEF InStep, Chained
  <2>3. CASE i \in new
    BY <2>1, <2>3 DEF Followed
  <2>4. QED
    BY <2>2, <2>3
<1>6. p.pc # "idle" => First(p.todo) \in items
  BY FirstOfAll DEF InStep
<1>7. ASSUME peer # <<>> PROVE Pending(Left(all, p), peer[1].key, l)
  <2>1. Pending(Left(items, p), peer[1].key, k)
    BY <1>7 DEF InStep, Known
  <2>2. Left(items, p) \subseteq Left(all, p)
    BY DEF Left
  <2>3. \A u \in new : u \in Left(all, p)
    <3>1. \A u \in new : u \notin items
      BY <1>1
    <3>2. QED
      BY <1>6, <3>1 DEF Left
  <2>4. QED
    BY <2>1, <2>2, <2>3 DEF Pending
<1>8. CopyKnown(all, p, l)
  BY <1>3, <1>6 DEF InStep, CopyKnown
<1>9. QED
  BY <1>4, <1>5, <1>7, <1>8 DEF InStep, Known

\* A request is taken out.
LEMMA StepRequest ==
    ASSUME NEW peer, NEW items, NEW p, NEW k, InStep(peer, items, p, k),
           NEW less, less \subseteq items, \A i \in items : i \in less \/ i.kind = "contact_request"
    PROVE  InStep(peer, less, p, k)
<1>1. \A u \in items : Update(u) => u \in less
  BY DEF Update
<1>2. \A m, n : Followed(items, m, n, k) => Followed(less, m, n, k)
  BY <1>1 DEF Followed
<1>3. \A m : Pending(Left(items, p), m, k) => Pending(Left(less, p), m, k)
  BY <1>1 DEF Pending, Left
<1>4. InOrder(less, p) /\ Chained(less, k)
  BY <1>2 DEF InStep, InOrder, Chained
<1>5. Known(peer, less, p, k) /\ CopyKnown(less, p, k)
  BY <1>2, <1>3 DEF InStep, Known, CopyKnown
<1>6. QED
  BY <1>4, <1>5 DEF InStep

\* The list gets the current key, or keeps the one it has.
LEMMA StepPeer ==
    ASSUME NEW peer, NEW items, NEW p, NEW k, InStep(peer, items, p, k),
           NEW new, Len(new) <= 1,
           new # <<>> => (new[1].key = k \/ (peer # <<>> /\ new[1].key = peer[1].key))
    PROVE  InStep(new, items, p, k)
<1>1. Known(new, items, p, k)
  BY DEF InStep, Known, Pending
<1>2. QED
  BY <1>1 DEF InStep

\* The pass ends with nothing taken out.
LEMMA StepEnd ==
    ASSUME NEW peer, NEW items, NEW p, NEW k, InStep(peer, items, p, k)
    PROVE  InStep(peer, items, NoPass, k)
<1>1. NoPass.todo = {} /\ NoPass.pc = "idle" /\ NoPass.copy.peer = <<>> /\ Len(<<>>) = 0
  BY DEF NoPass, NoFile
<1>2. InOrder(items, NoPass) /\ CopyKnown(items, NoPass, k)
  BY <1>1 DEF InOrder, CopyKnown
<1>3. Left(items, p) \subseteq items /\ Left(items, NoPass) = items
  BY <1>1 DEF Left
<1>4. Known(peer, items, NoPass, k)
  BY <1>3 DEF InStep, Known, Pending
<1>5. QED
  BY <1>1, <1>2, <1>4 DEF InStep

\* The item in hand is acknowledged; nothing before it is left.
LEMMA StepTaken ==
    ASSUME NEW peer, NEW items, NEW p, NEW k, InStep(peer, items, p, k), Typed(items, p),
           p.pc = "ack", NEW q, q.pc \in {"idle", "next"}, q.copy = NoFile,
           q.todo = {} \/ q.todo = Rest(p.todo)
    PROVE  InStep(peer, Without(items, First(p.todo).id), q, k)
<1> DEFINE c == First(p.todo)
           less == Without(items, c.id)
<1>1. /\ c \in p.todo /\ c \in items /\ c.id \in Nat
      /\ \A i \in items : i.id \in Nat
      /\ \A i \in items : i.kind # "contact_request" => c.id <= i.id
  BY FirstOfAll DEF InStep
<1> HIDE DEF c
<1>2. less = items \ {c}
  BY <1>1 DEF Without, Typed
<1> HIDE DEF less
<1>3. InOrder(less, q)
  <2>1. SUFFICES ASSUME NEW i \in less, i.kind # "contact_request", q.todo = Rest(p.todo)
        PROVE i \in q.todo \/ \A t \in q.todo : t.id < i.id
    BY DEF InOrder
  <2>2. i \in items /\ i # c
    BY <1>2
  <2>3. i \in p.todo \/ \A t \in p.todo : t.id < i.id
    BY <2>1, <2>2 DEF InStep, InOrder
  <2>4. q.todo = p.todo \ {c}
    BY <2>1 DEF Rest, c
  <2>5. QED
    BY <2>2, <2>3, <2>4
<1>4. Chained(less, k)
  <2>1. SUFFICES ASSUME NEW i \in less, Update(i) \/ Accept(i) PROVE Followed(less, i.lock, i.id, k)
    BY DEF Chained
  <2>2. i \in items /\ i.kind # "contact_request" /\ i.id \in Nat
    BY <1>1, <1>2, <2>1 DEF Update, Accept
  <2>3. Followed(items, i.lock, i.id, k)
    BY <2>1, <2>2 DEF InStep, Chained
  <2>4. \A u \in items : i.id < u.id => u \in less
    BY <1>1, <1>2, <2>2
  <2>5. QED
    BY <2>3, <2>4 DEF Followed
<1>5. Left(items, p) = less /\ Left(less, q) = less
  BY <1>2 DEF Left, c
<1>6. Known(peer, less, q, k)
  BY <1>5 DEF InStep, Known
<1>7. q.copy.peer = <<>> /\ Len(<<>>) = 0
  BY DEF NoFile
<1>8. CopyKnown(less, q, k)
  BY DEF CopyKnown
<1>9. InStep(peer, less, q, k)
  BY <1>3, <1>4, <1>6, <1>7, <1>8 DEF InStep
<1>10. QED
  BY <1>9 DEF less, c

\* An account that nothing happens to.
LEMMA StepSame ==
    ASSUME StepInv, NEW x \in Account,
           file'[x].peer = file[x].peer, inbox'[x] = inbox[x], drain'[x] = drain[x],
           key'[Other(x)] = key[Other(x)], upset[x] \subseteq upset'[x]
    PROVE  StepAt(x)'
  BY DEF StepInv, StepAt

\* Items arrive in an account's inbox.
LEMMA StepPosted ==
    ASSUME TypeOK, SafeInv, StepInv, NEW x \in Account, NEW new \in SUBSET PendingItem,
           file'[x].peer = file[x].peer, inbox'[x] = inbox[x] \cup new, drain'[x] = drain[x],
           upset[x] \subseteq upset'[x], \A u \in new : posted < u.id,
           \A u \in new : Update(u) \/ Accept(u) => u.lock = key'[Other(x)],
           \/ key'[Other(x)] = key[Other(x)]
           \/ upset'[x] # {}
           \/ \E u \in new : Update(u) /\ u.revoked = key[Other(x)]
    PROVE  StepAt(x)'
<1>1. SUFFICES ASSUME upset'[x] = {}
      PROVE InStep(file'[x].peer, inbox'[x], drain'[x], key'[Other(x)])
  BY DEF StepAt
<1>2. InStep(file[x].peer, inbox[x], drain[x], key[Other(x)])
  BY <1>1 DEF StepInv, StepAt
<1>3. PICK l : l = key'[Other(x)]
  OBVIOUS
<1>4. Typed(inbox[x], drain[x]) /\ posted \in Nat /\ \A i \in inbox[x] : i.id <= posted
  BY TypedAccount, TypeParts DEF InboxOK, IdsFit
<1>5. /\ \A u \in new : Update(u) \/ Accept(u) => u.lock = l
      /\ l = key[Other(x)] \/ \E u \in new : Update(u) /\ u.revoked = key[Other(x)]
  BY <1>1, <1>3
<1>6. InStep(file[x].peer, inbox[x] \cup new, drain[x], l)
  BY <1>2, <1>4, <1>5, StepArrive
<1>7. QED
  BY <1>3, <1>6

\* An account whose list is written, and which may lose a request.
LEMMA StepListed ==
    ASSUME TypeOK, SafeInv, StepInv, NEW a \in Account,
           NEW peer, file'[a].peer = peer, drain'[a] = drain[a],
           inbox'[a] \subseteq inbox[a],
           \A i \in inbox[a] : i \in inbox'[a] \/ i.kind = "contact_request",
           key'[Other(a)] = key[Other(a)], upset[a] \subseteq upset'[a],
           upset'[a] = {} =>
              /\ Len(peer) <= 1
              /\ peer # <<>> => \/ peer[1].key = key[Other(a)]
                                \/ file[a].peer # <<>> /\ peer[1].key = file[a].peer[1].key
    PROVE  StepAt(a)'
<1>1. SUFFICES ASSUME upset'[a] = {}
      PROVE InStep(file'[a].peer, inbox'[a], drain'[a], key'[Other(a)])
  BY DEF StepAt
<1>2. InStep(file[a].peer, inbox[a], drain[a], key[Other(a)])
  BY <1>1 DEF StepInv, StepAt
<1>3. PICK less : less = inbox'[a]
  OBVIOUS
<1>4. less \subseteq inbox[a] /\ \A i \in inbox[a] : i \in less \/ i.kind = "contact_request"
  BY <1>3
<1>5. InStep(file[a].peer, less, drain[a], key[Other(a)])
  BY <1>2, <1>4, StepRequest
<1>6. InStep(peer, less, drain[a], key[Other(a)])
  BY <1>1, <1>5, StepPeer
<1>7. QED
  BY <1>3, <1>6

\* A list of at most one entry, before and after a lock is saved.
LEMMA SavedFirst ==
    ASSUME NEW peer \in Seq(Contact), NEW lock \in Key \cup {Stranger}, NEW new, Saved(new, peer, lock),
           Len(new) <= 1
    PROVE  /\ Len(peer) <= 1
           /\ new # <<>> => \/ new[1].key = lock
                            \/ peer # <<>> /\ new[1].key = peer[1].key
<1>1. Len(peer) \in Nat /\ (Len(new) = Len(peer) \/ Len(new) = Len(peer) + 1) /\ new \in Seq(Contact)
  BY LenProperties DEF Saved
<1>2. Len(peer) <= 1 /\ Len(new) \in Nat
  BY <1>1
<1>3. ASSUME new # <<>>
      PROVE  \/ new[1].key = lock
             \/ peer # <<>> /\ new[1].key = peer[1].key
  <2>1. 1 \in 1..Len(new)
    BY <1>1, <1>2, <1>3, EmptySeq
  <2>2. CASE 1 \in 1..Len(peer)
    <3>1. new[1].key = peer[1].key
      BY <2>2 DEF Saved
    <3>2. peer # <<>>
      <4>1. Len(peer) # 0
        BY <1>1, <2>2
      <4>2. QED
        BY <4>1, EmptySeq
    <3>3. QED
      BY <3>1, <3>2
  <2>3. CASE new[1] = Entry(lock, "")
    <3>1. Entry(lock, "").key = lock
      BY DEF Entry
    <3>2. QED
      BY <2>3, <3>1
  <2>4. QED
    BY <2>1, <2>2, <2>3 DEF Saved
<1>4. QED
  BY <1>2, <1>3

\* Marking keeps the first entry's key.
LEMMA MarkedFirst ==
    ASSUME NEW peer \in Seq(Contact), NEW lock, NEW connection, NEW new,
           Marked(new, peer, lock, connection)
    PROVE  /\ Len(new) = Len(peer)
           /\ new # <<>> => peer # <<>> /\ new[1].key = peer[1].key
<1>1. new \in Seq(Contact) /\ Len(new) = Len(peer) /\ Len(peer) \in Nat
  BY LenProperties DEF Marked
<1>2. ASSUME new # <<>> PROVE peer # <<>> /\ new[1].key = peer[1].key
  <2>1. Len(peer) \in Nat \ {0}
    BY <1>1, <1>2, EmptySeq
  <2>2. peer # <<>>
    BY <2>1, EmptySeq
  <2>3. QED
    BY <2>1, <2>2 DEF Marked
<1>3. QED
  BY <1>1, <1>2

\* Nothing upset the account: its list has one entry at most.
LEMMA NotDoubled == \A peer : Doubled(peer) = {} => ~(Len(peer) > 1)
  BY DEF Doubled

\* The list of an account that was not upset.
LEMMA AtMostOne ==
    ASSUME TypeOK, NEW peer \in Seq(Contact), Doubled(peer) = {}
    PROVE  Len(peer) <= 1
<1>1. Len(peer) \in Nat
  BY LenProperties
<1>2. QED
  BY <1>1, NotDoubled

LEMMA AddInStep == ASSUME TypeOK, SafeInv, StepInv, NEW a \in Account, AddFromDirectory(a) PROVE StepInv'
<1>1. PICK lock \in published[Other(a)] :
          /\ file' = [file EXCEPT ![a].peer = SaveFromLock(file[a].peer, lock)]
          /\ upset' = [upset EXCEPT ![a] = @ \cup Doubled(SaveFromLock(file[a].peer, lock))]
  BY DEF AddFromDirectory
<1>2. UNCHANGED <<key, published, inbox, drain, shook>>
  BY DEF AddFromDirectory, server
<1>3. lock \in Key /\ lock = key[Other(a)]
  <2>1. Other(a) \in Account /\ key[Other(a)] \in 0..MaxKey
    BY OtherAccount, TypeParts DEF KeysOK
  <2>2. lock = key[Other(a)] /\ lock # 0
    BY <1>1, <2>1 DEF SafeInv, PublishedInv
  <2>3. QED
    BY <2>1, <2>2, PendingInboxAssumption DEF Key
<1>4. file \in [Account -> File] /\ file[a].peer \in Seq(Contact) /\ upset \in [Account -> SUBSET Why]
  BY TypeParts DEF FileOK, File, HistoryOK
<1> DEFINE peer == SaveFromLock(file[a].peer, lock)
<1>5. peer \in Seq(Contact) /\ Saved(peer, file[a].peer, lock)
  <2>1. Saved(peer, file[a].peer, lock)
    BY <1>3, <1>4, SavedPeer, KeyFacts
  <2>2. QED
    BY <2>1 DEF Saved
<1> HIDE DEF peer
<1>6. file'[a].peer = peer /\ \A x \in Account : x # a => file'[x] = file[x]
  BY <1>1, <1>4, <1>5, PutPeer DEF peer
<1>7. upset'[a] = upset[a] \cup Doubled(peer) /\ \A x \in Account : x # a => upset'[x] = upset[x]
  BY <1>1, <1>4 DEF peer
<1>8. upset'[a] = {} =>
        /\ Len(peer) <= 1
        /\ peer # <<>> => \/ peer[1].key = key[Other(a)]
                          \/ file[a].peer # <<>> /\ peer[1].key = file[a].peer[1].key
  <2>1. SUFFICES ASSUME upset'[a] = {}
        PROVE /\ Len(peer) <= 1
              /\ peer # <<>> => \/ peer[1].key = key[Other(a)]
                                \/ file[a].peer # <<>> /\ peer[1].key = file[a].peer[1].key
    OBVIOUS
  <2>2. Len(peer) <= 1
    BY <1>5, <1>7, <2>1, AtMostOne
  <2>3. QED
    BY <1>3, <1>4, <1>5, <2>2, SavedFirst
<1>9. StepAt(a)'
  BY <1>2, <1>6, <1>7, <1>8, StepListed
<1>10. \A x \in Account : x # a => StepAt(x)'
  BY <1>2, <1>6, <1>7, StepSame
<1>11. QED
  BY <1>9, <1>10 DEF StepInv

LEMMA InviteInStep == ASSUME TypeOK, SafeInv, StepInv, NEW a \in Account, Invite(a) PROVE StepInv'
<1> DEFINE b == Other(a)
           item == Item("contact_request", key[a], 0, "good")
<1>1. \E i \in DOMAIN file[a].peer : \E connection \in {"invited", "unreachable"} :
          /\ file' = [file EXCEPT ![a].peer = SetConnection(file[a].peer, file[a].peer[i].key, connection)]
          /\ Post(b, item) \/ UNCHANGED <<inbox, posted>>
  BY DEF Invite
<1>2. PICK lock : \E connection \in {"invited", "unreachable"} :
          /\ file' = [file EXCEPT ![a].peer = SetConnection(file[a].peer, lock, connection)]
          /\ Post(b, item) \/ UNCHANGED <<inbox, posted>>
  BY <1>1
<1>3. PICK connection \in {"invited", "unreachable"} :
          /\ file' = [file EXCEPT ![a].peer = SetConnection(file[a].peer, lock, connection)]
          /\ Post(b, item) \/ UNCHANGED <<inbox, posted>>
  BY <1>2
<1>4. UNCHANGED <<key, drain, upset>>
  BY DEF Invite, history
<1>5. file \in [Account -> File] /\ file[a].peer \in Seq(Contact) /\ b \in Account /\ b # a
  BY TypeParts, OtherAccount DEF FileOK, File
<1> DEFINE peer == SetConnection(file[a].peer, lock, connection)
<1>6. peer \in Seq(Contact) /\ Marked(peer, file[a].peer, lock, connection)
  <2>1. Marked(peer, file[a].peer, lock, connection)
    BY <1>5, MarkedPeer
  <2>2. QED
    BY <2>1 DEF Marked
<1> HIDE DEF peer
<1>7. file'[a].peer = peer /\ \A x \in Account : x # a => file'[x] = file[x]
  BY <1>3, <1>5, <1>6, PutPeer DEF peer
<1>8. item.kind = "contact_request" /\ item \in PendingItem /\ item.id = posted + 1 /\ posted \in Nat
  <2>1. key[a] \in Lock \cup {0} /\ posted \in Nat
    BY TypeParts, LockFacts DEF KeysOK, InboxOK
  <2>2. item \in PendingItem /\ item.id = posted + 1
    BY <2>1, ItemType
  <2>3. item.kind = "contact_request"
    BY DEF Item
  <2>4. QED
    BY <2>1, <2>2, <2>3
<1> HIDE DEF item, b
<1>9. inbox'[a] = inbox[a] /\ \E new \in SUBSET {item} : inbox'[b] = inbox[b] \cup new
  <2>1. inbox \in [Account -> SUBSET PendingItem]
    BY TypeParts DEF InboxOK
  <2>2. CASE Post(b, item)
    <3>1. inbox'[a] = inbox[a] /\ inbox'[b] = inbox[b] \cup {item}
      BY <1>5, <2>1, <2>2 DEF Post
    <3>2. {item} \in SUBSET {item}
      OBVIOUS
    <3>3. QED
      BY <3>1, <3>2
  <2>3. CASE inbox' = inbox
    <3>1. {} \in SUBSET {item} /\ inbox'[b] = inbox[b] \cup {}
      BY <2>3
    <3>2. QED
      BY <2>3, <3>1
  <2>4. QED
    BY <1>3, <2>2, <2>3
<1>10. StepAt(a)'
  <2>1. upset'[a] = {} => Len(peer) <= 1 /\ Len(file[a].peer) <= 1
    BY <1>4, <1>5, <1>6, MarkedFirst DEF StepInv, StepAt, InStep
  <2>2. peer # <<>> => file[a].peer # <<>> /\ peer[1].key = file[a].peer[1].key
    BY <1>5, <1>6, MarkedFirst
  <2>3. QED
    BY <1>4, <1>7, <1>9, <2>1, <2>2, StepListed
<1>11. StepAt(b)'
  <2>1. PICK new \in SUBSET {item} : inbox'[b] = inbox[b] \cup new
    BY <1>9
  <2>2. new \in SUBSET PendingItem /\ \A u \in new : posted < u.id /\ ~Update(u) /\ ~Accept(u)
    BY <1>8, <2>1 DEF Update, Accept
  <2>3. /\ \A u \in new : posted < u.id
        /\ \A u \in new : Update(u) \/ Accept(u) => u.lock = key'[Other(b)]
        /\ key'[Other(b)] = key[Other(b)]
        /\ drain'[b] = drain[b] /\ upset[b] \subseteq upset'[b] /\ file'[b].peer = file[b].peer
    BY <1>4, <1>5, <1>7, <2>2
  <2>4. QED
    BY <1>5, <2>1, <2>2, <2>3, StepPosted
<1>12. QED
  BY <1>10, <1>11, OtherAccount DEF StepInv, b

LEMMA AcceptInStep ==
    ASSUME TypeOK, SafeInv, StepInv, NEW a \in Account, NEW acked \in BOOLEAN, NEW form \in Form,
           AcceptContactRequest(a, acked, form)
    PROVE  StepInv'
<1> DEFINE b == Other(a)
           item == Item("contact_accept", key[a], 0, form)
<1>1. PICK request \in inbox[a] :
          LET peer == SaveRequester(file[a].peer, request.lock) IN
          /\ request.kind = "contact_request"
          /\ inbox' = [inbox EXCEPT ![a] = IF acked THEN Without(@, request.id) ELSE @,
                                    ![b] = @ \cup {item}]
          /\ file' = IF acked THEN [file EXCEPT ![a].peer = peer] ELSE file
          /\ upset' = IF ~acked THEN upset
                      ELSE [upset EXCEPT ![a] = @ \cup Doubled(peer) \cup
                              (IF request.lock # key[b] THEN {"old request"} ELSE {})]
  BY DEF AcceptContactRequest
<1>2. UNCHANGED <<key, drain>>
  BY DEF AcceptContactRequest
<1>3. b \in Account /\ b # a /\ Other(b) = a
  BY OtherAccount
<1>4. /\ file \in [Account -> File] /\ file[a].peer \in Seq(Contact)
      /\ upset \in [Account -> SUBSET Why] /\ inbox \in [Account -> SUBSET PendingItem]
  BY TypeParts DEF FileOK, File, HistoryOK, InboxOK
<1>5. request.lock \in Key
  BY <1>1 DEF SafeInv, ItemsInv, ItemFits
<1> DEFINE mid == SaveFromLock(file[a].peer, request.lock)
           peer == SetConnection(mid, request.lock, "connected")
<1>6. Saved(mid, file[a].peer, request.lock)
  BY <1>4, <1>5, SavedPeer, KeyFacts
<1>7. mid \in Seq(Contact)
  BY <1>6 DEF Saved
<1> HIDE DEF mid
<1>8. Marked(peer, mid, request.lock, "connected")
  BY <1>7, MarkedPeer
<1>9. peer \in Seq(Contact)
  BY <1>8 DEF Marked
<1>10. peer = SaveRequester(file[a].peer, request.lock)
  BY DEF SaveRequester, mid
<1> HIDE DEF peer
<1>11. item.lock = key[a] /\ item \in PendingItem /\ item.id = posted + 1 /\ posted \in Nat
       /\ item.kind = "contact_accept"
  <2>1. key[a] \in Lock \cup {0} /\ 0 \in Lock \cup {0} /\ posted \in Nat
    BY TypeParts, LockFacts DEF KeysOK, InboxOK
  <2>2. form \in {"good", "odd", "forged"}
    BY PendingInboxAssumption
  <2>3. item \in PendingItem /\ item.id = posted + 1
    BY <2>1, <2>2, ItemType
  <2>4. item.lock = key[a] /\ item.kind = "contact_accept"
    BY DEF Item
  <2>5. QED
    BY <2>1, <2>3, <2>4
<1> HIDE DEF item, b
<1>12. /\ inbox'[a] = inbox[a] \/ inbox'[a] = Without(inbox[a], request.id)
       /\ inbox'[b] = inbox[b] \cup {item}
  BY <1>1, <1>3, <1>4
<1>13. StepAt(b)'
  <2>1. file'[b].peer = file[b].peer /\ upset'[b] = upset[b]
    <3>1. file'[b] = file[b]
      BY <1>1, <1>3, <1>4, <1>9, <1>10, PutPeer
    <3>2. upset'[b] = upset[b]
      BY <1>1, <1>3, <1>4
    <3>3. QED
      BY <3>1, <3>2
  <2>2. {item} \in SUBSET PendingItem /\ \A u \in {item} : posted < u.id /\ ~Update(u)
    BY <1>11 DEF Update
  <2>3. \A u \in {item} : u.lock = key'[Other(b)]
    BY <1>2, <1>3, <1>11
  <2>4. QED
    BY <1>2, <1>3, <1>12, <2>1, <2>2, <2>3, StepPosted
<1>14. inbox'[a] \subseteq inbox[a] /\ \A i \in inbox[a] : i \in inbox'[a] \/ i.kind = "contact_request"
  <2>1. \A x \in inbox[a] : x.id = request.id => x = request
    BY TypeParts DEF InboxOK, IdsFit
  <2>2. QED
    BY <1>1, <1>12, <2>1 DEF Without
<1>15. CASE ~acked
  <2>1. file' = file /\ upset' = upset
    BY <1>1, <1>15
  <2>2. upset'[a] = {} => Len(file[a].peer) <= 1
    BY <2>1 DEF StepInv, StepAt, InStep
  <2>3. StepAt(a)'
    BY <1>2, <1>14, <2>1, <2>2, StepListed
  <2>4. QED
    BY <1>13, <2>3, OtherAccount DEF StepInv, b
<1>16. CASE acked
  <2>1. file'[a].peer = peer
    <3>1. file' = [file EXCEPT ![a].peer = peer]
      BY <1>1, <1>10, <1>16
    <3>2. QED
      BY <1>4, <1>9, <3>1, PutPeer
  <2>2. /\ upset[a] \subseteq upset'[a]
        /\ Doubled(peer) \subseteq upset'[a]
        /\ request.lock # key[b] => "old request" \in upset'[a]
    <3>1. upset' = [upset EXCEPT ![a] = @ \cup Doubled(peer) \cup
                              (IF request.lock # key[b] THEN {"old request"} ELSE {})]
      BY <1>1, <1>10, <1>16
    <3>2. upset'[a] = upset[a] \cup Doubled(peer) \cup
                              (IF request.lock # key[b] THEN {"old request"} ELSE {})
      BY <1>4, <3>1
    <3>3. QED
      BY <3>2
  <2>3. ASSUME upset'[a] = {}
        PROVE  /\ Len(peer) <= 1
               /\ peer # <<>> => \/ peer[1].key = key[Other(a)]
                                 \/ file[a].peer # <<>> /\ peer[1].key = file[a].peer[1].key
    <3>1. Len(peer) <= 1 /\ request.lock = key[Other(a)]
      BY <1>9, <2>2, <2>3, AtMostOne DEF b
    <3>2. Len(mid) <= 1 /\ (peer # <<>> => mid # <<>> /\ peer[1].key = mid[1].key)
      BY <1>7, <1>8, <3>1, MarkedFirst
    <3>3. mid # <<>> => \/ mid[1].key = request.lock
                        \/ file[a].peer # <<>> /\ mid[1].key = file[a].peer[1].key
      BY <1>4, <1>5, <1>6, <3>2, SavedFirst
    <3>4. QED
      BY <3>1, <3>2, <3>3
  <2>4. StepAt(a)'
    BY <1>2, <1>14, <2>1, <2>2, <2>3, StepListed
  <2>5. QED
    BY <1>13, <2>4, OtherAccount DEF StepInv, b
<1>17. QED
  BY <1>15, <1>16

LEMMA DeclineInStep == ASSUME TypeOK, SafeInv, StepInv, NEW a \in Account, Decline(a) PROVE StepInv'
<1>1. PICK request \in inbox[a] : /\ request.kind = "contact_request"
                                  /\ inbox' = [inbox EXCEPT ![a] = Without(@, request.id)]
  BY DEF Decline
<1>2. UNCHANGED <<key, file, drain, upset>>
  BY DEF Decline, history
<1>3. inbox'[a] = Without(inbox[a], request.id) /\ \A x \in Account : x # a => inbox'[x] = inbox[x]
  BY <1>1, TypeParts DEF InboxOK
<1>4. inbox'[a] \subseteq inbox[a] /\ \A i \in inbox[a] : i \in inbox'[a] \/ i.kind = "contact_request"
  <2>1. \A x \in inbox[a] : x.id = request.id => x = request
    BY TypeParts DEF InboxOK, IdsFit
  <2>2. QED
    BY <1>1, <1>3, <2>1 DEF Without
<1>5. upset'[a] = {} => Len(file[a].peer) <= 1
  BY <1>2 DEF StepInv, StepAt, InStep
<1>6. StepAt(a)'
  BY <1>2, <1>4, <1>5, StepListed
<1>7. \A x \in Account : x # a => StepAt(x)'
  BY <1>2, <1>3, StepSame
<1>8. QED
  BY <1>6, <1>7 DEF StepInv

LEMMA RemoveInStep == ASSUME TypeOK, SafeInv, StepInv, NEW a \in Account, RemovePeer(a) PROVE StepInv'
<1> DEFINE peer == Tail(file[a].peer)
<1>1. file' = [file EXCEPT ![a].peer = peer] /\ file[a].peer # <<>>
  BY DEF RemovePeer
<1>2. UNCHANGED <<key, inbox, drain, upset>>
  BY DEF RemovePeer, server, history
<1>3. file \in [Account -> File] /\ file[a].peer \in Seq(Contact)
  BY TypeParts DEF FileOK, File
<1>4. peer \in Seq(Contact) /\ Len(peer) = Len(file[a].peer) - 1 /\ Len(file[a].peer) \in Nat
  BY <1>1, <1>3, HeadTailProperties, LenProperties
<1> HIDE DEF peer
<1>5. file'[a].peer = peer /\ \A x \in Account : x # a => file'[x] = file[x]
  BY <1>1, <1>3, <1>4, PutPeer
<1>6. ASSUME upset'[a] = {} PROVE Len(peer) <= 1 /\ peer = <<>>
  <2>1. Len(file[a].peer) <= 1
    BY <1>2, <1>6 DEF StepInv, StepAt, InStep
  <2>2. PICK m \in Nat, n \in Nat : m = Len(peer) /\ n = Len(file[a].peer) /\ m = n - 1
    BY <1>4, LenProperties
  <2>3. n <= 1 /\ m = n - 1
    BY <2>1, <2>2, Zenon
  <2>4. m = 0 /\ m <= 1
    BY <2>3
  <2>5. Len(peer) = 0
    BY <2>2, <2>4, Zenon
  <2>6. peer = <<>>
    BY <1>4, <2>5, EmptySeq
  <2>7. QED
    BY <2>2, <2>4, <2>6, Zenon
<1>7. StepAt(a)'
  BY <1>2, <1>5, <1>6, StepListed
<1>8. \A x \in Account : x # a => StepAt(x)'
  BY <1>2, <1>5, StepSame
<1>9. QED
  BY <1>7, <1>8 DEF StepInv

LEMMA FriendInStep == ASSUME TypeOK, StepInv, NEW a \in Account, NEW f, AddFriend(a, f) PROVE StepInv'
<1>1. UNCHANGED <<key, inbox, drain, upset>>
  BY DEF AddFriend, server, history
<1>2. \A x \in Account : file'[x].peer = file[x].peer
  <2>1. file \in [Account -> File]
    BY TypeParts DEF FileOK
  <2>2. file' = [file EXCEPT ![a] = [file[a] EXCEPT !.friends = file[a].friends \cup {f}]]
    BY <2>1 DEF AddFriend
  <2>3. QED
    BY <2>1, <2>2 DEF File
<1>3. \A x \in Account : StepAt(x)'
  BY <1>1, <1>2, StepSame
<1>4. QED
  BY <1>3 DEF StepInv

\* A broadcast of the update that takes back the key that was current.
LEMMA SentInStep ==
    ASSUME TypeOK, SafeInv, StepInv, NEW a \in Account, NEW item, NEW new, Sends(Other(a), item, new),
           Update(item), item.revoked = key[a], item.lock = key'[a],
           \A x \in Account : x # a => key'[x] = key[x],
           UNCHANGED <<file, drain>>
    PROVE  StepInv'
<1> DEFINE b == Other(a)
<1>1. b \in Account /\ b # a /\ Other(b) = a
  BY OtherAccount
<1> HIDE DEF b
<1>2. inbox'[a] = inbox[a] /\ inbox'[b] = inbox[b] \cup new
  BY <1>1, TypeParts DEF Sends, InboxOK, b
<1>3. /\ new \in SUBSET PendingItem
      /\ \A x \in Account : upset[x] \subseteq upset'[x]
      /\ new = {} => upset'[b] # {}
      /\ \A u \in new : posted < u.id /\ Update(u) /\ u.revoked = key[a] /\ u.lock = key'[a]
  BY DEF Sends, Sent, Update, b
<1>4. key'[Other(a)] = key[Other(a)]
  BY <1>1 DEF b
<1>5. StepAt(a)'
  BY <1>2, <1>3, <1>4, StepSame
<1>6. StepAt(b)'
  <2>1. /\ \A u \in new : posted < u.id
        /\ \A u \in new : Update(u) \/ Accept(u) => u.lock = key'[Other(b)]
        /\ upset'[b] # {} \/ \E u \in new : Update(u) /\ u.revoked = key[Other(b)]
    BY <1>1, <1>3
  <2>2. QED
    BY <1>1, <1>2, <1>3, <2>1, StepPosted
<1>7. QED
  BY <1>5, <1>6, OtherAccount DEF StepInv, b

LEMMA RotateInStep == ASSUME TypeOK, SafeInv, StepInv, NEW a \in Account, NEW failing, Rotate(a, failing) PROVE StepInv'
<1> DEFINE item == Item("rotation", key[a] + 1, key[a], "good")
<1>1. PICK new : Sends(Other(a), item, new)
  BY RotateOK
<1>2. key' = [key EXCEPT ![a] = key[a] + 1] /\ UNCHANGED <<file, drain>>
  BY DEF Rotate
<1>3. key'[a] = key[a] + 1 /\ \A x \in Account : x # a => key'[x] = key[x]
  BY <1>2, TypeParts DEF KeysOK
<1>4. Update(item) /\ item.revoked = key[a] /\ item.lock = key[a] + 1
  BY DEF Item, Update
<1> HIDE DEF item
<1>5. QED
  BY <1>1, <1>2, <1>3, <1>4, SentInStep

LEMMA RevokeInStep == ASSUME TypeOK, SafeInv, StepInv, NEW a \in Account, NEW failing, Revoke(a, failing) PROVE StepInv'
<1> DEFINE item == Item("revocation", 0, key[a], "good")
<1>1. PICK new : Sends(Other(a), item, new)
  BY RevokeOK
<1>2. key' = [key EXCEPT ![a] = 0] /\ UNCHANGED <<file, drain>>
  BY DEF Revoke
<1>3. key'[a] = 0 /\ \A x \in Account : x # a => key'[x] = key[x]
  BY <1>2, TypeParts DEF KeysOK
<1>4. Update(item) /\ item.revoked = key[a] /\ item.lock = 0
  BY DEF Item, Update
<1> HIDE DEF item
<1>5. QED
  BY <1>1, <1>2, <1>3, <1>4, SentInStep

LEMMA ForgeryInStep ==
    ASSUME TypeOK, SafeInv, StepInv, NEW a \in Account,
           NEW kind \in {"contact_accept", "rotation", "revocation"}, Forgery(a, kind)
    PROVE  StepInv'
<1>1. PICK item \in PendingItem : /\ item.kind = kind /\ item.form = "forged"
                                  /\ item.id = posted + 1 /\ Post(a, item)
  BY ForgeryOK
<1>2. UNCHANGED <<key, file, drain, upset>>
  BY DEF Forgery, history
<1>3. inbox'[a] = inbox[a] \cup {item} /\ \A x \in Account : x # a => inbox'[x] = inbox[x]
  BY <1>1, TypeParts DEF InboxOK, Post
<1>4. {item} \in SUBSET PendingItem /\ \A u \in {item} : posted < u.id /\ ~Update(u) /\ ~Accept(u)
  BY <1>1, TypeParts DEF InboxOK, Update, Accept
<1>5. /\ \A u \in {item} : posted < u.id
      /\ \A u \in {item} : Update(u) \/ Accept(u) => u.lock = key'[Other(a)]
  BY <1>4
<1>6. StepAt(a)'
  BY <1>2, <1>3, <1>4, <1>5, StepPosted
<1>7. \A x \in Account : x # a => StepAt(x)'
  BY <1>2, <1>3, StepSame
<1>8. QED
  BY <1>6, <1>7 DEF StepInv

LEMMA UnaskedInStep == ASSUME TypeOK, SafeInv, StepInv, NEW a \in Account, Unasked(a) PROVE StepInv'
<1>1. PICK item \in PendingItem : Unsought(item) /\ item.id = posted + 1 /\ Post(a, item)
  BY UnaskedOK DEF Unsought
<1>2. UNCHANGED <<key, file, drain, upset>>
  BY DEF Unasked, history
<1>3. inbox'[a] = inbox[a] \cup {item} /\ \A x \in Account : x # a => inbox'[x] = inbox[x]
  BY <1>1, TypeParts DEF InboxOK, Post
<1>4. {item} \in SUBSET PendingItem /\ \A u \in {item} : posted < u.id /\ ~Update(u) /\ ~Accept(u)
  BY <1>1, TypeParts DEF InboxOK, Update, Accept, Unsought
<1>5. /\ \A u \in {item} : posted < u.id
      /\ \A u \in {item} : Update(u) \/ Accept(u) => u.lock = key'[Other(a)]
  BY <1>4
<1>6. StepAt(a)'
  BY <1>2, <1>3, <1>4, <1>5, StepPosted
<1>7. \A x \in Account : x # a => StepAt(x)'
  BY <1>2, <1>3, StepSame
<1>8. QED
  BY <1>6, <1>7 DEF StepInv

LEMMA SkipInStep == ASSUME TypeOK, StepInv, NEW a \in Account, Skip(a) PROVE StepInv'
<1>1. UNCHANGED <<key, inbox, file>> /\ upset' = [upset EXCEPT ![a] = @ \cup {"skipped"}]
      /\ drain' = [drain EXCEPT ![a] = NextItem(drain[a])]
  BY DEF Skip, Pass, server
<1>2. upset'[a] # {} /\ \A x \in Account : x # a => upset'[x] = upset[x] /\ drain'[x] = drain[x]
  BY <1>1, TypeParts DEF HistoryOK, DrainOK
<1>3. StepAt(a)'
  BY <1>2 DEF StepAt
<1>4. \A x \in Account : x # a => StepAt(x)'
  BY <1>1, <1>2, StepSame
<1>5. QED
  BY <1>3, <1>4 DEF StepInv

\* A step of a pass: what it leaves of its own account, and that it touches no other.
LEMMA StepMoved ==
    ASSUME TypeOK, SafeInv, StepInv, NEW a \in Account, NEW p, drain' = [drain EXCEPT ![a] = p],
           NEW peer, NEW items, file'[a].peer = peer, inbox'[a] = items,
           \A x \in Account : x # a => file'[x].peer = file[x].peer /\ inbox'[x] = inbox[x],
           key' = key, \A x \in Account : upset[x] \subseteq upset'[x],
           Typed(inbox[a], drain[a]) /\ upset'[a] = {} /\
           InStep(file[a].peer, inbox[a], drain[a], key[Other(a)])
              => InStep(peer, items, p, key[Other(a)])
    PROVE  StepInv'
<1>1. drain'[a] = p /\ \A x \in Account : x # a => drain'[x] = drain[x]
  BY TypeParts DEF DrainOK
<1>2. upset'[a] = {} => InStep(peer, items, p, key[Other(a)])
  BY TypedAccount DEF StepInv, StepAt
<1>3. StepAt(a)'
  BY <1>1, <1>2 DEF StepAt
<1>4. \A x \in Account : x # a => StepAt(x)'
  BY <1>1, StepSame
<1>5. QED
  BY <1>3, <1>4 DEF StepInv

LEMMA PassFailsInStep ==
    ASSUME TypeOK, SafeInv, StepInv, NEW a \in Account, NEW deleted \in BOOLEAN, PassFails(a, deleted)
    PROVE  StepInv'
<1>1. drain' = [drain EXCEPT ![a] = NoPass] /\ UNCHANGED <<key, file, upset>>
  BY DEF PassFails, Pass, history
<1>2. NoPass.pc = "idle" /\ NoPass.copy = NoFile /\ NoPass.todo = {}
  BY DEF NoPass
<1>3. CASE ~deleted
  <2>1. inbox' = inbox
    BY <1>3 DEF PassFails
  <2>2. InStep(file[a].peer, inbox[a], drain[a], key[Other(a)])
          => InStep(file[a].peer, inbox[a], NoPass, key[Other(a)])
    BY StepEnd
  <2>3. QED
    BY <1>1, <2>1, <2>2, StepMoved
<1>4. CASE deleted
  <2>1. drain[a].pc = "ack" /\ inbox' = [inbox EXCEPT ![a] = Without(@, Current(a).id)]
    BY <1>4 DEF PassFails
  <2> DEFINE less == Without(inbox[a], First(drain[a].todo).id)
  <2>2. inbox'[a] = less /\ \A x \in Account : x # a => inbox'[x] = inbox[x]
    BY <2>1, TypeParts DEF InboxOK, Current
  <2>3. Typed(inbox[a], drain[a]) /\ InStep(file[a].peer, inbox[a], drain[a], key[Other(a)])
          => InStep(file[a].peer, less, NoPass, key[Other(a)])
    BY <1>2, <2>1, StepTaken
  <2> HIDE DEF less
  <2>4. QED
    BY <1>1, <2>2, <2>3, StepMoved
<1>5. QED
  BY <1>3, <1>4

LEMMA AckInStep == ASSUME TypeOK, SafeInv, StepInv, NEW a \in Account, Ack(a) PROVE StepInv'
<1> DEFINE p == NextItem(drain[a])
           less == Without(inbox[a], First(drain[a].todo).id)
<1>1. /\ drain' = [drain EXCEPT ![a] = p] /\ UNCHANGED <<key, file, upset>>
      /\ drain[a].pc = "ack" /\ inbox' = [inbox EXCEPT ![a] = Without(@, Current(a).id)]
  BY DEF Ack, Pass, history
<1>2. p.todo = Rest(drain[a].todo) /\ p.copy = NoFile /\ p.pc \in {"idle", "next"}
  BY NextItemType, TypeParts DEF DrainOK
<1>3. inbox'[a] = less /\ \A x \in Account : x # a => inbox'[x] = inbox[x]
  BY <1>1, TypeParts DEF InboxOK, Current
<1> HIDE DEF p
<1>4. Typed(inbox[a], drain[a]) /\ InStep(file[a].peer, inbox[a], drain[a], key[Other(a)])
        => InStep(file[a].peer, less, p, key[Other(a)])
  BY <1>1, <1>2, StepTaken
<1> HIDE DEF less
<1>5. QED
  BY <1>1, <1>3, <1>4, StepMoved

LEMMA ListInStep == ASSUME TypeOK, SafeInv, StepInv, NEW a \in Account, List(a) PROVE StepInv'
<1> DEFINE items == {item \in inbox[a] : item.kind # "contact_request"}
           q == [NoPass EXCEPT !.pc = "next", !.todo = items]
<1>1. drain' = [drain EXCEPT ![a] = q] /\ UNCHANGED <<key, inbox, file, upset>> /\ drain[a].pc = "idle"
  BY DEF List, Pass, server, history
<1>2. \A i \in inbox[a] : i.kind # "contact_request" => i \in items
  OBVIOUS
<1> HIDE DEF items
<1>3. PICK p : p = q
  OBVIOUS
<1>4. p = [pc |-> "next", todo |-> items, copy |-> NoFile]
  BY <1>3 DEF NoPass
<1>5. p.pc = "next" /\ p.todo = items /\ p.copy = NoFile
  BY <1>4
<1>6. p.copy.peer = <<>> /\ Len(<<>>) = 0
  BY <1>5 DEF NoFile
<1> HIDE DEF q
<1>7. ASSUME InStep(file[a].peer, inbox[a], drain[a], key[Other(a)])
      PROVE  InStep(file[a].peer, inbox[a], p, key[Other(a)])
  <2>1. InOrder(inbox[a], p)
    BY <1>2, <1>5 DEF InOrder
  <2>2. Known(file[a].peer, inbox[a], p, key[Other(a)])
    BY <1>1, <1>5, <1>7 DEF InStep, Known, Left
  <2>3. CopyKnown(inbox[a], p, key[Other(a)])
    BY <1>5 DEF CopyKnown
  <2>4. QED
    BY <1>6, <1>7, <2>1, <2>2, <2>3 DEF InStep
<1>8. drain' = [drain EXCEPT ![a] = p]
  BY <1>1, <1>3
<1>9. QED
  BY <1>1, <1>7, <1>8, StepMoved

\* The pass goes on with the same item; if it is to be acknowledged, it is no update
\* of the key that the list has.
LEMMA StepGoto ==
    ASSUME NEW peer, NEW items, NEW p, NEW k, InStep(peer, items, p, k), p.pc # "ack",
           NEW q, q.todo = p.todo, q.copy = NoFile, q.pc # "store",
           q.pc = "ack" => \/ peer = <<>>
                           \/ ~Update(First(p.todo))
                           \/ First(p.todo).revoked # peer[1].key
    PROVE  InStep(peer, items, q, k)
<1>1. InOrder(items, q)
  BY DEF InStep, InOrder
<1>2. ASSUME peer # <<>> PROVE Pending(Left(items, q), peer[1].key, k)
  <2>1. Pending(items, peer[1].key, k)
    BY <1>2 DEF InStep, Known, Left
  <2>2. \A u \in items : Update(u) /\ u.revoked = peer[1].key => u \in Left(items, q)
    BY <1>2 DEF Left
  <2>3. QED
    BY <2>1, <2>2 DEF Pending
<1>3. q.copy.peer = <<>> /\ Len(<<>>) = 0
  BY DEF NoFile
<1>4. CopyKnown(items, q, k)
  BY DEF CopyKnown
<1>5. QED
  BY <1>1, <1>2, <1>3, <1>4 DEF InStep, Known

LEMMA FetchInStep == ASSUME TypeOK, SafeInv, StepInv, NEW a \in Account, Fetch(a) PROVE StepInv'
<1>1. PICK pc \in {"load", "ack", "save"} :
          /\ Goto(a, pc)
          /\ pc = "ack" => Current(a).kind = "contact_accept"
  BY DEF Fetch
<1>2. drain[a].pc = "next" /\ UNCHANGED <<key, inbox, file, upset>>
  BY DEF Fetch, server, history
<1> DEFINE q == [pc |-> pc, todo |-> drain[a].todo, copy |-> NoFile]
<1>3. drain' = [drain EXCEPT ![a] = q]
  BY <1>1, <1>2, TypeParts, GotoType DEF Label
<1>4. q.todo = drain[a].todo /\ q.copy = NoFile /\ q.pc = pc
  OBVIOUS
<1> HIDE DEF q
<1>5. pc = "ack" => ~Update(First(drain[a].todo))
  BY <1>1 DEF Update, Current
<1>6. InStep(file[a].peer, inbox[a], drain[a], key[Other(a)])
        => InStep(file[a].peer, inbox[a], q, key[Other(a)])
  BY <1>2, <1>4, <1>5, StepGoto
<1>7. QED
  BY <1>2, <1>3, <1>6, StepMoved

LEMMA SaveAcceptInStep == ASSUME TypeOK, SafeInv, StepInv, NEW a \in Account, SaveAccept(a) PROVE StepInv'
<1>1. drain[a].pc = "save" /\ UNCHANGED <<key, inbox>>
  BY DEF SaveAccept, server
<1>2. /\ Current(a) = First(drain[a].todo) /\ Current(a) \in inbox[a]
      /\ Accept(Current(a)) \/ Unsought(Current(a))
      /\ Current(a).lock \in Key \cup {Stranger}
  <2>1. /\ Current(a) = First(drain[a].todo) /\ Current(a) \in inbox[a]
        /\ Accept(Current(a)) \/ Unsought(Current(a))
    BY <1>1, CurrentItem DEF SafeInv, PassesInv, PassFits, Current
  <2>2. QED
    BY <2>1 DEF SafeInv, ItemsInv, ItemFits
<1>3. CASE Current(a).form = "odd"
  <2>1. drain' = [drain EXCEPT ![a] = NoPass] /\ UNCHANGED <<file, upset>>
    BY <1>3 DEF SaveAccept, Pass
  <2>2. InStep(file[a].peer, inbox[a], drain[a], key[Other(a)])
          => InStep(file[a].peer, inbox[a], NoPass, key[Other(a)])
    BY StepEnd
  <2>3. QED
    BY <1>1, <2>1, <2>2, StepMoved
<1>4. CASE Current(a).form # "odd"
  <2> DEFINE lock == Current(a).lock
             peer == SaveFromLock(file[a].peer, lock)
             q == [pc |-> "mark", todo |-> drain[a].todo, copy |-> NoFile]
             k == key[Other(a)]
             why == IF Current(a).form = "unasked" THEN {"unasked"} ELSE {}
  <2>1. /\ file' = [file EXCEPT ![a].peer = peer]
        /\ upset' = [upset EXCEPT ![a] = @ \cup Doubled(peer) \cup why]
        /\ Goto(a, "mark")
    BY <1>4 DEF SaveAccept
  <2>2. drain' = [drain EXCEPT ![a] = q]
    BY <1>1, <2>1, TypeParts, GotoType DEF Label
  <2>3. q.todo = drain[a].todo /\ q.copy = NoFile /\ q.pc = "mark"
    OBVIOUS
  <2>4. file \in [Account -> File] /\ file[a].peer \in Seq(Contact) /\ upset \in [Account -> SUBSET Why]
    BY TypeParts DEF FileOK, File, HistoryOK
  <2>5. Saved(peer, file[a].peer, lock)
    BY <1>2, <2>4, SavedPeer, KeyFacts
  <2> HIDE DEF peer, q, k
  <2>6. peer \in Seq(Contact)
    BY <2>5 DEF Saved
  <2>7. file'[a].peer = peer /\ \A x \in Account : x # a => file'[x] = file[x]
    BY <2>1, <2>4, <2>6, PutPeer
  <2>8. /\ upset'[a] = upset[a] \cup Doubled(peer) \cup why
        /\ \A x \in Account : upset[x] \subseteq upset'[x]
    BY <2>1, <2>4
  <2>9. ASSUME upset'[a] = {}, InStep(file[a].peer, inbox[a], drain[a], k)
        PROVE  InStep(peer, inbox[a], q, k)
    <3>1. InStep(file[a].peer, inbox[a], q, k)
      BY <1>1, <2>3, <2>9, StepGoto
    <3>2. Len(peer) <= 1
      BY <2>6, <2>8, <2>9, AtMostOne
    <3>3. peer # <<>> => \/ peer[1].key = lock
                         \/ file[a].peer # <<>> /\ peer[1].key = file[a].peer[1].key
      BY <1>2, <2>4, <2>5, <3>2, SavedFirst
    <3>4. Pending(inbox[a], lock, k)
      <4>1. Accept(Current(a))
        BY <1>2, <2>8, <2>9 DEF Unsought
      <4>2. QED
        BY <1>2, <2>9, <4>1 DEF InStep, Chained, Followed, Pending
    <3>5. Left(inbox[a], q) = inbox[a]
      BY <2>3 DEF Left
    <3>6. Known(peer, inbox[a], q, k)
      BY <3>1, <3>3, <3>4, <3>5 DEF InStep, Known
    <3>7. QED
      BY <3>1, <3>2, <3>6 DEF InStep
  <2>10. QED
    BY <1>1, <2>2, <2>7, <2>8, <2>9, StepMoved DEF k
<1>5. QED
  BY <1>3, <1>4

LEMMA MarkInStep == ASSUME TypeOK, SafeInv, StepInv, NEW a \in Account, MarkConnected(a) PROVE StepInv'
<1> DEFINE peer == SetConnection(file[a].peer, Current(a).lock, "connected")
           q == [pc |-> "ack", todo |-> drain[a].todo, copy |-> NoFile]
           k == key[Other(a)]
<1>1. /\ drain[a].pc = "mark" /\ UNCHANGED <<key, inbox, upset>>
      /\ file' = [file EXCEPT ![a].peer = peer] /\ Goto(a, "ack")
  BY DEF MarkConnected, server, history
<1>2. drain' = [drain EXCEPT ![a] = q]
  BY <1>1, TypeParts, GotoType DEF Label
<1>3. q.todo = drain[a].todo /\ q.copy = NoFile /\ q.pc = "ack"
  OBVIOUS
<1>4. ~Update(First(drain[a].todo))
  BY <1>1 DEF SafeInv, PassesInv, PassFits, Accept, Unsought, Update
<1>5. file \in [Account -> File] /\ file[a].peer \in Seq(Contact)
  BY TypeParts DEF FileOK, File
<1>6. Marked(peer, file[a].peer, Current(a).lock, "connected")
  BY <1>5, MarkedPeer
<1> HIDE DEF peer, q, k
<1>7. peer \in Seq(Contact)
  BY <1>6 DEF Marked
<1>8. file'[a].peer = peer /\ \A x \in Account : x # a => file'[x] = file[x]
  BY <1>1, <1>5, <1>7, PutPeer
<1>9. ASSUME InStep(file[a].peer, inbox[a], drain[a], k)
      PROVE  InStep(peer, inbox[a], q, k)
  <2>1. InStep(file[a].peer, inbox[a], q, k)
    BY <1>1, <1>3, <1>4, <1>9, StepGoto
  <2>2. Len(peer) = Len(file[a].peer) /\ (peer # <<>> => file[a].peer # <<>> /\ peer[1].key = file[a].peer[1].key)
    BY <1>5, <1>6, MarkedFirst
  <2>3. Len(peer) <= 1
    BY <1>9, <2>2 DEF InStep
  <2>4. QED
    BY <2>1, <2>2, <2>3, StepPeer
<1>10. QED
  BY <1>1, <1>2, <1>8, <1>9, StepMoved DEF k

LEMMA LoadInStep == ASSUME TypeOK, SafeInv, StepInv, NEW a \in Account, LoadContacts(a) PROVE StepInv'
<1> DEFINE c == Current(a)
           peer == file[a].peer
           k == key[Other(a)]
<1>1. drain[a].pc = "load" /\ UNCHANGED <<key, inbox, file, upset>>
  BY DEF LoadContacts, server, history
<1>2. /\ c = First(drain[a].todo) /\ c \in inbox[a] /\ c \in PendingItem
      /\ c.kind \in {"rotation", "revocation"}
  BY <1>1, CurrentItem DEF SafeInv, PassesInv, PassFits, Current
<1>3. CASE Loaded(a)
  <2>1. PICK copy : /\ drain' = [drain EXCEPT ![a] = [pc |-> "store", todo |-> drain[a].todo, copy |-> copy]]
                    /\ copy \in File
                    /\ Len(copy.peer) = Len(peer)
                    /\ copy.peer[1] = Applied(c, peer[1])
    BY <1>3 DEF Loaded
  <2>2. peer # <<>> /\ Update(c)
    BY <1>2, <1>3 DEF Loaded, Update
  <2> DEFINE q == [pc |-> "store", todo |-> drain[a].todo, copy |-> copy]
  <2>3. q.todo = drain[a].todo /\ q.pc = "store" /\ q.copy = copy
    OBVIOUS
  <2> HIDE DEF q
  <2>4. drain' = [drain EXCEPT ![a] = q]
    BY <2>1 DEF q
  <2>5. copy.peer # <<>> /\ copy.peer[1].key = c.lock
    <3>1. peer \in Seq(Contact) /\ copy.peer \in Seq(Contact)
      BY <2>1, TypeParts DEF FileOK, File
    <3>2. Len(peer) \in Nat \ {0} /\ peer[1] \in Contact
      BY <2>2, <3>1, EmptySeq, LenProperties
    <3>3. Len(copy.peer) # 0
      BY <2>1, <3>2
    <3>4. copy.peer # <<>>
      BY <3>3, EmptySeq
    <3>5. Applied(c, peer[1]).key = c.lock
      BY <1>2, <3>2, AppliedType
    <3>6. QED
      BY <2>1, <3>4, <3>5
  <2> HIDE DEF c, peer, k
  <2>6. ASSUME InStep(peer, inbox[a], drain[a], k)
        PROVE  InStep(peer, inbox[a], q, k)
    <3>1. InOrder(inbox[a], q) /\ Chained(inbox[a], k)
      BY <2>3, <2>6 DEF InStep, InOrder
    <3>2. Known(peer, inbox[a], q, k)
      BY <1>1, <2>3, <2>6 DEF InStep, Known, Left
    <3>3. Followed(inbox[a], c.lock, c.id, k)
      BY <1>2, <2>2, <2>6 DEF InStep, Chained
    <3>4. CopyKnown(inbox[a], q, k)
      BY <1>2, <2>3, <2>5, <3>3 DEF CopyKnown
    <3>5. Len(peer) <= 1
      BY <2>6 DEF InStep
    <3>6. Len(q.copy.peer) <= 1
      BY <2>1, <2>3, <3>5
    <3>7. QED
      BY <3>1, <3>2, <3>4, <3>5, <3>6 DEF InStep
  <2>7. QED
    BY <1>1, <2>4, <2>6, StepMoved DEF peer, k
<1>4. CASE Goto(a, "ack") /\ ~(peer # <<>> /\ Verified(c, peer[1]))
  <2> DEFINE q == [pc |-> "ack", todo |-> drain[a].todo, copy |-> NoFile]
  <2>1. drain' = [drain EXCEPT ![a] = q]
    BY <1>1, <1>4, TypeParts, GotoType DEF Label
  <2>2. q.todo = drain[a].todo /\ q.copy = NoFile /\ q.pc = "ack"
    OBVIOUS
  <2> HIDE DEF q
  <2>3. \/ peer = <<>>
        \/ ~Update(First(drain[a].todo))
        \/ First(drain[a].todo).revoked # peer[1].key
    BY <1>2, <1>4 DEF Verified, Update
  <2> HIDE DEF peer, k
  <2>4. InStep(peer, inbox[a], drain[a], k) => InStep(peer, inbox[a], q, k)
    BY <1>1, <2>2, <2>3, StepGoto
  <2>5. QED
    BY <1>1, <2>1, <2>4, StepMoved DEF peer, k
<1>5. QED
  <2>1. CASE peer # <<>> /\ Verified(c, peer[1])
    <3>1. ~Goto(a, "ack")
      <4>1. drain[a] \in PassType /\ drain \in [Account -> PassType]
        BY TypeParts DEF DrainOK
      <4>2. drain'[a].pc = "store"
        BY <2>1, <4>1 DEF LoadContacts, PassType
      <4>3. SUFFICES ASSUME Goto(a, "ack") PROVE FALSE
        OBVIOUS
      <4>4. drain'[a].pc = "ack"
        BY <4>1, <4>3 DEF Goto, PassType
      <4>5. QED
        BY <4>2, <4>4
    <3>2. QED
      BY <1>3, <3>1, LoadSteps
  <2>2. CASE ~(peer # <<>> /\ Verified(c, peer[1]))
    BY <1>4, <2>2 DEF LoadContacts
  <2>3. QED
    BY <2>1, <2>2

LEMMA StoreInStep == ASSUME TypeOK, SafeInv, StepInv, NEW a \in Account, StoreContacts(a) PROVE StepInv'
<1> DEFINE q == [pc |-> "ack", todo |-> drain[a].todo, copy |-> NoFile]
           peer == drain[a].copy.peer
           k == key[Other(a)]
           c == First(drain[a].todo)
<1>1. /\ drain[a].pc = "store" /\ UNCHANGED <<key, inbox, upset>>
      /\ file' = [file EXCEPT ![a] = drain[a].copy]
      /\ drain' = [drain EXCEPT ![a] = q]
  BY StoreOK DEF StoreContacts, server, history
<1>2. q.todo = drain[a].todo /\ q.copy = NoFile /\ q.pc = "ack"
  OBVIOUS
<1>3. file'[a].peer = peer /\ \A x \in Account : x # a => file'[x] = file[x]
  BY <1>1, TypeParts DEF FileOK
<1> HIDE DEF q
<1>4. ASSUME Typed(inbox[a], drain[a]), InStep(file[a].peer, inbox[a], drain[a], k)
      PROVE  InStep(peer, inbox[a], q, k)
  <2>1. Len(peer) <= 1 /\ Followed(inbox[a], peer[1].key, c.id, k) /\ c.id \in Nat
    <3>1. c.id \in Nat
      BY <1>1, <1>4, FirstOfAll DEF InStep
    <3>2. QED
      BY <1>1, <1>4, <3>1 DEF InStep, CopyKnown
  <2>2. \A u \in inbox[a] : c.id < u.id => u \in Left(inbox[a], q)
    <3>1. SUFFICES ASSUME NEW u \in inbox[a], c.id < u.id PROVE u # c
      BY <1>2 DEF Left
    <3>2. ~(c.id < c.id)
      BY <2>1
    <3>3. QED
      BY <3>1, <3>2
  <2>3. Pending(Left(inbox[a], q), peer[1].key, k)
    BY <2>1, <2>2 DEF Followed, Pending
  <2>4. InOrder(inbox[a], q) /\ Chained(inbox[a], k)
    BY <1>2, <1>4 DEF InStep, InOrder
  <2>5. q.copy.peer = <<>> /\ Len(<<>>) = 0
    BY <1>2 DEF NoFile
  <2>6. CopyKnown(inbox[a], q, k)
    BY <1>2 DEF CopyKnown
  <2>7. QED
    BY <2>1, <2>3, <2>4, <2>5, <2>6 DEF InStep, Known
<1> HIDE DEF peer
<1>5. QED
  BY <1>1, <1>3, <1>4, StepMoved

\* In the first state every key is current.
LEMMA StepInit == Init => StepInv
<1>1. SUFFICES ASSUME Init, NEW a \in Account
      PROVE InStep(file[a].peer, inbox[a], drain[a], key[Other(a)])
  BY DEF StepInv, StepAt
<1>2. inbox[a] = {} /\ drain[a] = NoPass /\ key[Other(a)] = 1
  BY <1>1, OtherAccount DEF Init
<1>3. NoPass.todo = {} /\ NoPass.pc = "idle" /\ NoPass.copy.peer = <<>> /\ Len(<<>>) = 0
  BY DEF NoPass, NoFile
<1>4. InOrder(inbox[a], drain[a]) /\ Chained(inbox[a], key[Other(a)]) /\ CopyKnown(inbox[a], drain[a], key[Other(a)])
  BY <1>2, <1>3 DEF InOrder, Chained, CopyKnown
<1>5. Len(file[a].peer) <= 1 /\ (file[a].peer # <<>> => file[a].peer[1].key = 1)
  <2>1. CASE file[a] = NoFile
    BY <1>3, <2>1 DEF NoFile
  <2>2. CASE file[a] = [peer |-> <<Entry(1, "connected")>>, friends |-> {}]
    <3> DEFINE e == Entry(1, "connected")
    <3>1. e.key = 1
      BY DEF Entry
    <3> HIDE DEF e
    <3>2. PICK one : one = <<e>>
      OBVIOUS
    <3>3. Len(one) = 1 /\ one[1] = e
      BY <3>2
    <3>4. file[a] = [peer |-> one, friends |-> {}]
      BY <2>2, <3>2 DEF e
    <3>5. [peer |-> one, friends |-> {}].peer = one
      OBVIOUS
    <3>6. file[a].peer = one
      BY <3>4, <3>5, Zenon
    <3>7. Len(one) <= 1 /\ one[1].key = 1
      BY <3>1, <3>3
    <3>8. QED
      BY <3>6, <3>7, Zenon
  <2>3. QED
    BY <1>1, <2>1, <2>2 DEF Init
<1>6. Known(file[a].peer, inbox[a], drain[a], key[Other(a)])
  BY <1>2, <1>5 DEF Known, Pending
<1>7. Len(drain[a].copy.peer) <= 1
  BY <1>2, <1>3
<1>8. QED
  BY <1>4, <1>5, <1>6, <1>7 DEF InStep

\* Every step keeps StepInv.
LEMMA StepStep == TypeOK /\ SafeInv /\ StepInv /\ [Next]_vars => StepInv'
<1>1. SUFFICES ASSUME TypeOK, SafeInv, StepInv, [Next]_vars PROVE StepInv'
  OBVIOUS
<1>2. CASE UNCHANGED vars
  BY <1>1, <1>2 DEF vars, server, history, StepInv, StepAt
<1>3. CASE Next
  <2>1. PICK a \in Account : DrainStep(a) \/ UserStep(a) \/ Fault(a)
    BY <1>3 DEF Next
  <2>2. CASE DrainStep(a)
    BY <1>1, <2>2, ListInStep, FetchInStep, SaveAcceptInStep, MarkInStep, LoadInStep, StoreInStep,
       AckInStep DEF DrainStep
  <2>3. CASE UserStep(a)
    BY <1>1, <2>3, AddInStep, InviteInStep, DeclineInStep, RemoveInStep, AcceptInStep, RotateInStep,
       RevokeInStep, FriendInStep DEF UserStep
  <2>4. CASE Fault(a)
    BY <1>1, <2>4, SkipInStep, PassFailsInStep, ForgeryInStep, UnaskedInStep DEF Fault
  <2>5. QED
    BY <2>1, <2>2, <2>3, <2>4
<1>4. QED
  BY <1>1, <1>2, <1>3

\* No update is lost between its post and the contact list: when a's inbox is empty and
\* no pass is under way, its contact has the other's current key, unless one of the
\* recorded exceptions happened.
THEOREM LastKeyArrives == Spec => []KeysConverge
<1>1. Spec => []StepInv
  BY TypeCorrect, SafeAlways, StepInit, StepStep, PTL DEF Spec
<1>2. StepInv => KeysConverge
  <2>1. SUFFICES ASSUME StepInv, NEW a \in Account, file[a].peer # <<>>, drain[a].pc = "idle",
                        \A item \in inbox[a] : item.kind = "contact_request", upset[a] = {}
        PROVE file[a].peer[1].key = key[Other(a)]
    BY DEF KeysConverge
  <2>2. Pending(inbox[a], file[a].peer[1].key, key[Other(a)])
    BY <2>1 DEF StepInv, StepAt, InStep, Known, Left
  <2>3. QED
    BY <2>1, <2>2 DEF Pending, Update
<1>3. QED
  BY <1>1, <1>2, PTL

=============================================================================
