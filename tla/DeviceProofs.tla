---------------------------- MODULE DeviceProofs ----------------------------
(* Proofs about the two objects that several threads of one process share   *)
(* under a mutex: the credentials of Session, for every set of threads that *)
(* call Refresh and any number of events, and the collection of             *)
(* FrameCollector, for every set of Locks and of decoders, every size and   *)
(* every chunk size.  The two have no state in common.                      *)
EXTENDS Session, FrameCollector, FiniteSetTheorems, SequenceTheorems, TLAPS

-----------------------------------------------------------------------------
(* Session.  Its invariant relates the tokens a thread, the Client, the     *)
(* stores and the user's call hold to the generation the server expects,    *)
(* what is left of a call to what it has cleared, and the blob to the       *)
(* account.                                                                 *)

\* The steps that can be left of a user's call.
TwoFactor == <<"encKey", "factor", "tokens", "save">>
Factor    == <<"factor", "tokens", "save">>
Confirm   == <<"confirm", "tokens", "save", "encKey">>
Key       == <<"encKey", "tokens", "save">>
Set       == <<"tokens", "save">>
SetFirst  == <<"tokens", "save", "encKey">>
Keep      == <<"save">>
KeepFirst == <<"save", "encKey">>
KeyLast   == <<"encKey">>
Clear1    == <<"clearEncKey", "clearSession", "dropTokens", "dropAuth">>
Clear2    == <<"clearSession", "dropTokens", "dropAuth">>
Clear3    == <<"dropTokens", "dropAuth">>
Clear4    == <<"dropAuth">>
WrapFirst == <<"rewrap", "change", "login">>
Changes   == <<"change", "login">>
Again     == <<"login">>

Unissued == {TwoFactor, Factor, Confirm}
Issuing  == {Key, Set, SetFirst}
Keeping  == {Keep, KeepFirst}
Clearing == {Clear1, Clear2, Clear3, Clear4}
Changing == {WrapFirst, Changes, Again}
Shape == {<<>>, KeyLast} \cup Unissued \cup Issuing \cup Keeping \cup Clearing \cup Changing

Busy(c) == refresh[c].pc \in {"post", "answer", "save"}

\* The server has rotated t no further, or has ended its family.
Latest(t) == t # NoTokens => family[t.fam] \in {0, t.gen}

\* Nothing that can be posted or restored is of family f.
Outside(f) ==
    /\ client.tokens # NoTokens => client.tokens.fam # f
    /\ store.tokens # NoTokens => store.tokens.fam # f
    /\ \A c \in Caller : refresh[c].tokens # NoTokens => refresh[c].tokens.fam # f

CallOK == \A c \in Caller : Busy(c) => refresh[c].tokens \in Token

\* A call has one of the shapes; what it has been issued is a first generation.
UserOK ==
    /\ user.steps \in Shape
    /\ user.steps \in Issuing \cup Keeping => user.tokens \in Token /\ user.tokens.gen = 1

\* Until SetTokens, nobody can have refreshed what was issued.
NewFamily ==
    user.steps \in Issuing => Latest(user.tokens) /\ Outside(user.tokens.fam)

\* As long as nothing is torn: the holder of the lock has the latest token; the
\* Client has, except between the answer and Install; the store has, except
\* between the answer and Save.
Newest ==
    ~torn =>
        /\ \A c \in Caller : Busy(c) => Latest(refresh[c].tokens)
        /\ (\A c \in Caller : refresh[c].pc # "answer") => Latest(client.tokens)
        /\ (\A c \in Caller : refresh[c].pc \notin {"answer", "save"}) => Latest(store.tokens)

\* What LogOut leaves: only what a store failed to remove.
KeyGone    == "encKey" \in out.kept \/ store.encKey = 0
TokensGone == {"tokens", "active"} \subseteq out.kept \/ client.tokens = NoTokens
StoreGone  ==
    /\ "tokens" \in out.kept \/ store.tokens = NoTokens
    /\ "active" \in out.kept \/ ~store.active

\* How far LogOut has come, and that a Refresh about to save overlaps it.
ClearOK ==
    /\ user.steps \in Clearing => ~out.done /\ (out.email => client.email)
    /\ \A c \in Caller :
          (user.steps \in Clearing \/ out.done) /\ refresh[c].pc = "save" => out.overlap
    /\ out.email /\ user.steps \in {Clear2, Clear3, Clear4} => KeyGone
    /\ out.email /\ user.steps \in {Clear3, Clear4} => out.overlap \/ StoreGone
    /\ out.email /\ user.steps = Clear4 => out.overlap \/ TokensGone
    /\ out.done => user.steps \in {<<>>} \cup Changing

\* Before there is an account nothing was issued or uploaded.
BlobOK ==
    /\ password = 0 => blob = 0 /\ family = <<>>
    /\ user.steps = Confirm => password = 0 /\ client.encKey # 0
    /\ user.steps \in {TwoFactor, Factor} \cup Changing => password # 0
    /\ user.steps \in {WrapFirst, Changes} => user.key # 0

-----------------------------------------------------------------------------
(* The shapes of a call.                                                    *)

\* The first step of each shape of a login or sign-up, and what it leaves.
LEMMA Tails ==
    /\ Head(TwoFactor) = "encKey" /\ Tail(TwoFactor) = Factor
    /\ Head(Factor) = "factor" /\ Tail(Factor) = Set
    /\ Head(Confirm) = "confirm" /\ Tail(Confirm) = SetFirst
    /\ Head(Key) = "encKey" /\ Tail(Key) = Set
    /\ Head(Set) = "tokens" /\ Tail(Set) = Keep
    /\ Head(SetFirst) = "tokens" /\ Tail(SetFirst) = KeepFirst
    /\ Head(Keep) = "save" /\ Tail(Keep) = <<>>
    /\ Head(KeepFirst) = "save" /\ Tail(KeepFirst) = KeyLast
    /\ Head(KeyLast) = "encKey" /\ Tail(KeyLast) = <<>>
  BY DEF TwoFactor, Factor, Confirm, Key, Set, SetFirst, Keep, KeepFirst, KeyLast

\* The steps of ClearSteps.
LEMMA ClearStepsRange ==
    \A s \in Range(ClearSteps) : s \in {"clearEncKey", "clearSession", "dropTokens", "dropAuth"}
  BY DEF ClearSteps, Range

\* Short sequences of steps, joined.
LEMMA JoinedThree ==
    ASSUME NEW a \in Steps, NEW b \in Steps, NEW c \in Steps
    PROVE  <<a>> \o <<b, c>> = <<a, b, c>>
  <1>1. <<a>> \in Seq(Steps) /\ <<b, c>> \in Seq(Steps) /\ <<a, b, c>> \in Seq(Steps)
        /\ Len(<<a>>) = 1 /\ Len(<<b, c>>) = 2 /\ Len(<<a, b, c>>) = 3
    OBVIOUS
  <1>2. PICK s : s = <<a>> \o <<b, c>>
    OBVIOUS
  <1>3. /\ s \in Seq(Steps) /\ Len(s) = 3
        /\ \A i \in 1..3 : s[i] = IF i <= 1 THEN <<a>>[i] ELSE <<b, c>>[i - 1]
    BY <1>1, <1>2, ConcatProperties
  <1>4. s[1] = a /\ s[2] = b /\ s[3] = c
    BY <1>3
  <1>5. \A i \in 1..Len(s) : s[i] = <<a, b, c>>[i]
    BY <1>3, <1>4
  <1>6. s = <<a, b, c>>
    BY <1>1, <1>3, <1>5, SeqEqual
  <1> QED
    BY <1>2, <1>6

\* The steps of a log-in with a second factor, joined.
LEMMA FactorJoined == <<"encKey", "factor">> \o <<"tokens", "save">> = TwoFactor
  <1>1. /\ <<"encKey", "factor">> \in Seq(Steps) /\ Len(<<"encKey", "factor">>) = 2
        /\ <<"tokens", "save">> \in Seq(Steps) /\ Len(<<"tokens", "save">>) = 2
    BY DEF Steps
  <1>2. /\ TwoFactor \in Seq(Steps) /\ Len(TwoFactor) = 4
        /\ TwoFactor[1] = "encKey" /\ TwoFactor[2] = "factor"
        /\ TwoFactor[3] = "tokens" /\ TwoFactor[4] = "save"
    BY DEF Steps, TwoFactor
  <1>3. PICK s : s = <<"encKey", "factor">> \o <<"tokens", "save">>
    OBVIOUS
  <1>4. /\ s \in Seq(Steps) /\ Len(s) = 4
        /\ \A i \in 1..4 : s[i] = IF i <= 2 THEN <<"encKey", "factor">>[i]
                                  ELSE <<"tokens", "save">>[i - 2]
    BY <1>1, <1>3, ConcatProperties
  <1>5. s[1] = "encKey" /\ s[2] = "factor" /\ s[3] = "tokens" /\ s[4] = "save"
    BY <1>4
  <1>6. \A i \in 1..Len(s) : s[i] = TwoFactor[i]
    BY <1>2, <1>4, <1>5
  <1>7. s = TwoFactor
    BY <1>2, <1>4, <1>6, SeqEqual
  <1> QED
    BY <1>3, <1>7

\* The shapes LogIn begins with.
LEMMA LogInShapes == LogInSteps(TRUE) = TwoFactor /\ LogInSteps(FALSE) = Key
  <1>1. LogInSteps(TRUE) = <<"encKey", "factor">> \o <<"tokens", "save">>
    BY DEF LogInSteps
  <1>2. LogInSteps(FALSE) = <<"encKey">> \o <<"tokens", "save">>
    BY DEF LogInSteps
  <1>3. "encKey" \in Steps /\ "tokens" \in Steps /\ "save" \in Steps
    BY DEF Steps
  <1>4. <<"encKey">> \o <<"tokens", "save">> = Key
    BY <1>3, JoinedThree, Zenon DEF Key
  <1> QED
    BY <1>1, <1>2, <1>4, FactorJoined

\* The shapes ChangePassword begins with.
LEMMA ChangeShapes ==
    /\ <<"rewrap">> \o <<"change", "login">> = WrapFirst
    /\ <<>> \o <<"change", "login">> = Changes
  <1>1. <<"change", "login">> \in Seq(Steps)
    BY DEF Steps
  <1>2. <<>> \o <<"change", "login">> = Changes
    BY <1>1, ConcatEmptySeq DEF Changes
  <1>3. "rewrap" \in Steps /\ "change" \in Steps /\ "login" \in Steps
    BY DEF Steps
  <1>4. <<"rewrap">> \o <<"change", "login">> = WrapFirst
    BY <1>3, JoinedThree, Zenon DEF WrapFirst
  <1> QED
    BY <1>2, <1>4

\* The same for logging out and for changing the password.
LEMMA MoreTails ==
    /\ Head(Clear1) = "clearEncKey" /\ Tail(Clear1) = Clear2
    /\ Head(Clear2) = "clearSession" /\ Tail(Clear2) = Clear3
    /\ Head(Clear3) = "dropTokens" /\ Tail(Clear3) = Clear4
    /\ Head(Clear4) = "dropAuth" /\ Tail(Clear4) = <<>>
    /\ Head(WrapFirst) = "rewrap" /\ Tail(WrapFirst) = Changes
    /\ Head(Changes) = "change" /\ Tail(Changes) = Again
    /\ Head(Again) = "login" /\ Tail(Again) = <<>>
  BY DEF Clear1, Clear2, Clear3, Clear4, WrapFirst, Changes, Again

\* A call of one of these shapes has not ended.
LEMMA NotDone ==
    /\ TwoFactor # <<>> /\ Factor # <<>> /\ Confirm # <<>> /\ Key # <<>> /\ Set # <<>>
    /\ SetFirst # <<>> /\ Keep # <<>> /\ KeepFirst # <<>> /\ KeyLast # <<>>
    /\ Clear1 # <<>> /\ Clear2 # <<>> /\ Clear3 # <<>> /\ Clear4 # <<>>
    /\ WrapFirst # <<>> /\ Changes # <<>> /\ Again # <<>>
  BY DEF TwoFactor, Factor, Confirm, Key, Set, SetFirst, Keep, KeepFirst, KeyLast,
         Clear1, Clear2, Clear3, Clear4, WrapFirst, Changes, Again

\* Shapes with the same first step.
LEMMA SameHead == 
    /\ TwoFactor # Key /\ Key # KeyLast /\ TwoFactor # KeyLast
    /\ Set # SetFirst /\ Keep # KeepFirst
  BY DEF TwoFactor, Key, KeyLast, Set, SetFirst, Keep, KeepFirst

\* A shape is a sequence of steps.
LEMMA ShapeSeq == Shape \subseteq Seq(Steps)
  <1>1. Unissued \cup Issuing \subseteq Seq(Steps)
    BY DEF Unissued, Issuing, TwoFactor, Factor, Confirm, Key, Set, SetFirst, Steps
  <1>2. Keeping \cup {<<>>, KeyLast} \subseteq Seq(Steps)
    BY DEF Keeping, Keep, KeepFirst, KeyLast, Steps
  <1>3. Clearing \subseteq Seq(Steps)
    BY DEF Clearing, Clear1, Clear2, Clear3, Clear4, Steps
  <1>4. Changing \subseteq Seq(Steps)
    BY DEF Changing, WrapFirst, Changes, Again, Steps
  <1> QED
    BY <1>1, <1>2, <1>3, <1>4 DEF Shape

\* What Then leaves, for each first step.
LEMMA StepsLeft ==
    ASSUME NEW s \in Shape, s # <<>>
    PROVE  /\ Tail(s) \in Shape
           /\ Head(s) = "encKey" => \/ s = TwoFactor /\ Tail(s) = Factor
                                    \/ s = Key /\ Tail(s) = Set
                                    \/ s = KeyLast /\ Tail(s) = <<>>
           /\ Head(s) = "factor" => s = Factor /\ Tail(s) = Set
           /\ Head(s) = "confirm" => s = Confirm /\ Tail(s) = SetFirst
           /\ Head(s) = "tokens" => \/ s = Set /\ Tail(s) = Keep
                                    \/ s = SetFirst /\ Tail(s) = KeepFirst
           /\ Head(s) = "save" => \/ s = Keep /\ Tail(s) = <<>>
                                  \/ s = KeepFirst /\ Tail(s) = KeyLast
           /\ Head(s) = "clearEncKey" => s = Clear1 /\ Tail(s) = Clear2
           /\ Head(s) = "clearSession" => s = Clear2 /\ Tail(s) = Clear3
           /\ Head(s) = "dropTokens" => s = Clear3 /\ Tail(s) = Clear4
           /\ Head(s) = "dropAuth" => s = Clear4 /\ Tail(s) = <<>>
           /\ Head(s) = "rewrap" => s = WrapFirst /\ Tail(s) = Changes
           /\ Head(s) = "change" => s = Changes /\ Tail(s) = Again
           /\ Head(s) = "login" => s = Again /\ Tail(s) = <<>>
  <1>1. CASE s \in Unissued \cup Issuing
    BY <1>1, Tails, NotDone DEF Shape, Unissued, Issuing, Keeping
  <1>2. CASE s \in Keeping
    BY <1>2, Tails, NotDone DEF Shape, Keeping
  <1>3. CASE s \in Clearing
    BY <1>3, MoreTails, NotDone DEF Shape, Clearing
  <1>4. CASE s \in Changing
    BY <1>4, MoreTails, NotDone DEF Shape, Changing
  <1>5. CASE s = KeyLast
    BY <1>5, Tails, NotDone DEF Shape
  <1> QED
    BY <1>1, <1>2, <1>3, <1>4, <1>5 DEF Shape

\* The families after every session has ended, and after a login.
LEMMA Families ==
    ASSUME family \in Seq(Nat)
    PROVE  /\ Len(family) \in Nat
           /\ AllEnded \in Seq(Nat) /\ Len(AllEnded) = Len(family)
           /\ \A f \in 1..Len(family) : AllEnded[f] = 0
           /\ Append(family, 1) \in Seq(Nat) /\ Len(Append(family, 1)) = Len(family) + 1
           /\ \A f \in 1..Len(family) : Append(family, 1)[f] = family[f]
           /\ Append(family, 1)[Len(family) + 1] = 1
  BY DEF AllEnded

\* A step that rotates no token: families end and are added.
Steady ==
    /\ family' \in Seq(Nat)
    /\ Len(family') \in Nat /\ Len(family') >= Len(family)
    /\ \A f \in 1..Len(family) : family'[f] \in {0, family[f]}

\* A token stays a token when families are added.
LEMMA Grown ==
    ASSUME family \in Seq(Nat), family' \in Seq(Nat), Len(family') \in Nat,
           Len(family') >= Len(family)
    PROVE  Token \subseteq Token' /\ Held \subseteq Held'
  BY DEF Token, Held

\* A step that rotates no token leaves a latest token the latest.
LEMMA SteadyTokens ==
    ASSUME family \in Seq(Nat), Steady
    PROVE  /\ Token \subseteq Token' /\ Held \subseteq Held'
           /\ \A t \in Held : Latest(t) => Latest(t)'
  <1>1. Token \subseteq Token' /\ Held \subseteq Held'
    BY Grown DEF Steady
  <1>2. ASSUME NEW t \in Held, Latest(t) PROVE Latest(t)'
    <2>1. CASE t = NoTokens
      BY <2>1 DEF Latest
    <2>2. CASE t # NoTokens
      <3>1. t \in Token
        BY <2>2 DEF Held
      <3>2. t.fam \in 1..Len(family)
        BY <3>1 DEF Token
      <3> QED
        BY <3>2, <1>2, <2>2 DEF Latest, Steady
    <2> QED
      BY <2>1, <2>2
  <1> QED
    BY <1>1, <1>2

-----------------------------------------------------------------------------
(* The type invariant, by variable.                                         *)

AccountType == family \in Seq(Nat) /\ chosen \in Nat /\ password \in 0..chosen /\ blob \in 0..chosen
ClientType == client \in [tokens : Held, email : BOOLEAN, encKey : 0..chosen]
StoreType == store \in [tokens : Held, active : BOOLEAN, encKey : 0..chosen]
FreshType == fresh \subseteq Token
LockType ==
    /\ refreshMu \in Caller \cup {"none"}
    /\ \A c \in Caller : Busy(c) <=> refreshMu = c
CallType ==
    refresh \in [Caller -> [pc : {"idle", "post", "answer", "save", "ok", "err"},
                            tokens : Held, email : BOOLEAN]]
UserType == user \in [steps : Seq(Steps), tokens : Held, key : 0..chosen, email : BOOLEAN]
StreamType == stream \in [pc : {"off", "before", "connect", "open", "wait"}, backoff : Nat \ {0}]
HistoryType ==
    /\ torn \in BOOLEAN /\ tripped \in BOOLEAN
    /\ out \in [email : BOOLEAN, overlap : BOOLEAN, kept : SUBSET {"encKey", "tokens", "active"},
                done : BOOLEAN]
    /\ cause \subseteq {"reset", "race", "halfway", "unwrapped", "stale key"}
EventType == events \in 0..MaxEvents

\* The parts are the type invariant.
LEMMA TypeParts ==
    TypeOK <=> /\ AccountType /\ ClientType /\ StoreType /\ FreshType /\ LockType /\ CallType
               /\ UserType /\ StreamType /\ HistoryType /\ EventType
  BY DEF TypeOK, AccountType, ClientType, StoreType, FreshType, LockType, CallType, UserType,
         StreamType, HistoryType, EventType, Busy

\* The same for the next state.
LEMMA TypePartsPrimed ==
    ASSUME AccountType', ClientType', StoreType', FreshType', LockType', CallType',
           UserType', StreamType', HistoryType', EventType'
    PROVE  TypeOK'
  BY DEF TypeOK, AccountType, ClientType, StoreType, FreshType, LockType, CallType, UserType,
         StreamType, HistoryType, EventType, Busy

Grows ==
    /\ family' \in Seq(Nat)
    /\ Len(family') \in Nat /\ Len(family') >= Len(family)

\* What a step leaves alone keeps its type.
LEMMA TypeFrame ==
    ASSUME TypeOK, Grows, chosen' \in {chosen, chosen + 1}
    PROVE  /\ Token \subseteq Token' /\ Held \subseteq Held' /\ 0..chosen \subseteq 0..chosen'
           /\ client' = client => ClientType'
           /\ store' = store => StoreType'
           /\ fresh' = fresh => FreshType'
           /\ refreshMu' = refreshMu /\ refresh' = refresh => LockType'
           /\ refresh' = refresh => CallType'
           /\ user' = user => UserType'
           /\ stream' = stream => StreamType'
           /\ torn' = torn /\ tripped' = tripped /\ out' = out /\ cause' = cause => HistoryType'
           /\ password' = password /\ blob' = blob => AccountType'
           /\ events' = events \/ Event => EventType'
  <1>0. /\ AccountType /\ ClientType /\ StoreType /\ FreshType /\ LockType /\ CallType
        /\ UserType /\ StreamType /\ HistoryType /\ EventType
    BY TypeParts
  <1>1. Token \subseteq Token' /\ Held \subseteq Held'
    BY <1>0, Grown DEF Grows, AccountType
  <1>2. 0..chosen \subseteq 0..chosen' /\ chosen' \in Nat
    BY <1>0 DEF AccountType
  <1>3. client' = client => ClientType'
    BY <1>0, <1>1, <1>2 DEF ClientType
  <1>4. store' = store => StoreType'
    BY <1>0, <1>1, <1>2 DEF StoreType
  <1>5. fresh' = fresh => FreshType'
    BY <1>0, <1>1 DEF FreshType
  <1>6. refreshMu' = refreshMu /\ refresh' = refresh => LockType'
    BY <1>0 DEF LockType, Busy
  <1>7. ASSUME refresh' = refresh PROVE CallType'
    <2>1. \A c \in Caller : refresh[c] \in [pc : {"idle", "post", "answer", "save", "ok", "err"},
                                            tokens : Held', email : BOOLEAN]
      BY <1>0, <1>1 DEF CallType
    <2>2. refresh \in [Caller -> [pc : {"idle", "post", "answer", "save", "ok", "err"},
                                  tokens : Held', email : BOOLEAN]]
      BY <1>0, <2>1 DEF CallType
    <2> QED
      BY <2>2, <1>7 DEF CallType
  <1>8. user' = user => UserType'
    BY <1>0, <1>1, <1>2 DEF UserType
  <1>9. stream' = stream => StreamType'
    BY <1>0 DEF StreamType
  <1>10. torn' = torn /\ tripped' = tripped /\ out' = out /\ cause' = cause => HistoryType'
    BY <1>0 DEF HistoryType
  <1>11. password' = password /\ blob' = blob => AccountType'
    BY <1>0, <1>2 DEF AccountType, Grows
  <1>12. events' = events \/ Event => EventType'
    BY <1>0, SessionAssumption DEF EventType, Event
  <1> QED
    BY <1>1, <1>2, <1>3, <1>4, <1>5, <1>6, <1>7, <1>8, <1>9, <1>10, <1>11, <1>12

\* A step keeps the type invariant if what it changes keeps its type.
LEMMA TypeStep ==
    ASSUME TypeOK, Grows, chosen' \in {chosen, chosen + 1},
           (password' = password /\ blob' = blob) \/ AccountType',
           client' = client \/ ClientType',
           store' = store \/ StoreType',
           fresh' = fresh \/ FreshType',
           (refreshMu' = refreshMu /\ refresh' = refresh) \/ (LockType' /\ CallType'),
           user' = user \/ UserType',
           stream' = stream \/ StreamType',
           (torn' = torn /\ tripped' = tripped /\ out' = out /\ cause' = cause) \/ HistoryType',
           events' = events \/ Event
    PROVE  TypeOK'
  <1>1. AccountType' /\ ClientType' /\ StoreType' /\ FreshType'
    BY TypeFrame
  <1>2. LockType' /\ CallType' /\ UserType' /\ StreamType' /\ HistoryType' /\ EventType'
    BY TypeFrame
  <1> QED
    BY <1>1, <1>2, TypePartsPrimed

\* A step that leaves the families alone.
LEMMA NoGrowth ==
    ASSUME TypeOK, family' = family
    PROVE  Grows /\ Steady /\ Token' = Token /\ Held' = Held
  <1>1. family \in Seq(Nat)
    BY DEF TypeOK
  <1>2. Len(family) \in Nat
    BY <1>1
  <1> QED
    BY <1>1, <1>2 DEF Grows, Steady, Token, Held

\* The steps of the event stream keep the type invariant.
LEMMA StreamTypes ==
    ASSUME TypeOK, NEW flag \in BOOLEAN,
           StartStream \/ Connect \/ Wait \/ Cancel \/ Break(flag)
    PROVE  TypeOK'
  <1>1. /\ family' = family /\ chosen' = chosen /\ password' = password /\ blob' = blob
        /\ client' = client /\ store' = store /\ fresh' = fresh /\ refreshMu' = refreshMu
        /\ refresh' = refresh /\ user' = user /\ torn' = torn /\ tripped' = tripped
        /\ out' = out /\ cause' = cause
    BY DEF StartStream, Connect, Wait, Cancel, Break, server, device, history
  <1>2. events' = events \/ Event
    BY DEF StartStream, Connect, Wait, Cancel, Break
  <1>3. StreamType
    BY TypeParts
  <1>4. StreamType'
    <2>1. CASE StartStream \/ Cancel
      BY <2>1 DEF StartStream, Cancel, NoStream, StreamType
    <2>2. CASE Connect
      BY <1>3, <2>2 DEF Connect, Streams, StreamType
    <2>3. CASE Wait \/ Break(flag)
      <3>1. stream.backoff \in Nat \ {0} /\ 2 * stream.backoff \in Nat \ {0}
        BY <1>3 DEF StreamType
      <3> QED
        BY <2>3, <3>1 DEF Wait, Break, StreamType
    <2> QED
      BY <2>1, <2>2, <2>3
  <1>5. Grows
    BY <1>1, NoGrowth
  <1> QED
    BY <1>1, <1>2, <1>4, <1>5, TypeStep

\* So do other devices, time and an upload.
LEMMA OtherTypes ==
    ASSUME TypeOK, OtherPush \/ ResetPassword \/ Expire \/ PushIdentities
    PROVE  TypeOK'
  <1>1. AccountType /\ ClientType /\ StoreType /\ HistoryType
    BY TypeParts
  <1>2. CASE OtherPush
    <2>1. AccountType'
      BY <1>1, <1>2 DEF OtherPush, AccountType
    <2>2. HistoryType'
      BY <1>1, <1>2 DEF OtherPush, HistoryType
    <2> QED
      BY <1>2, <2>1, <2>2, NoGrowth, TypeStep DEF OtherPush, device
  <1>3. CASE ResetPassword
    <2>1. Grows
      BY <1>1, <1>3, Families DEF ResetPassword, AccountType, Grows
    <2>2. AccountType'
      BY <1>1, <1>3, <2>1 DEF ResetPassword, AccountType, Grows
    <2>3. HistoryType'
      BY <1>1, <1>3 DEF ResetPassword, HistoryType
    <2> QED
      BY <1>3, <2>1, <2>2, <2>3, TypeStep DEF ResetPassword, device
  <1>4. CASE Expire
    <2>1. FreshType'
      BY <1>4 DEF Expire, FreshType
    <2> QED
      BY <1>4, <2>1, NoGrowth, TypeStep DEF Expire, device, server, history
  <1>5. CASE PushIdentities
    <2>1. client.encKey \in 0..chosen /\ store.encKey \in 0..chosen /\ 0 \in 0..chosen
      BY <1>1 DEF ClientType, StoreType, AccountType
    <2>2. AccountType'
      BY <1>1, <1>5, <2>1 DEF PushIdentities, AccountType
    <2>3. HistoryType'
      BY <1>1, <1>5 DEF PushIdentities, HistoryType
    <2> QED
      BY <1>5, <2>2, <2>3, NoGrowth, TypeStep DEF PushIdentities, device
  <1> QED
    BY <1>2, <1>3, <1>4, <1>5

\* So does a restart.
LEMMA RestartTypes == TypeOK /\ Restart => TypeOK'
  <1> SUFFICES ASSUME TypeOK, Restart PROVE TypeOK'
    OBVIOUS
  <1>1. AccountType /\ ClientType /\ StoreType /\ HistoryType
    BY TypeParts
  <1>2. family' = family /\ chosen' = chosen
    BY DEF Restart, server
  <1>3. Held' = Held /\ NoTokens \in Held /\ chosen \in Nat /\ 0 \in 0..chosen
    BY <1>1, <1>2, NoGrowth DEF Held, AccountType
  <1>4. ClientType'
    BY <1>1, <1>2, <1>3 DEF Restart, ClientType, StoreType
  <1>5. LockType'
    BY SessionAssumption DEF Restart, LockType, NoCall, Busy
  <1>6. CallType'
    BY <1>3 DEF Restart, CallType, NoCall
  <1>7. UserType'
    BY <1>2, <1>3 DEF Restart, UserType, NoUser
  <1>8. StreamType'
    BY DEF Restart, StreamType, NoStream
  <1>9. HistoryType'
    BY <1>1 DEF Restart, HistoryType, Refreshing
  <1>10. Grows
    BY <1>2, NoGrowth
  <1> QED
    BY <1>2, <1>4, <1>5, <1>6, <1>7, <1>8, <1>9, <1>10, TypeStep DEF Restart, server


-----------------------------------------------------------------------------
(* Refresh.                                                                 *)

\* A call of the holder of the lock that goes on.
LEMMA HolderGoesOn ==
    ASSUME TypeOK, NEW c \in Caller, NEW call,
           call \in [pc : {"post", "answer", "save"}, tokens : Held', email : BOOLEAN],
           refreshMu = c, refreshMu' = c, Call(c, call), Held \subseteq Held'
    PROVE  LockType' /\ CallType'
  <1>1. LockType /\ CallType
    BY TypeParts
  <1>2. \A d \in Caller : refresh'[d] = IF d = c THEN call ELSE refresh[d]
    BY <1>1 DEF Call, CallType
  <1>3. DOMAIN refresh' = Caller /\ refresh' = [d \in Caller |-> refresh'[d]]
    BY <1>1 DEF Call, CallType
  <1>4. LockType'
    BY <1>1, <1>2 DEF LockType, Busy
  <1>5. \A d \in Caller : refresh'[d] \in [pc : {"idle", "post", "answer", "save", "ok", "err"},
                                          tokens : Held', email : BOOLEAN]
    BY <1>1, <1>2 DEF CallType
  <1>6. CallType'
    BY <1>3, <1>5 DEF CallType
  <1> QED
    BY <1>4, <1>6

\* A call that ends and, when it holds the lock, releases it.
LEMMA HolderEnds ==
    ASSUME TypeOK, NEW c \in Caller, NEW ok \in BOOLEAN, refreshMu = c, Unlock(c, ok),
           Held \subseteq Held'
    PROVE  /\ LockType' /\ CallType'
           /\ \A d \in Caller : ~Busy(d)'
           /\ \A d \in Caller : refresh'[d].tokens \in {NoTokens, refresh[d].tokens}
           /\ \A d \in Caller : refresh'[d].pc \in {"idle", "ok", "err"}
  <1>1. LockType /\ CallType
    BY TypeParts
  <1>2. PICK call : call = [NoCall EXCEPT !.pc = IF c # Stream THEN "idle" ELSE IF ok THEN "ok" ELSE "err"]
    OBVIOUS
  <1>3. /\ call \in [pc : {"idle", "ok", "err"}, tokens : Held', email : BOOLEAN]
        /\ call.tokens = NoTokens
    BY <1>2 DEF NoCall, Held
  <1>4. refresh' = [refresh EXCEPT ![c] = call] /\ refreshMu' = "none"
    BY <1>2 DEF Unlock, Call
  <1>5. \A d \in Caller : refresh'[d] = IF d = c THEN call ELSE refresh[d]
    BY <1>1, <1>4 DEF CallType
  <1>6. DOMAIN refresh' = Caller /\ refresh' = [d \in Caller |-> refresh'[d]]
    BY <1>1, <1>4 DEF CallType
  <1>7. \A d \in Caller : d # c => ~Busy(d)
    BY <1>1 DEF LockType
  <1>8. \A d \in Caller : refresh'[d].pc \in {"idle", "ok", "err"}
    BY <1>1, <1>3, <1>5, <1>7 DEF Busy, CallType
  <1>9. \A d \in Caller : ~Busy(d)'
    BY <1>8 DEF Busy
  <1>10. LockType'
    BY <1>4, <1>9, SessionAssumption DEF LockType
  <1>11. \A d \in Caller : refresh'[d] \in [pc : {"idle", "post", "answer", "save", "ok", "err"},
                                          tokens : Held', email : BOOLEAN]
    BY <1>1, <1>3, <1>5 DEF CallType
  <1>12. CallType'
    BY <1>6, <1>11 DEF CallType
  <1>13. \A d \in Caller : refresh'[d].tokens \in {NoTokens, refresh[d].tokens}
    BY <1>3, <1>5
  <1> QED
    BY <1>8, <1>9, <1>10, <1>12, <1>13

\* Acquire keeps the type invariant.
LEMMA AcquireTypes ==
    ASSUME TypeOK, NEW c \in Caller, Acquire(c)
    PROVE  TypeOK'
  <1>1. LockType /\ CallType /\ ClientType
    BY TypeParts
  <1>2. family' = family /\ chosen' = chosen /\ refreshMu' = c /\ refreshMu = "none"
    BY DEF Acquire, server
  <1>3. Held' = Held /\ Grows
    BY <1>2, NoGrowth
  <1>4. PICK call : call = [NoCall EXCEPT !.pc = "post", !.tokens = client.tokens]
    OBVIOUS
  <1>5. call = [pc |-> "post", tokens |-> client.tokens, email |-> FALSE]
    BY <1>4 DEF NoCall
  <1>6. \A d \in Caller : refresh'[d] = IF d = c THEN call ELSE refresh[d]
    BY <1>1, <1>4 DEF CallType, Acquire, Call
  <1>7. DOMAIN refresh' = Caller /\ refresh' = [d \in Caller |-> refresh'[d]]
    BY <1>1 DEF CallType, Acquire, Call
  <1>8. \A d \in Caller : ~Busy(d)
    BY <1>1, <1>2, SessionAssumption DEF LockType
  <1>9. LockType'
    BY <1>2, <1>5, <1>6, <1>8 DEF LockType, Busy
  <1>10. call \in [pc : {"idle", "post", "answer", "save", "ok", "err"}, tokens : Held', email : BOOLEAN]
    BY <1>1, <1>3, <1>5 DEF ClientType
  <1>11. \A d \in Caller : refresh'[d] \in [pc : {"idle", "post", "answer", "save", "ok", "err"},
                                          tokens : Held', email : BOOLEAN]
    BY <1>1, <1>3, <1>6, <1>10 DEF CallType
  <1>12. CallType'
    BY <1>7, <1>11 DEF CallType
  <1> QED
    BY <1>2, <1>3, <1>9, <1>12, TypeStep DEF Acquire, server, history

\* Install keeps the type invariant.
LEMMA InstallTypes ==
    ASSUME TypeOK, NEW c \in Caller, Install(c)
    PROVE  TypeOK'
  <1>1. LockType /\ CallType /\ ClientType /\ HistoryType
    BY TypeParts
  <1>2. family' = family /\ chosen' = chosen /\ refreshMu' = refreshMu /\ refreshMu = c
    BY <1>1 DEF Install, server, LockType, Busy
  <1>3. Held' = Held /\ Grows
    BY <1>2, NoGrowth
  <1>4. PICK call : call = [refresh[c] EXCEPT !.pc = "save", !.email = client.email]
    OBVIOUS
  <1>5. call = [pc |-> "save", tokens |-> refresh[c].tokens, email |-> client.email]
    BY <1>1, <1>4 DEF CallType
  <1>6. call \in [pc : {"post", "answer", "save"}, tokens : Held', email : BOOLEAN]
    BY <1>1, <1>3, <1>5 DEF CallType, ClientType
  <1>7. Call(c, call)
    BY <1>4 DEF Install
  <1>8. LockType' /\ CallType'
    BY <1>2, <1>3, <1>6, <1>7, HolderGoesOn
  <1>9. ClientType'
    BY <1>1, <1>2, <1>3 DEF Install, ClientType, CallType
  <1>10. HistoryType'
    BY <1>1 DEF Install, HistoryType
  <1> QED
    BY <1>2, <1>3, <1>8, <1>9, <1>10, TypeStep DEF Install, server

\* SaveTokens stores what a store may hold.
LEMMA StoreSaved ==
    ASSUME TypeOK, NEW t \in Held, NEW email \in BOOLEAN, NEW wrote \in Outcome,
           family' = family, chosen' = chosen, store' = Saved(t, email, wrote)
    PROVE  StoreType'
  <1>1. StoreType
    BY TypeParts
  <1>2. Held' = Held
    BY NoGrowth
  <1> QED
    BY <1>1, <1>2 DEF StoreType, Saved, Outcome

\* Save keeps the type invariant.
LEMMA SaveTypes ==
    ASSUME TypeOK, NEW c \in Caller, NEW wrote \in Outcome, Save(c, wrote)
    PROVE  TypeOK'
  <1>1. LockType /\ CallType /\ HistoryType
    BY TypeParts
  <1>2. family' = family /\ chosen' = chosen /\ refreshMu = c
    BY <1>1 DEF Save, server, LockType, Busy
  <1>3. Held' = Held /\ Grows
    BY <1>2, NoGrowth
  <1>4. LockType' /\ CallType'
    BY <1>2, <1>3, HolderEnds DEF Save
  <1>5. refresh[c].tokens \in Held /\ refresh[c].email \in BOOLEAN
    BY <1>1 DEF CallType
  <1>6. StoreType'
    BY <1>2, <1>5, StoreSaved DEF Save
  <1>7. HistoryType'
    BY <1>1 DEF HistoryType, Save, SaveOutcome
  <1>8. events' = events \/ Event
    BY DEF Save, SaveOutcome
  <1> QED
    BY <1>2, <1>3, <1>4, <1>6, <1>7, <1>8, TypeStep DEF Save, server

\* RefreshFails keeps the type invariant.
LEMMA RefreshFailsTypes ==
    ASSUME TypeOK, NEW c \in Caller, RefreshFails(c)
    PROVE  TypeOK'
  <1>1. LockType /\ CallType /\ HistoryType
    BY TypeParts
  <1>2. family' = family /\ chosen' = chosen /\ refreshMu = c
    BY <1>1 DEF RefreshFails, server, LockType, Busy
  <1>3. Held' = Held /\ Grows
    BY <1>2, NoGrowth
  <1>4. LockType' /\ CallType'
    BY <1>2, <1>3, HolderEnds DEF RefreshFails
  <1>5. HistoryType'
    BY <1>1 DEF HistoryType, RefreshFails
  <1> QED
    BY <1>2, <1>3, <1>4, <1>5, TypeStep DEF RefreshFails, server

\* BeforeConnect keeps the type invariant.
LEMMA BeforeConnectTypes == TypeOK /\ BeforeConnect => TypeOK'
  <1> SUFFICES ASSUME TypeOK, BeforeConnect PROVE TypeOK'
    OBVIOUS
  <1>1. LockType /\ CallType /\ StreamType
    BY TypeParts
  <1>2. family' = family /\ chosen' = chosen
    BY DEF BeforeConnect, server
  <1>3. Held' = Held /\ Grows /\ NoTokens \in Held
    BY <1>2, NoGrowth DEF Held
  <1>4. StreamType'
    BY <1>1 DEF BeforeConnect, Streams, StreamType
  <1>5. CASE refresh' = refresh
    BY <1>2, <1>3, <1>4, <1>5, TypeStep DEF BeforeConnect, server, history
  <1>6. CASE refresh[Stream].pc \in {"ok", "err"} /\ Call(Stream, NoCall)
    <2>1. \A d \in Caller : refresh'[d] = IF d = Stream THEN NoCall ELSE refresh[d]
      BY <1>1, <1>6 DEF CallType, Call
    <2>2. DOMAIN refresh' = Caller /\ refresh' = [d \in Caller |-> refresh'[d]]
      BY <1>1, <1>6 DEF CallType, Call
    <2>3. refreshMu' = refreshMu
      BY DEF BeforeConnect
    <2>4. LockType'
      BY <1>1, <1>6, <2>1, <2>3 DEF LockType, Busy, NoCall
    <2>. NoCall \in [pc : {"idle", "post", "answer", "save", "ok", "err"},
                     tokens : Held', email : BOOLEAN]
      BY <1>3 DEF NoCall
    <2>5. \A d \in Caller : refresh'[d] \in [pc : {"idle", "post", "answer", "save", "ok", "err"},
                                            tokens : Held', email : BOOLEAN]
      BY <1>1, <1>3, <2>1 DEF CallType
    <2>6. CallType'
      BY <2>2, <2>5 DEF CallType
    <2> QED
      BY <1>2, <1>3, <1>4, <2>4, <2>6, TypeStep DEF BeforeConnect, server, history
  <1> QED
    BY <1>5, <1>6 DEF BeforeConnect

\* The tokens Post sends; rotated, or refused.
LEMMA PostFacts ==
    ASSUME TypeOK, CallOK, NEW c \in Caller, Post(c), NEW t, t = refresh[c].tokens
    PROVE  /\ refreshMu = c
           /\ t \in Token /\ t.fam \in 1..Len(family) /\ t.gen \in Nat \ {0}
           /\ family \in Seq(Nat) /\ Len(family) \in Nat
           /\ \/ /\ family[t.fam] = t.gen
                 /\ family' = [family EXCEPT ![t.fam] = t.gen + 1]
                 /\ fresh' = fresh \cup {[fam |-> t.fam, gen |-> t.gen + 1]}
                 /\ Call(c, [pc |-> "answer", tokens |-> [fam |-> t.fam, gen |-> t.gen + 1],
                             email |-> refresh[c].email])
                 /\ refreshMu' = refreshMu /\ tripped' = tripped
              \/ /\ family[t.fam] # t.gen
                 /\ family' = [family EXCEPT ![t.fam] = 0]
                 /\ tripped' = (tripped \/ family[t.fam] # 0)
                 /\ Unlock(c, FALSE)
                 /\ fresh' = fresh
  <1>1. LockType /\ CallType /\ AccountType
    BY TypeParts
  <1>2. refresh[c].pc = "post" /\ Busy(c)
    BY DEF Post, Busy
  <1>3. refreshMu = c
    BY <1>1, <1>2 DEF LockType
  <1>4. t \in Token
    BY <1>2 DEF CallOK
  <1>5. t.fam \in 1..Len(family) /\ t.gen \in Nat \ {0} /\ t = [fam |-> t.fam, gen |-> t.gen]
    BY <1>4 DEF Token
  <1>6. family \in Seq(Nat) /\ Len(family) \in Nat
    BY <1>1 DEF AccountType
  <1>7. PICK n : n = [t EXCEPT !.gen = t.gen + 1]
    OBVIOUS
  <1>8. n = [fam |-> t.fam, gen |-> t.gen + 1]
    BY <1>5, <1>7
  <1>9. PICK call : call = [refresh[c] EXCEPT !.pc = "answer", !.tokens = n]
    OBVIOUS
  <1>10. call = [pc |-> "answer", tokens |-> n, email |-> refresh[c].email]
    BY <1>1, <1>9 DEF CallType
  <1>11. IF Alive(t)
         THEN /\ family' = [family EXCEPT ![t.fam] = n.gen]
              /\ fresh' = fresh \cup {n}
              /\ Call(c, call)
              /\ refreshMu' = refreshMu /\ tripped' = tripped
         ELSE /\ family' = [family EXCEPT ![t.fam] = 0]
              /\ tripped' = (tripped \/ family[t.fam] # 0)
              /\ Unlock(c, FALSE)
              /\ fresh' = fresh
    BY <1>7, <1>9 DEF Post
  <1>12. t # NoTokens
    BY <1>5, <1>6, SessionAssumption
  <1> QED
    BY <1>3, <1>4, <1>5, <1>6, <1>8, <1>10, <1>11, <1>12 DEF Alive


\* Post keeps the type invariant.
LEMMA PostTypes ==
    ASSUME TypeOK, CallOK, NEW c \in Caller, Post(c)
    PROVE  TypeOK' /\ Grows
  <1>1. LockType /\ CallType /\ HistoryType /\ FreshType
    BY TypeParts
  <1>2. PICK t : t = refresh[c].tokens
    OBVIOUS
  <1>3. /\ refreshMu = c /\ t \in Token /\ t.fam \in 1..Len(family) /\ t.gen \in Nat \ {0}
        /\ family \in Seq(Nat) /\ Len(family) \in Nat
    BY <1>2, PostFacts
  <1>4. PICK g \in Nat : family' = [family EXCEPT ![t.fam] = g]
    <2>1. \/ family' = [family EXCEPT ![t.fam] = t.gen + 1]
          \/ family' = [family EXCEPT ![t.fam] = 0]
      BY <1>2, PostFacts
    <2>2. t.gen + 1 \in Nat /\ 0 \in Nat
      BY <1>3
    <2> QED
      BY <2>1, <2>2, Zenon
  <1>5. Grows /\ Len(family') = Len(family)
    <2>1. family' \in Seq(Nat) /\ Len(family') = Len(family)
      BY <1>3, <1>4, ExceptSeq
    <2> QED
      BY <1>3, <2>1 DEF Grows
  <1>6. Token \subseteq Token' /\ Held \subseteq Held' /\ Token' = Token
    BY <1>3, <1>5, Grown DEF Grows, Token
  <1>7. CASE family[t.fam] = t.gen
    <2>1. PICK n : n = [fam |-> t.fam, gen |-> t.gen + 1]
      OBVIOUS
    <2>2. n \in Token'
      BY <1>3, <1>6, <2>1 DEF Token
    <2>3. /\ fresh' = fresh \cup {n} /\ refreshMu' = refreshMu /\ tripped' = tripped
          /\ Call(c, [pc |-> "answer", tokens |-> n, email |-> refresh[c].email])
      BY <1>2, <1>7, <2>1, PostFacts
    <2>4. FreshType'
      BY <1>1, <1>6, <2>2, <2>3 DEF FreshType
    <2>5. [pc |-> "answer", tokens |-> n, email |-> refresh[c].email]
              \in [pc : {"post", "answer", "save"}, tokens : Held', email : BOOLEAN]
      BY <1>1, <2>2 DEF CallType, Held
    <2>6. LockType' /\ CallType'
      BY <1>3, <1>6, <2>3, <2>5, HolderGoesOn
    <2> QED
      BY <1>5, <2>3, <2>4, <2>6, TypeStep DEF Post
  <1>8. CASE family[t.fam] # t.gen
    <2>1. fresh' = fresh /\ Unlock(c, FALSE) /\ tripped' = (tripped \/ family[t.fam] # 0)
      BY <1>2, <1>8, PostFacts
    <2>2. LockType' /\ CallType'
      BY <1>3, <1>6, <2>1, HolderEnds
    <2>3. HistoryType'
      BY <1>1, <2>1 DEF HistoryType, Post
    <2> QED
      BY <1>5, <2>1, <2>2, <2>3, TypeStep DEF Post
  <1> QED
    BY <1>7, <1>8

-----------------------------------------------------------------------------
(* The user's calls.                                                        *)

\* Then leaves the other variables of the call alone.
LEMMA ThenType ==
    ASSUME TypeOK, user.steps \in Shape, user.steps # <<>>
    PROVE  /\ Then = [steps |-> Tail(user.steps), tokens |-> user.tokens, key |-> user.key,
                      email |-> user.email]
           /\ Then \in [steps : Seq(Steps), tokens : Held, key : 0..chosen, email : BOOLEAN]
  <1>1. UserType
    BY TypeParts
  <1>2. Tail(user.steps) \in Seq(Steps)
    BY StepsLeft, ShapeSeq
  <1>3. Then = [steps |-> Tail(user.steps), tokens |-> user.tokens, key |-> user.key,
                email |-> user.email]
    <2>1. user = [steps |-> user.steps, tokens |-> user.tokens, key |-> user.key,
                  email |-> user.email]
      BY <1>1 DEF UserType
    <2>2. PICK left : left = Tail(user.steps)
      OBVIOUS
    <2>3. Then = [user EXCEPT !.steps = left]
      BY <2>2 DEF Then
    <2> QED
      BY <2>1, <2>2, <2>3
  <1> QED
    BY <1>1, <1>2, <1>3 DEF UserType

\* The token of a new family.
LEMMA IssuedType ==
    ASSUME TypeOK, family' = Append(family, 1)
    PROVE  /\ Grows /\ Steady /\ Issued \in Token' /\ Issued \in Held'
           /\ Issued.fam = Len(family) + 1 /\ Issued.gen = 1 /\ family'[Issued.fam] = 1
           /\ \A t \in Token : t.fam # Issued.fam
  <1>1. family \in Seq(Nat)
    BY DEF TypeOK
  <1>2. Len(family) \in Nat
    BY <1>1
  <1>3. Grows /\ Steady /\ Len(family') = Len(family) + 1 /\ family'[Len(family) + 1] = 1
    BY <1>1, <1>2, Families DEF Grows, Steady
  <1>4. Issued \in Token'
    BY <1>2, <1>3 DEF Issued, Token
  <1>5. Issued.fam = Len(family) + 1 /\ Issued.gen = 1
    BY DEF Issued
  <1>6. \A t \in Token : t.fam # Issued.fam
    BY <1>2, <1>5 DEF Token
  <1> QED
    BY <1>3, <1>4, <1>5, <1>6 DEF Held

\* Ending every family.
LEMMA AllEndedType ==
    ASSUME TypeOK, family' = AllEnded
    PROVE  Grows /\ Steady
  <1>1. family \in Seq(Nat)
    BY DEF TypeOK
  <1> QED
    BY <1>1, Families DEF Grows, Steady

\* LogIn keeps the type invariant.
LEMMA LogInTypes ==
    ASSUME TypeOK, UserOK, NEW flag \in BOOLEAN, LogIn(flag)
    PROVE  TypeOK' /\ Steady
  <1>1. ClientType /\ AccountType /\ FreshType /\ UserType
    BY TypeParts
  <1>2. chosen' = chosen /\ chosen \in Nat /\ 0 \in 0..chosen /\ out' = SignedIn
    BY <1>1 DEF LogIn, AccountType
  <1>3. LogInSteps(flag) \in Seq(Steps)
    BY LogInShapes, ShapeSeq DEF Shape, Unissued, Issuing
  <1>4. HistoryType'
    BY TypeParts DEF LogIn, HistoryType, SignedIn
  <1>5. events' = events \/ Event
    BY DEF LogIn
  <1>6. PICK u : u = IF flag THEN NoTokens ELSE Issued
    OBVIOUS
  <1>7. user' = [steps |-> LogInSteps(flag), tokens |-> u, key |-> 0, email |-> FALSE]
    BY <1>6 DEF LogIn, NoUser
  <1>8. Grows /\ Steady /\ Held \subseteq Held' /\ FreshType' /\ u \in Held'
    <2>1. CASE flag
      BY <1>1, <1>6, <2>1, NoGrowth DEF LogIn, FreshType, Held
    <2>2. CASE ~flag
      <3>1. family' = Append(family, 1) /\ fresh' = fresh \cup {Issued} /\ u = Issued
        BY <1>6, <2>2 DEF LogIn
      <3>2. Grows /\ Steady /\ Issued \in Token' /\ Issued \in Held'
        BY <3>1, IssuedType
      <3>3. Token \subseteq Token' /\ Held \subseteq Held'
        BY <1>1, <3>2, SteadyTokens DEF AccountType
      <3> QED
        BY <1>1, <3>1, <3>2, <3>3 DEF FreshType
    <2> QED
      BY <2>1, <2>2
  <1>9. UserType'
    BY <1>2, <1>3, <1>7, <1>8 DEF UserType
  <1>10. ClientType'
    BY <1>1, <1>2, <1>8 DEF LogIn, ClientType, AccountType
  <1> QED
    BY <1>2, <1>4, <1>5, <1>8, <1>9, <1>10, TypeStep DEF LogIn

\* SecondFactor and ConfirmSignUp.
LEMMA IssueTypes ==
    ASSUME TypeOK, UserOK, SecondFactor \/ ConfirmSignUp
    PROVE  /\ TypeOK' /\ Steady /\ user'.tokens = Issued /\ user'.steps = Tail(user.steps)
           /\ user.steps # <<>>
  <1>1. ClientType /\ AccountType /\ FreshType /\ UserType
    BY TypeParts
  <1>2. chosen' = chosen /\ family' = Append(family, 1) /\ fresh' = fresh \cup {Issued}
    BY DEF SecondFactor, ConfirmSignUp
  <1>3. Grows /\ Steady /\ Issued \in Token' /\ Issued \in Held'
    BY <1>2, IssuedType
  <1>4. Token \subseteq Token' /\ Held \subseteq Held'
    BY <1>1, <1>3, SteadyTokens DEF AccountType
  <1>5. user.steps \in Shape /\ user.steps # <<>>
    BY DEF UserOK, SecondFactor, ConfirmSignUp, Doing
  <1>6. PICK u : u = Then
    OBVIOUS
  <1>7. /\ u = [steps |-> Tail(user.steps), tokens |-> user.tokens, key |-> user.key,
                email |-> user.email]
        /\ u \in [steps : Seq(Steps), tokens : Held, key : 0..chosen, email : BOOLEAN]
    BY <1>5, <1>6, ThenType
  <1>8. user' = [u EXCEPT !.tokens = Issued]
    BY <1>6 DEF SecondFactor, ConfirmSignUp
  <1>9. user' = [steps |-> Tail(user.steps), tokens |-> Issued, key |-> user.key,
                 email |-> user.email]
    BY <1>7, <1>8
  <1>10. UserType'
    BY <1>1, <1>2, <1>3, <1>7, <1>9 DEF UserType
  <1>11. FreshType'
    BY <1>1, <1>2, <1>3, <1>4 DEF FreshType
  <1>12. CASE SecondFactor
    BY <1>2, <1>3, <1>5, <1>9, <1>10, <1>11, <1>12, TypeStep DEF SecondFactor, history
  <1>13. CASE ConfirmSignUp
    <2>1. AccountType'
      BY <1>1, <1>2, <1>3, <1>13 DEF AccountType, ClientType, ConfirmSignUp, Grows
    <2> QED
      BY <1>2, <1>3, <1>5, <1>9, <1>10, <1>11, <1>13, <2>1, TypeStep DEF ConfirmSignUp, history
  <1> QED
    BY <1>12, <1>13


\* Calls that begin, and what UserFails leaves.
LEMMA BeginTypes ==
    ASSUME TypeOK, NEW k \in 0..chosen', NEW s \in Shape, Grows, chosen' \in {chosen, chosen + 1},
           user' = [NoUser EXCEPT !.steps = s, !.key = k]
    PROVE  UserType'
  <1>1. user' = [steps |-> s, tokens |-> NoTokens, key |-> k, email |-> FALSE]
    BY DEF NoUser
  <1>2. s \in Seq(Steps) /\ NoTokens \in Held'
    BY ShapeSeq DEF Held
  <1>3. [steps |-> s, tokens |-> NoTokens, key |-> k, email |-> FALSE]
            \in [steps : Seq(Steps), tokens : Held', key : 0..chosen', email : BOOLEAN]
    BY <1>2
  <1> QED
    BY <1>1, <1>3 DEF UserType

\* A call begins without a key, or there is no call.
LEMMA Beginning ==
    ASSUME NEW s
    PROVE  /\ [NoUser EXCEPT !.steps = s] = [NoUser EXCEPT !.steps = s, !.key = 0]
           /\ NoUser = [NoUser EXCEPT !.steps = <<>>, !.key = 0]
  <1>1. PICK u : u = [NoUser EXCEPT !.steps = s, !.key = 0]
    OBVIOUS
  <1>2. u = [steps |-> s, tokens |-> NoTokens, key |-> 0, email |-> FALSE]
    BY <1>1 DEF NoUser
  <1>3. PICK w : w = [NoUser EXCEPT !.steps = s]
    OBVIOUS
  <1>6. w = [steps |-> s, tokens |-> NoTokens, key |-> 0, email |-> FALSE]
    BY <1>3 DEF NoUser
  <1>4. PICK v : v = [NoUser EXCEPT !.steps = <<>>, !.key = 0]
    OBVIOUS
  <1>5. v = [steps |-> <<>>, tokens |-> NoTokens, key |-> 0, email |-> FALSE]
    BY <1>4 DEF NoUser
  <1> QED
    BY <1>1, <1>2, <1>3, <1>4, <1>5, <1>6 DEF NoUser

\* SignUp keeps the type invariant.
LEMMA SignUpTypes == TypeOK /\ SignUp => TypeOK'
  <1> SUFFICES ASSUME TypeOK, SignUp PROVE TypeOK'
    OBVIOUS
  <1>1. ClientType /\ AccountType /\ HistoryType
    BY TypeParts
  <1>2. /\ chosen' = chosen + 1 /\ chosen \in Nat /\ 0 \in 0..chosen' /\ chosen + 1 \in 0..chosen'
        /\ family' = family
    BY <1>1 DEF SignUp, AccountType, server
  <1>3. Grows /\ Held' = Held
    BY <1>2, NoGrowth
  <1>4. UserType'
    BY <1>2, <1>3, BeginTypes, Beginning DEF SignUp, Shape, Unissued, Confirm
  <1>5. ClientType'
    BY <1>1, <1>2, <1>3 DEF SignUp, ClientType
  <1>6. HistoryType'
    BY <1>1 DEF SignUp, HistoryType, SignedIn
  <1> QED
    BY <1>2, <1>3, <1>4, <1>5, <1>6, TypeStep DEF SignUp, server

\* ChangePassword keeps the type invariant.
LEMMA ChangePasswordTypes ==
    ASSUME TypeOK, NEW flag \in BOOLEAN, ChangePassword(flag)
    PROVE  /\ TypeOK'
           /\ user'.steps = IF flag THEN WrapFirst ELSE Changes
           /\ user'.key = chosen + 1
  <1>1. AccountType
    BY TypeParts
  <1>2. chosen' = chosen + 1 /\ chosen \in Nat /\ chosen + 1 \in 0..chosen' /\ family' = family
    BY <1>1 DEF ChangePassword, AccountType, server
  <1>3. Grows
    BY <1>2, NoGrowth
  <1>4. PICK s : s = IF flag THEN WrapFirst ELSE Changes
    OBVIOUS
  <1>5. s = (IF flag THEN <<"rewrap">> ELSE <<>>) \o <<"change", "login">>
    BY <1>4, ChangeShapes
  <1>6. user' = [NoUser EXCEPT !.steps = s, !.key = chosen + 1]
    BY <1>5 DEF ChangePassword
  <1>7. s \in Shape
    BY <1>4 DEF Shape, Changing
  <1>8. UserType'
    BY <1>2, <1>3, <1>6, <1>7, BeginTypes
  <1>9. user'.steps = s /\ user'.key = chosen + 1
    BY <1>6 DEF NoUser
  <1> QED
    BY <1>2, <1>3, <1>4, <1>8, <1>9, TypeStep DEF ChangePassword, server, history

\* An accepted token is a token; ending its family.
LEMMA AcceptedToken ==
    ASSUME TypeOK, Accepted(client.tokens)
    PROVE  client.tokens \in Token /\ family # <<>>
  <1>1. ClientType /\ AccountType
    BY TypeParts
  <1>2. client.tokens \in Token
    BY <1>1 DEF ClientType, Held, Accepted
  <1> QED
    BY <1>1, <1>2 DEF Token, AccountType

\* LogOut and RequestAccountDeletion.
LEMMA LeaveTypes ==
    ASSUME TypeOK, NEW flag \in BOOLEAN, LogOut(flag) \/ RequestAccountDeletion
    PROVE  TypeOK' /\ Steady /\ user'.steps = Clear1 /\ (family = <<>> => family' = family)
  <1>1. AccountType /\ ClientType /\ HistoryType
    BY TypeParts
  <1>2. family \in Seq(Nat) /\ Len(family) \in Nat /\ chosen' = chosen /\ 0 \in 0..chosen'
    BY <1>1 DEF AccountType, LogOut, RequestAccountDeletion
  <1>3. Grows /\ Steady /\ (family = <<>> => family' = family)
    <2>1. CASE family' = family
      BY <2>1, NoGrowth
    <2>2. CASE family' = AllEnded /\ Accepted(client.tokens)
      BY <2>2, AllEndedType, AcceptedToken
    <2>3. CASE Accepted(client.tokens) /\ family' = [family EXCEPT ![client.tokens.fam] = 0]
      <3>1. client.tokens \in Token /\ family # <<>>
        BY <2>3, AcceptedToken
      <3>2. client.tokens.fam \in 1..Len(family)
        BY <3>1 DEF Token
      <3>3. /\ family' \in Seq(Nat) /\ Len(family') = Len(family)
            /\ \A j \in 1..Len(family) : family'[j] = IF j = client.tokens.fam THEN 0 ELSE family[j]
        BY <1>2, <2>3, <3>2, ExceptSeq
      <3> QED
        BY <1>2, <3>1, <3>3 DEF Grows, Steady
    <2> QED
      BY <2>1, <2>2, <2>3 DEF LogOut, RequestAccountDeletion
  <1>4. user' = [NoUser EXCEPT !.steps = Clear1]
    BY DEF LogOut, RequestAccountDeletion, ClearSteps, Clear1
  <1>5. UserType'
    BY <1>2, <1>3, <1>4, BeginTypes, Beginning DEF Shape, Clearing
  <1>6. HistoryType'
    <2>1. Refreshing \in BOOLEAN /\ client.email \in BOOLEAN
      BY <1>1 DEF Refreshing, ClientType
    <2>2. /\ out' = [email |-> client.email, overlap |-> Refreshing, kept |-> {}, done |-> FALSE]
          /\ torn' = torn /\ tripped' = tripped /\ cause' = cause
      BY DEF LogOut, RequestAccountDeletion
    <2> QED
      BY <1>1, <2>1, <2>2 DEF HistoryType
  <1>7. user'.steps = Clear1
    BY <1>4 DEF NoUser
  <1> QED
    BY <1>2, <1>3, <1>5, <1>6, <1>7, TypeStep DEF LogOut, RequestAccountDeletion

\* UserFails keeps the type invariant.
LEMMA UserFailsTypes ==
    ASSUME TypeOK, NEW flag \in BOOLEAN, UserFails(flag)
    PROVE  TypeOK' /\ Steady /\ user'.steps = <<>>
  <1>1. AccountType /\ HistoryType /\ UserType
    BY TypeParts
  <1>2. chosen' = chosen /\ chosen \in Nat /\ 0 \in 0..chosen' /\ user' = NoUser
    BY <1>1 DEF UserFails, AccountType
  <1>3. Grows /\ Steady
    BY NoGrowth, AllEndedType DEF UserFails
  <1>4. UserType'
    BY <1>2, <1>3, BeginTypes, Beginning DEF Shape
  <1>5. AccountType'
    BY <1>1, <1>2, <1>3 DEF UserFails, AccountType, UserType, Grows
  <1>6. HistoryType'
    BY <1>1 DEF UserFails, HistoryType
  <1>7. user'.steps = <<>>
    BY <1>2 DEF NoUser
  <1> QED
    BY <1>2, <1>3, <1>4, <1>5, <1>6, <1>7, TypeStep DEF UserFails


\* A step of the user's call that leaves its other variables alone.
LEMMA ThenTypes ==
    ASSUME TypeOK, UserOK, user.steps # <<>>, user' = Then, Grows, chosen' = chosen
    PROVE  /\ UserType'
           /\ user'.steps = Tail(user.steps) /\ user'.tokens = user.tokens
           /\ user'.key = user.key /\ user'.email = user.email
  <1>1. user.steps \in Shape /\ family \in Seq(Nat)
    BY DEF UserOK, TypeOK
  <1>2. /\ Then = [steps |-> Tail(user.steps), tokens |-> user.tokens, key |-> user.key,
                   email |-> user.email]
        /\ Then \in [steps : Seq(Steps), tokens : Held, key : 0..chosen, email : BOOLEAN]
    BY <1>1, ThenType
  <1>3. Held \subseteq Held'
    BY <1>1, Grown DEF Grows
  <1>4. UserType'
    BY <1>2, <1>3 DEF UserType
  <1> QED
    BY <1>2, <1>4

\* PersistEncKey keeps the type invariant.
LEMMA PersistEncKeyTypes ==
    ASSUME TypeOK, UserOK, NEW flag \in BOOLEAN, PersistEncKey(flag)
    PROVE  TypeOK' /\ user'.steps = Tail(user.steps) /\ user'.tokens = user.tokens
  <1>1. ClientType /\ StoreType
    BY TypeParts
  <1>2. family' = family /\ chosen' = chosen /\ user.steps # <<>> /\ user' = Then
    BY DEF PersistEncKey, server, Doing
  <1>3. Grows /\ Held' = Held
    BY <1>2, NoGrowth
  <1>4. UserType' /\ user'.steps = Tail(user.steps) /\ user'.tokens = user.tokens
    BY <1>2, <1>3, ThenTypes
  <1>5. StoreType'
    BY <1>1, <1>2, <1>3 DEF PersistEncKey, StoreType, ClientType
  <1>6. events' = events \/ Event
    BY DEF PersistEncKey
  <1> QED
    BY <1>2, <1>3, <1>4, <1>5, <1>6, TypeStep DEF PersistEncKey, server, history

\* SetTokens keeps the type invariant.
LEMMA SetTokensTypes ==
    ASSUME TypeOK, UserOK, SetTokens
    PROVE  /\ TypeOK' /\ user'.steps = Tail(user.steps) /\ user'.tokens = user.tokens
           /\ client'.tokens = user.tokens
           /\ client'.email = client.email /\ client'.encKey = client.encKey
  <1>1. ClientType /\ UserType
    BY TypeParts
  <1>2. /\ family' = family /\ chosen' = chosen /\ user.steps # <<>> /\ user.steps \in Shape
        /\ user' = [Then EXCEPT !.email = client.email]
    BY DEF SetTokens, server, Doing, UserOK
  <1>3. Grows /\ Held' = Held
    BY <1>2, NoGrowth
  <1>4. PICK u : u = Then
    OBVIOUS
  <1>5. /\ u = [steps |-> Tail(user.steps), tokens |-> user.tokens, key |-> user.key,
                email |-> user.email]
        /\ u \in [steps : Seq(Steps), tokens : Held, key : 0..chosen, email : BOOLEAN]
    BY <1>2, <1>4, ThenType
  <1>6. user' = [steps |-> Tail(user.steps), tokens |-> user.tokens, key |-> user.key,
                 email |-> client.email]
    <2>1. user' = [u EXCEPT !.email = client.email]
      BY <1>2, <1>4
    <2> QED
      BY <1>5, <2>1
  <1>7. UserType'
    <2>1. client.email \in BOOLEAN
      BY <1>1 DEF ClientType
    <2>2. Tail(user.steps) \in Seq(Steps) /\ user.tokens \in Held /\ user.key \in 0..chosen
      <3>1. u.steps \in Seq(Steps) /\ u.tokens \in Held /\ u.key \in 0..chosen
        BY <1>5
      <3> QED
        BY <1>5, <3>1
    <2>3. [steps |-> Tail(user.steps), tokens |-> user.tokens, key |-> user.key,
           email |-> client.email]
              \in [steps : Seq(Steps), tokens : Held, key : 0..chosen, email : BOOLEAN]
      BY <2>1, <2>2
    <2> QED
      BY <1>2, <1>3, <1>6, <2>3 DEF UserType
  <1>8. /\ ClientType' /\ client'.tokens = user.tokens
        /\ client'.email = client.email /\ client'.encKey = client.encKey
    BY <1>1, <1>2, <1>3 DEF SetTokens, ClientType, UserType
  <1>9. user'.steps = Tail(user.steps) /\ user'.tokens = user.tokens
    BY <1>6
  <1> QED
    BY <1>2, <1>3, <1>7, <1>8, <1>9, TypeStep DEF SetTokens, server, history

\* SaveTokens keeps the type invariant.
LEMMA SaveTokensTypes ==
    ASSUME TypeOK, UserOK, NEW wrote \in Outcome, SaveTokens(wrote)
    PROVE  TypeOK' /\ user'.steps = Tail(user.steps) /\ user'.tokens = user.tokens
  <1>1. UserType /\ HistoryType
    BY TypeParts
  <1>2. family' = family /\ chosen' = chosen /\ user.steps # <<>> /\ user' = Then
    BY DEF SaveTokens, server, Doing
  <1>3. Grows
    BY <1>2, NoGrowth
  <1>4. UserType' /\ user'.steps = Tail(user.steps) /\ user'.tokens = user.tokens
    BY <1>2, <1>3, ThenTypes
  <1>5. user.tokens \in Held /\ user.email \in BOOLEAN
    BY <1>1 DEF UserType
  <1>6. StoreType'
    BY <1>2, <1>5, StoreSaved DEF SaveTokens
  <1>7. HistoryType'
    BY <1>1 DEF SaveTokens, SaveOutcome, HistoryType
  <1>8. events' = events \/ Event
    BY DEF SaveTokens, SaveOutcome
  <1> QED
    BY <1>2, <1>3, <1>4, <1>6, <1>7, <1>8, TypeStep DEF SaveTokens, server

\* The stores after a Clear that did not remove what is in kept, and its record.
KeyCleared(kept) ==
    [tokens |-> store.tokens, active |-> store.active,
     encKey |-> IF kept = {} THEN 0 ELSE store.encKey]

SessionCleared(kept) ==
    [tokens |-> IF "tokens" \in kept THEN store.tokens ELSE NoTokens,
     active |-> store.active /\ "active" \in kept, encKey |-> store.encKey]

Left(kept, done) ==
    out' = [email |-> out.email, overlap |-> out.overlap, kept |-> out.kept \cup kept,
            done |-> done]

\* What each of the four steps of ClearStep does.
LEMMA ClearStepCases ==
    ASSUME TypeOK, UserOK, ClearStep
    PROVE  /\ family' = family /\ chosen' = chosen /\ user.steps # <<>> /\ user' = Then
           /\ refresh' = refresh
           /\ \/ /\ user.steps = Clear1 /\ Tail(user.steps) = Clear2 /\ client' = client
                 /\ \E kept \in SUBSET {"encKey"} :
                       /\ store' = (IF client.email THEN KeyCleared(kept) ELSE store)
                       /\ Left(kept, FALSE)
              \/ /\ user.steps = Clear2 /\ Tail(user.steps) = Clear3 /\ client' = client
                 /\ \E kept \in SUBSET {"tokens", "active"} :
                       /\ store' = (IF client.email THEN SessionCleared(kept) ELSE store)
                       /\ Left(kept, FALSE)
              \/ /\ user.steps = Clear3 /\ Tail(user.steps) = Clear4 /\ store' = store
                 /\ client' = [client EXCEPT !.tokens = NoTokens]
                 /\ Left({}, FALSE)
              \/ /\ user.steps = Clear4 /\ Tail(user.steps) = <<>> /\ store' = store
                 /\ client' = [tokens |-> client.tokens, email |-> FALSE, encKey |-> 0]
                 /\ Left({}, TRUE)
  <1>1. ClientType /\ StoreType /\ HistoryType /\ user.steps \in Shape
    BY TypeParts DEF UserOK
  <1>2. /\ family' = family /\ chosen' = chosen /\ user.steps # <<>> /\ user' = Then
        /\ refresh' = refresh
    BY DEF ClearStep, server, Doing
  <1>3. PICK s \in {"clearEncKey", "clearSession", "dropTokens", "dropAuth"} : Head(user.steps) = s
    BY ClearStepsRange DEF ClearStep, Doing
  <1>4. PICK kept \in SUBSET ToClear :
          /\ store' = CASE Doing("clearEncKey") /\ client.email ->
                             [store EXCEPT !.encKey = IF kept = {} THEN 0 ELSE @]
                        [] Doing("clearSession") /\ client.email ->
                             [store EXCEPT !.tokens = IF "tokens" \in kept THEN @ ELSE NoTokens,
                                           !.active = @ /\ "active" \in kept]
                        [] OTHER -> store
          /\ out' = [out EXCEPT !.done = Doing("dropAuth"), !.kept = @ \cup kept]
    BY DEF ClearStep
  <1>5. /\ [store EXCEPT !.encKey = IF kept = {} THEN 0 ELSE @] = KeyCleared(kept)
        /\ [store EXCEPT !.tokens = IF "tokens" \in kept THEN @ ELSE NoTokens,
                         !.active = @ /\ "active" \in kept] = SessionCleared(kept)
    <2>1. [store EXCEPT !.encKey = IF kept = {} THEN 0 ELSE @] = KeyCleared(kept)
      BY <1>1 DEF StoreType, KeyCleared
    <2>2. ASSUME NEW t, NEW a \in BOOLEAN
          PROVE  [store EXCEPT !.tokens = t, !.active = a]
                   = [tokens |-> t, active |-> a, encKey |-> store.encKey]
      <3>1. PICK st : st = [store EXCEPT !.tokens = t, !.active = a]
        OBVIOUS
      <3>2. st = [tokens |-> t, active |-> a, encKey |-> store.encKey]
        BY <1>1, <3>1 DEF StoreType
      <3> QED
        BY <3>1, <3>2
    <2>3. (store.active /\ "active" \in kept) \in BOOLEAN
      OBVIOUS
    <2> QED
      BY <2>1, <2>2, <2>3, Zenon DEF SessionCleared
  <1>6. PICK cl : cl = [client EXCEPT !.email = FALSE, !.encKey = 0]
    OBVIOUS
  <1>7. cl = [tokens |-> client.tokens, email |-> FALSE, encKey |-> 0]
    BY <1>1, <1>6 DEF ClientType
  <1>8. PICK h : h = Head(user.steps)
    OBVIOUS
  <1>9. /\ store' = CASE h = "clearEncKey" /\ client.email  -> KeyCleared(kept)
                      [] h = "clearSession" /\ client.email -> SessionCleared(kept)
                      [] OTHER -> store
        /\ client' = CASE h = "dropTokens" -> [client EXCEPT !.tokens = NoTokens]
                       [] h = "dropAuth"   -> cl
                       [] OTHER            -> client
        /\ kept \subseteq CASE h = "clearEncKey"  -> {"encKey"}
                           [] h = "clearSession" -> {"tokens", "active"}
                           [] OTHER              -> {}
    <2>1. Doing("clearEncKey") = (h = "clearEncKey") /\ Doing("clearSession") = (h = "clearSession")
      BY <1>2, <1>8 DEF Doing
    <2>2. Doing("dropTokens") = (h = "dropTokens") /\ Doing("dropAuth") = (h = "dropAuth")
      BY <1>2, <1>8 DEF Doing
    <2>3. client' = CASE h = "dropTokens" -> [client EXCEPT !.tokens = NoTokens]
                      [] h = "dropAuth"   -> cl
                      [] OTHER            -> client
      BY <1>6, <2>2 DEF ClearStep
    <2> QED
      BY <1>4, <1>5, <2>1, <2>3 DEF ToClear
  <1>14. Left(kept, h = "dropAuth")
    <2>1. out' = [out EXCEPT !.done = (h = "dropAuth"), !.kept = @ \cup kept]
      BY <1>2, <1>4, <1>8 DEF Doing
    <2> QED
      BY <1>1, <2>1 DEF HistoryType, Left
  <1>10. CASE s = "clearEncKey"
    <2>1. user.steps = Clear1 /\ Tail(user.steps) = Clear2
      BY <1>1, <1>2, <1>3, <1>10, StepsLeft
    <2>2. client' = client /\ kept \in SUBSET {"encKey"} /\ Left(kept, FALSE)
      BY <1>3, <1>8, <1>9, <1>10, <1>14
    <2>3. store' = (IF client.email THEN KeyCleared(kept) ELSE store)
      BY <1>3, <1>8, <1>9, <1>10
    <2> QED
      BY <1>2, <2>1, <2>2, <2>3
  <1>11. CASE s = "clearSession"
    <2>1. user.steps = Clear2 /\ Tail(user.steps) = Clear3
      BY <1>1, <1>2, <1>3, <1>11, StepsLeft
    <2>2. client' = client /\ kept \in SUBSET {"tokens", "active"} /\ Left(kept, FALSE)
      BY <1>3, <1>8, <1>9, <1>11, <1>14
    <2>3. store' = (IF client.email THEN SessionCleared(kept) ELSE store)
      BY <1>3, <1>8, <1>9, <1>11
    <2> QED
      BY <1>2, <2>1, <2>2, <2>3
  <1>12. CASE s = "dropTokens"
    <2>1. user.steps = Clear3 /\ Tail(user.steps) = Clear4
      BY <1>1, <1>2, <1>3, <1>12, StepsLeft
    <2>2. store' = store /\ Left({}, FALSE)
      BY <1>3, <1>8, <1>9, <1>12, <1>14
    <2>3. client' = [client EXCEPT !.tokens = NoTokens]
      BY <1>3, <1>8, <1>9, <1>12
    <2> QED
      BY <1>2, <2>1, <2>2, <2>3
  <1>13. CASE s = "dropAuth"
    <2>1. user.steps = Clear4 /\ Tail(user.steps) = <<>>
      BY <1>1, <1>2, <1>3, <1>13, StepsLeft
    <2>2. store' = store /\ Left({}, TRUE)
      BY <1>3, <1>8, <1>9, <1>13, <1>14
    <2>3. client' = cl
      BY <1>3, <1>8, <1>9, <1>13
    <2> QED
      BY <1>2, <1>7, <2>1, <2>2, <2>3
  <1> QED
    BY <1>10, <1>11, <1>12, <1>13

\* ClearStep keeps the type invariant.
LEMMA ClearStepTypes ==
    ASSUME TypeOK, UserOK, ClearStep
    PROVE  TypeOK' /\ user'.steps = Tail(user.steps)
  <1>1. ClientType /\ StoreType /\ AccountType /\ HistoryType
    BY TypeParts
  <1>2. family' = family /\ chosen' = chosen /\ user.steps # <<>> /\ user' = Then
    BY ClearStepCases
  <1>3. Grows /\ Held' = Held /\ NoTokens \in Held /\ 0 \in 0..chosen
    BY <1>1, <1>2, NoGrowth DEF Held, AccountType
  <1>4. UserType' /\ user'.steps = Tail(user.steps)
    BY <1>2, <1>3, ThenTypes
  <1>5. \/ store' = store \/ \E kept : store' = KeyCleared(kept) \/ store' = SessionCleared(kept)
    BY ClearStepCases
  <1>6. StoreType'
    <2>1. CASE store' = store
      BY <1>1, <1>2, <1>3, <2>1 DEF StoreType
    <2>2. ASSUME NEW kept, store' = KeyCleared(kept) PROVE StoreType'
      BY <1>1, <1>2, <1>3, <2>2 DEF StoreType, KeyCleared
    <2>3. ASSUME NEW kept, store' = SessionCleared(kept) PROVE StoreType'
      BY <1>1, <1>2, <1>3, <2>3 DEF StoreType, SessionCleared
    <2> QED
      BY <1>5, <2>1, <2>2, <2>3
  <1>7. \/ client' = client \/ client' = [client EXCEPT !.tokens = NoTokens]
        \/ client' = [tokens |-> client.tokens, email |-> FALSE, encKey |-> 0]
    BY ClearStepCases
  <1>8. ClientType'
    <2>1. CASE client' = client
      BY <1>1, <1>2, <1>3, <2>1 DEF ClientType
    <2>2. CASE client' = [client EXCEPT !.tokens = NoTokens]
      BY <1>1, <1>2, <1>3, <2>2 DEF ClientType
    <2>3. CASE client' = [tokens |-> client.tokens, email |-> FALSE, encKey |-> 0]
      BY <1>1, <1>2, <1>3, <2>3 DEF ClientType
    <2> QED
      BY <1>7, <2>1, <2>2, <2>3
  <1>9. HistoryType'
    <2>1. PICK kept \in SUBSET {"encKey", "tokens", "active"}, done \in BOOLEAN : Left(kept, done)
      BY ClearStepCases
    <2>2. UNCHANGED <<torn, tripped, cause>>
      BY DEF ClearStep
    <2> QED
      BY <1>1, <2>1, <2>2 DEF HistoryType, Left
  <1>10. events' = events \/ Event
    BY DEF ClearStep
  <1> QED
    BY <1>2, <1>3, <1>4, <1>6, <1>8, <1>9, <1>10, TypeStep DEF ClearStep, server

\* Rewrap keeps the type invariant.
LEMMA RewrapTypes ==
    ASSUME TypeOK, UserOK, Rewrap
    PROVE  TypeOK' /\ user.steps = WrapFirst /\ user'.steps = Changes /\ user'.key = user.key
  <1>1. AccountType /\ UserType /\ HistoryType
    BY TypeParts
  <1>2. family' = family /\ chosen' = chosen /\ user.steps # <<>> /\ user' = Then
    BY DEF Rewrap, server, Doing
  <1>3. Grows
    BY <1>2, NoGrowth
  <1>4. UserType' /\ user'.steps = Tail(user.steps) /\ user'.key = user.key
    BY <1>2, <1>3, ThenTypes
  <1>5. user.steps = WrapFirst /\ user'.steps = Changes
    BY <1>2, <1>4, StepsLeft DEF Rewrap, Doing, UserOK
  <1>6. AccountType'
    BY <1>1, <1>2 DEF AccountType, UserType, Rewrap
  <1>7. HistoryType'
    BY <1>1 DEF HistoryType, Rewrap
  <1> QED
    BY <1>2, <1>3, <1>4, <1>5, <1>6, <1>7, TypeStep DEF Rewrap

\* Change keeps the type invariant.
LEMMA ChangeTypes ==
    ASSUME TypeOK, UserOK, Change
    PROVE  TypeOK' /\ Steady /\ user.steps = Changes /\ user'.steps = Again
  <1>1. AccountType /\ UserType /\ HistoryType
    BY TypeParts
  <1>2. family' = AllEnded /\ chosen' = chosen /\ user.steps # <<>> /\ user' = Then
    BY DEF Change, Doing
  <1>3. Grows /\ Steady
    BY <1>2, AllEndedType
  <1>4. UserType' /\ user'.steps = Tail(user.steps)
    BY <1>2, <1>3, ThenTypes
  <1>5. user.steps = Changes /\ user'.steps = Again
    BY <1>2, <1>4, StepsLeft DEF Change, Doing, UserOK
  <1>6. AccountType'
    BY <1>1, <1>2, <1>3 DEF AccountType, UserType, Change, Grows
  <1>7. HistoryType'
    BY <1>1 DEF HistoryType, Change
  <1> QED
    BY <1>2, <1>3, <1>4, <1>5, <1>6, <1>7, TypeStep DEF Change


-----------------------------------------------------------------------------
(* The tokens.                                                              *)

\* What the device can post, stored or in memory, does not change.
LEMMA TokensFrame ==
    ASSUME TypeOK, CallOK, Steady, refresh' = refresh,
           client'.tokens = client.tokens, store'.tokens = store.tokens
    PROVE  /\ CallOK'
           /\ torn' = torn /\ Newest => Newest'
           /\ \A f : Outside(f) => Outside(f)'
  <1>1. /\ family \in Seq(Nat) /\ client.tokens \in Held /\ store.tokens \in Held
        /\ \A c \in Caller : refresh[c].tokens \in Held
    BY TypeParts DEF AccountType, ClientType, StoreType, CallType
  <1>2. Token \subseteq Token' /\ \A t \in Held : Latest(t) => Latest(t)'
    BY <1>1, SteadyTokens
  <1>3. CallOK'
    BY <1>2 DEF CallOK, Busy
  <1>4. \A f : Outside(f) => Outside(f)'
    BY DEF Outside
  <1>5. /\ Latest(client.tokens) => Latest(client.tokens)'
        /\ Latest(store.tokens) => Latest(store.tokens)'
        /\ \A c \in Caller : Latest(refresh[c].tokens) => Latest(refresh[c].tokens)'
    <2>1. PICK ct : ct = client.tokens
      OBVIOUS
    <2>2. PICK st : st = store.tokens
      OBVIOUS
    <2>3. (Latest(ct) => Latest(ct)') /\ (Latest(st) => Latest(st)')
      BY <1>1, <1>2, <2>1, <2>2
    <2>4. ASSUME NEW c \in Caller, Latest(refresh[c].tokens) PROVE Latest(refresh[c].tokens)'
      <3>1. PICK t : t = refresh[c].tokens
        OBVIOUS
      <3>2. Latest(t)'
        BY <1>1, <1>2, <2>4, <3>1
      <3> QED
        BY <3>1, <3>2 DEF Latest
    <2> QED
      BY <2>1, <2>2, <2>3, <2>4 DEF Latest
  <1>6. ASSUME torn' = torn, Newest PROVE Newest'
    BY <1>5, <1>6 DEF Newest, Busy
  <1> QED
    BY <1>3, <1>4, <1>6

\* ... and neither does the user's call.
LEMMA UserFrame ==
    ASSUME TypeOK, UserOK, NewFamily, Steady, user' = user,
           \A f : Outside(f) => Outside(f)'
    PROVE  UserOK' /\ NewFamily'
  <1>1. family \in Seq(Nat) /\ user.tokens \in Held
    BY TypeParts DEF AccountType, UserType
  <1>2. Token \subseteq Token' /\ \A t \in Held : Latest(t) => Latest(t)'
    BY <1>1, SteadyTokens
  <1>3. UserOK'
    BY <1>2 DEF UserOK
  <1>4. PICK t : t = user.tokens
    OBVIOUS
  <1>5. user.steps \in Issuing => Latest(t)' /\ Outside(t.fam)'
    BY <1>1, <1>2, <1>4 DEF NewFamily
  <1> QED
    BY <1>3, <1>4, <1>5 DEF NewFamily, Latest, Outside


\* The kinds of calls differ.
LEMMA Apart ==
    /\ <<>> \notin Unissued \cup Issuing \cup Keeping \cup Clearing \cup Changing
    /\ KeyLast \notin Unissued \cup Issuing \cup Keeping \cup Clearing \cup Changing
    /\ \A s \in Unissued : s \notin Issuing \cup Keeping \cup Clearing \cup Changing
    /\ \A s \in Issuing : s \notin Keeping \cup Clearing \cup Changing
    /\ \A s \in Keeping : s \notin Clearing \cup Changing
    /\ \A s \in Clearing : s \notin Changing
  <1>1. /\ \A s \in Unissued : s = TwoFactor \/ Head(s) \in {"factor", "confirm"}
        /\ \A s \in Issuing : s = Key \/ Head(s) = "tokens"
        /\ \A s \in Keeping : Head(s) = "save"
        /\ Head(TwoFactor) = "encKey" /\ Head(Key) = "encKey" /\ Head(KeyLast) = "encKey"
    BY Tails DEF Unissued, Issuing, Keeping
  <1>2. /\ \A s \in Clearing : Head(s) \in {"clearEncKey", "clearSession", "dropTokens", "dropAuth"}
        /\ \A s \in Changing : Head(s) \in {"rewrap", "change", "login"}
    BY MoreTails DEF Clearing, Changing
  <1>3. <<>> \notin Unissued \cup Issuing \cup Keeping \cup Clearing \cup Changing
    BY NotDone DEF Unissued, Issuing, Keeping, Clearing, Changing
  <1>4. KeyLast \notin Unissued \cup Issuing \cup Keeping \cup Clearing \cup Changing
    BY <1>1, <1>2, SameHead
  <1>5. \A s \in Unissued : s \notin Issuing \cup Keeping \cup Clearing \cup Changing
    BY <1>1, <1>2, SameHead
  <1>6. \A s \in Issuing : s \notin Keeping \cup Clearing \cup Changing
    BY <1>1, <1>2
  <1>7. \A s \in Keeping : s \notin Clearing \cup Changing
    BY <1>1, <1>2
  <1>8. \A s \in Clearing : s \notin Changing
    BY <1>1, <1>2
  <1> QED
    BY <1>3, <1>4, <1>5, <1>6, <1>7, <1>8

TokensOK == CallOK /\ UserOK /\ NewFamily /\ Newest /\ NoFalseTheft

\* Only the user's call changes, and the families by what it issues or ends.
LEMMA UserTokens ==
    ASSUME TypeOK, TokensOK, Steady, refresh' = refresh,
           client'.tokens = client.tokens, store'.tokens = store.tokens,
           torn' = torn, tripped' = tripped,
           user' = user \/ (UserOK' /\ NewFamily')
    PROVE  TokensOK'
  <1>1. CallOK' /\ Newest' /\ \A f : Outside(f) => Outside(f)'
    BY TokensFrame DEF TokensOK
  <1>2. UserOK' /\ NewFamily'
    BY <1>1, UserFrame DEF TokensOK
  <1>3. NoFalseTheft'
    BY DEF TokensOK, NoFalseTheft
  <1> QED
    BY <1>1, <1>2, <1>3 DEF TokensOK

\* A call whose tokens are not issued yet, or are saved.
LEMMA NothingIssued ==
    ASSUME user'.steps \in {<<>>, KeyLast} \cup Unissued \cup Clearing \cup Changing
    PROVE  UserOK' /\ NewFamily'
  BY Apart DEF UserOK, NewFamily, Shape

\* The stream, other devices, time and an upload leave the tokens alone.
LEMMA QuietTokens ==
    ASSUME TypeOK, TokensOK, NEW flag \in BOOLEAN,
           \/ StartStream \/ Connect \/ Wait \/ Cancel \/ Break(flag)
           \/ OtherPush \/ ResetPassword \/ Expire \/ PushIdentities
    PROVE  TokensOK'
  <1>1. /\ refresh' = refresh /\ client' = client /\ store' = store /\ user' = user
        /\ torn' = torn /\ tripped' = tripped
    BY DEF StartStream, Connect, Wait, Cancel, Break, OtherPush, ResetPassword, Expire,
           PushIdentities, device, history
  <1>2. family' = family \/ family' = AllEnded
    BY DEF StartStream, Connect, Wait, Cancel, Break, OtherPush, ResetPassword, Expire,
           PushIdentities, server
  <1>3. Steady
    BY <1>2, NoGrowth, AllEndedType
  <1> QED
    BY <1>1, <1>3, UserTokens

\* The token of a family just begun is its latest, and nothing else is of it.
LEMMA IssuedOK ==
    ASSUME TypeOK, family' = Append(family, 1), user'.steps \in Issuing, user'.tokens = Issued,
           refresh' = refresh, client'.tokens = client.tokens, store' = store
    PROVE  UserOK' /\ NewFamily'
  <1>1. ClientType /\ CallType /\ StoreType
    BY TypeParts
  <1>2. /\ Issued \in Token' /\ Issued.gen = 1 /\ family'[Issued.fam] = 1
        /\ \A t \in Token : t.fam # Issued.fam
    BY IssuedType
  <1>3. UserOK'
    BY <1>2 DEF UserOK, Shape
  <1>4. /\ client.tokens # NoTokens => client.tokens.fam # Issued.fam
        /\ store.tokens # NoTokens => store.tokens.fam # Issued.fam
        /\ \A c \in Caller : refresh[c].tokens # NoTokens => refresh[c].tokens.fam # Issued.fam
    BY <1>1, <1>2 DEF ClientType, CallType, StoreType, Held
  <1>5. PICK t : t = Issued
    OBVIOUS
  <1>6. Latest(t)' /\ Outside(t.fam)'
    BY <1>2, <1>4, <1>5 DEF Latest, Outside
  <1>7. user'.tokens = t
    BY <1>5
  <1> QED
    BY <1>3, <1>6, <1>7 DEF NewFamily, Latest, Outside

\* LogIn keeps what is known of the tokens.
LEMMA LogInTokens ==
    ASSUME TypeOK, TokensOK, NEW flag \in BOOLEAN, LogIn(flag)
    PROVE  TokensOK' /\ user'.steps \in {TwoFactor, Key}
  <1>1. ClientType /\ CallType /\ StoreType
    BY TypeParts
  <1>2. Steady
    BY LogInTypes DEF TokensOK
  <1>3. /\ client' = [client EXCEPT !.email = TRUE, !.encKey = password]
        /\ store' = store /\ refresh' = refresh /\ torn' = torn /\ tripped' = tripped
    BY DEF LogIn
  <1>4. client'.tokens = client.tokens
    BY <1>1, <1>3 DEF ClientType
  <1>5. CASE flag
    <2>1. user'.steps = TwoFactor
      BY <1>5, LogInShapes DEF LogIn, NoUser
    <2>2. UserOK' /\ NewFamily'
      BY <2>1, NothingIssued DEF Unissued
    <2> QED
      BY <1>2, <1>3, <1>4, <2>1, <2>2, UserTokens
  <1>6. CASE ~flag
    <2>1. family' = Append(family, 1) /\ user'.steps = Key /\ user'.tokens = Issued
      BY <1>6, LogInShapes DEF LogIn, NoUser
    <2>2. UserOK' /\ NewFamily'
      BY <1>1, <1>3, <1>4, <2>1, IssuedOK DEF Issuing
    <2> QED
      BY <1>2, <1>3, <1>4, <2>1, <2>2, UserTokens
  <1> QED
    BY <1>5, <1>6


\* SecondFactor and ConfirmSignUp issue the first token of a family.
LEMMA IssueTokens ==
    ASSUME TypeOK, TokensOK, SecondFactor \/ ConfirmSignUp
    PROVE  /\ TokensOK'
           /\ SecondFactor => user.steps = Factor /\ user'.steps = Set
           /\ ConfirmSignUp => user.steps = Confirm /\ user'.steps = SetFirst
  <1>1. /\ Steady /\ user'.tokens = Issued /\ user'.steps = Tail(user.steps)
        /\ user.steps # <<>> /\ user.steps \in Shape
    BY IssueTypes DEF TokensOK, UserOK
  <1>2. /\ SecondFactor => user.steps = Factor /\ user'.steps = Set
        /\ ConfirmSignUp => user.steps = Confirm /\ user'.steps = SetFirst
    BY <1>1, StepsLeft DEF SecondFactor, ConfirmSignUp, Doing
  <1>3. /\ family' = Append(family, 1) /\ refresh' = refresh /\ client' = client /\ store' = store
        /\ torn' = torn /\ tripped' = tripped
    BY DEF SecondFactor, ConfirmSignUp, history
  <1>4. UserOK' /\ NewFamily'
    BY <1>1, <1>2, <1>3, IssuedOK DEF Issuing
  <1> QED
    BY <1>1, <1>2, <1>3, <1>4, UserTokens

\* Calls that begin without tokens, that fail or that change the password.
LEMMA OtherCallTokens ==
    ASSUME TypeOK, TokensOK, NEW flag \in BOOLEAN,
           \/ SignUp \/ ChangePassword(flag) \/ LogOut(flag) \/ RequestAccountDeletion
           \/ UserFails(flag) \/ Rewrap \/ Change
    PROVE  TokensOK'
  <1>1. ClientType /\ UserOK
    BY TypeParts DEF TokensOK
  <1>2. /\ refresh' = refresh /\ store' = store /\ torn' = torn /\ tripped' = tripped
        /\ client' = client \/ client' = [client EXCEPT !.email = TRUE, !.encKey = chosen + 1]
    BY DEF SignUp, ChangePassword, LogOut, RequestAccountDeletion, UserFails, Rewrap, Change, history
  <1>3. client'.tokens = client.tokens
    BY <1>1, <1>2 DEF ClientType
  <1>4. Steady
    <2>1. CASE SignUp \/ ChangePassword(flag) \/ Rewrap
      BY <2>1, NoGrowth DEF SignUp, ChangePassword, Rewrap, server
    <2>2. CASE LogOut(flag) \/ RequestAccountDeletion
      BY <2>2, LeaveTypes
    <2>3. CASE UserFails(flag)
      BY <2>3, UserFailsTypes
    <2>4. CASE Change
      BY <1>1, <2>4, ChangeTypes
    <2> QED
      BY <2>1, <2>2, <2>3, <2>4
  <1>5. user'.steps \in {<<>>, KeyLast} \cup Unissued \cup Clearing \cup Changing
    <2>1. CASE SignUp
      <3>1. user'.steps = Confirm
        BY <2>1 DEF SignUp, NoUser, Confirm
      <3> QED
        BY <3>1 DEF Unissued
    <2>2. CASE ChangePassword(flag)
      BY <2>2, ChangePasswordTypes DEF Changing
    <2>3. CASE LogOut(flag) \/ RequestAccountDeletion
      BY <2>3, LeaveTypes DEF Clearing
    <2>4. CASE UserFails(flag)
      BY <2>4, UserFailsTypes
    <2>5. CASE Rewrap
      BY <1>1, <2>5, RewrapTypes DEF Changing
    <2>6. CASE Change
      BY <1>1, <2>6, ChangeTypes DEF Changing
    <2> QED
      BY <2>1, <2>2, <2>3, <2>4, <2>5, <2>6
  <1> QED
    BY <1>2, <1>3, <1>4, <1>5, NothingIssued, UserTokens

\* PersistEncKey keeps what is known of the tokens.
LEMMA PersistEncKeyTokens ==
    ASSUME TypeOK, TokensOK, NEW flag \in BOOLEAN, PersistEncKey(flag)
    PROVE  /\ TokensOK'
           /\ \/ user.steps = TwoFactor /\ user'.steps = Factor
              \/ user.steps = Key /\ user'.steps = Set
              \/ user.steps = KeyLast /\ user'.steps = <<>>
  <1>1. StoreType /\ UserType /\ UserOK /\ NewFamily
    BY TypeParts DEF TokensOK
  <1>2. /\ user'.steps = Tail(user.steps) /\ user'.tokens = user.tokens /\ user.steps # <<>>
        /\ Head(user.steps) = "encKey" /\ user.steps \in Shape
    BY <1>1, PersistEncKeyTypes DEF PersistEncKey, Doing, UserOK
  <1>3. \/ user.steps = TwoFactor /\ user'.steps = Factor
        \/ user.steps = Key /\ user'.steps = Set
        \/ user.steps = KeyLast /\ user'.steps = <<>>
    BY <1>2, StepsLeft
  <1>4. /\ refresh' = refresh /\ client' = client /\ torn' = torn /\ tripped' = tripped
        /\ family' = family /\ store'.tokens = store.tokens
    BY <1>1 DEF PersistEncKey, StoreType, server, history
  <1>5. Steady /\ Token' = Token
    BY <1>4, NoGrowth
  <1>6. UserOK' /\ NewFamily'
    <2>1. CASE user.steps = Key /\ user'.steps = Set
      <3>1. user.tokens \in Token /\ user.tokens.gen = 1
        BY <1>1, <2>1 DEF UserOK, Issuing
      <3>2. Latest(user.tokens) /\ Outside(user.tokens.fam)
        BY <1>1, <2>1 DEF NewFamily, Issuing
      <3>3. UserOK'
        BY <1>2, <1>5, <2>1, <3>1 DEF UserOK, Shape, Issuing
      <3>4. PICK t : t = user.tokens
        OBVIOUS
      <3>5. Latest(t)' /\ Outside(t.fam)'
        BY <1>4, <3>2, <3>4 DEF Latest, Outside
      <3>6. user'.tokens = t
        BY <1>2, <3>4
      <3> QED
        BY <3>3, <3>5, <3>6 DEF NewFamily, Latest, Outside
    <2>2. CASE user'.steps \in {Factor, <<>>}
      BY <2>2, NothingIssued DEF Unissued
    <2> QED
      BY <1>3, <2>1, <2>2
  <1> QED
    BY <1>3, <1>4, <1>5, <1>6, UserTokens

\* SetTokens installs the latest token of its family.
LEMMA SetTokensTokens ==
    ASSUME TypeOK, TokensOK, SetTokens
    PROVE  /\ TokensOK'
           /\ \/ user.steps = Set /\ user'.steps = Keep
              \/ user.steps = SetFirst /\ user'.steps = KeepFirst
  <1>1. UserType /\ ClientType /\ UserOK /\ NewFamily /\ CallOK /\ Newest /\ NoFalseTheft
    BY TypeParts DEF TokensOK
  <1>2. /\ user'.steps = Tail(user.steps) /\ user'.tokens = user.tokens /\ user.steps # <<>>
        /\ Head(user.steps) = "tokens" /\ user.steps \in Shape /\ client'.tokens = user.tokens
    BY <1>1, SetTokensTypes DEF SetTokens, Doing, UserOK
  <1>3. \/ user.steps = Set /\ user'.steps = Keep
        \/ user.steps = SetFirst /\ user'.steps = KeepFirst
    BY <1>2, StepsLeft
  <1>4. /\ refresh' = refresh /\ store' = store /\ torn' = torn /\ tripped' = tripped
        /\ family' = family
    BY DEF SetTokens, server, history
  <1>5. Token' = Token
    BY <1>4, NoGrowth
  <1>6. user.tokens \in Token /\ user.tokens.gen = 1 /\ Latest(user.tokens)
    BY <1>1, <1>3 DEF UserOK, NewFamily, Issuing
  <1>7. user'.steps \in Keeping
    BY <1>3 DEF Keeping
  <1>8. UserOK' /\ NewFamily'
    BY <1>2, <1>5, <1>6, <1>7, Apart DEF UserOK, NewFamily, Shape
  <1>9. CallOK'
    BY <1>1, <1>4, <1>5 DEF CallOK, Busy
  <1>10. Newest'
    BY <1>1, <1>2, <1>4, <1>6 DEF Newest, Busy, Latest
  <1> QED
    BY <1>1, <1>3, <1>4, <1>8, <1>9, <1>10 DEF TokensOK, NoFalseTheft

\* What is saved without tearing is the latest token of its family.
LEMMA SavedLatest ==
    ASSUME TypeOK, NEW t \in Token, NEW email \in BOOLEAN, NEW wrote \in Outcome,
           SaveOutcome(t, email, wrote), store' = Saved(t, email, wrote), ~torn',
           family[t.fam] \in {0, t.gen} \/ t.gen = 1
    PROVE  store'.tokens = t /\ Latest(t)
  <1>1. StoreType /\ AccountType
    BY TypeParts
  <1>2. email /\ wrote = "both" /\ ~(family[t.fam] > t.gen)
    BY DEF SaveOutcome
  <1>3. store'.tokens = t
    BY <1>1, <1>2 DEF Saved, StoreType
  <1>4. family[t.fam] \in Nat
    BY <1>1 DEF AccountType, Token
  <1>5. Latest(t)
    BY <1>2, <1>4 DEF Latest
  <1> QED
    BY <1>3, <1>5

\* SaveTokens stores the latest token, or tears.
LEMMA SaveTokensTokens ==
    ASSUME TypeOK, TokensOK, NEW wrote \in Outcome, SaveTokens(wrote)
    PROVE  /\ TokensOK'
           /\ user.steps \in Keeping /\ user'.steps \in {<<>>, KeyLast}
  <1>1. UserType /\ UserOK /\ CallOK /\ Newest /\ NoFalseTheft
    BY TypeParts DEF TokensOK
  <1>2. /\ user'.steps = Tail(user.steps) /\ user.steps # <<>>
        /\ Head(user.steps) = "save" /\ user.steps \in Shape
    BY <1>1, SaveTokensTypes DEF SaveTokens, Doing, UserOK
  <1>3. user.steps \in Keeping /\ user'.steps \in {<<>>, KeyLast}
    BY <1>2, StepsLeft DEF Keeping
  <1>4. /\ refresh' = refresh /\ client' = client /\ tripped' = tripped /\ family' = family
        /\ torn => torn'
    BY DEF SaveTokens, SaveOutcome, server
  <1>5. Token' = Token
    BY <1>4, NoGrowth
  <1>6. user.tokens \in Token /\ user.tokens.gen = 1 /\ user.email \in BOOLEAN
    BY <1>1, <1>3 DEF UserOK, UserType
  <1>7. UserOK' /\ NewFamily'
    BY <1>3, NothingIssued
  <1>8. CallOK'
    BY <1>1, <1>4, <1>5 DEF CallOK, Busy
  <1>9. PICK t : t = user.tokens
    OBVIOUS
  <1>10. ~torn' => store'.tokens = t /\ Latest(t)
    BY <1>6, <1>9, SavedLatest DEF SaveTokens
  <1>11. Newest'
    BY <1>1, <1>4, <1>10 DEF Newest, Busy, Latest
  <1> QED
    BY <1>1, <1>3, <1>4, <1>7, <1>8, <1>11 DEF TokensOK, NoFalseTheft


\* ClearStep keeps what is known of the tokens.
LEMMA ClearStepTokens ==
    ASSUME TypeOK, TokensOK, ClearStep
    PROVE  TokensOK'
  <1>1. ClientType /\ StoreType /\ UserOK /\ CallOK /\ Newest /\ NoFalseTheft
    BY TypeParts DEF TokensOK
  <1>2. user'.steps \in {Clear2, Clear3, Clear4, <<>>}
    BY <1>1, ClearStepCases, ClearStepTypes
  <1>3. UserOK' /\ NewFamily'
    BY <1>2, NothingIssued DEF Clearing
  <1>4. refresh' = refresh /\ family' = family /\ torn' = torn /\ tripped' = tripped
    BY DEF ClearStep, server
  <1>5. client'.tokens \in {NoTokens, client.tokens} /\ store'.tokens \in {NoTokens, store.tokens}
    <2>4. \/ client' = client \/ client' = [client EXCEPT !.tokens = NoTokens]
          \/ client' = [tokens |-> client.tokens, email |-> FALSE, encKey |-> 0]
      BY <1>1, ClearStepCases
    <2>1. client'.tokens \in {NoTokens, client.tokens}
      BY <1>1, <2>4 DEF ClientType
    <2>2. \A kept : /\ KeyCleared(kept).tokens \in {NoTokens, store.tokens}
                    /\ SessionCleared(kept).tokens \in {NoTokens, store.tokens}
      BY DEF KeyCleared, SessionCleared
    <2>3. store' = store \/ \E kept : store' = KeyCleared(kept) \/ store' = SessionCleared(kept)
      BY <1>1, ClearStepCases
    <2> QED
      BY <2>1, <2>2, <2>3
  <1>6. Token' = Token
    BY <1>4, NoGrowth
  <1>7. CallOK'
    BY <1>1, <1>4, <1>6 DEF CallOK, Busy
  <1>8. Newest'
    BY <1>1, <1>4, <1>5 DEF Newest, Busy, Latest
  <1> QED
    BY <1>1, <1>3, <1>4, <1>7, <1>8 DEF TokensOK, NoFalseTheft

\* A restart finds the latest token in the store, or tears.
LEMMA RestartTokens ==
    ASSUME TypeOK, TokensOK, Restart
    PROVE  TokensOK' /\ user'.steps = <<>>
  <1>1. CallType /\ Newest /\ NoFalseTheft
    BY TypeParts DEF TokensOK
  <1>2. user'.steps = <<>>
    BY DEF Restart, NoUser
  <1>3. UserOK' /\ NewFamily'
    BY <1>2, NothingIssued
  <1>4. \A c \in Caller : ~Busy(c)' /\ refresh'[c].pc = "idle"
    BY DEF Restart, NoCall, Busy
  <1>5. CallOK'
    BY <1>4 DEF CallOK
  <1>6. family' = family /\ store' = store /\ tripped' = tripped /\ torn' = (torn \/ Refreshing)
    BY DEF Restart, server
  <1>7. client'.tokens \in {NoTokens, store.tokens}
    BY DEF Restart
  <1>8. ASSUME ~torn' PROVE Latest(store.tokens)
    BY <1>1, <1>6, <1>8 DEF Newest, Refreshing
  <1>9. Newest'
    BY <1>4, <1>6, <1>7, <1>8 DEF Newest, Latest
  <1> QED
    BY <1>1, <1>2, <1>3, <1>5, <1>6, <1>9 DEF TokensOK, NoFalseTheft

\* The user's call when Refresh moves tokens about: none of a family it waits for.
LEMMA RefreshUser ==
    ASSUME TypeOK, TokensOK, user' = user, Steady, \A f : Outside(f) => Outside(f)'
    PROVE  UserOK' /\ NewFamily'
  BY UserFrame DEF TokensOK

\* Acquire takes the latest token to post.
LEMMA AcquireTokens ==
    ASSUME TypeOK, TokensOK, NEW c \in Caller, Acquire(c)
    PROVE  TokensOK' /\ \A d \in Caller : refresh'[d].pc = "save" => refresh[d].pc = "save"
  <1>1. LockType /\ CallType /\ ClientType /\ CallOK /\ Newest /\ NoFalseTheft
    BY TypeParts DEF TokensOK
  <1>2. /\ family' = family /\ refreshMu = "none" /\ client' = client /\ store' = store
        /\ user' = user /\ torn' = torn /\ tripped' = tripped /\ client.tokens # NoTokens
    BY DEF Acquire, server, history
  <1>3. Steady /\ Token' = Token
    BY <1>2, NoGrowth
  <1>4. \A d \in Caller : ~Busy(d)
    BY <1>1, <1>2, SessionAssumption DEF LockType
  <1>5. PICK call : call = [NoCall EXCEPT !.pc = "post", !.tokens = client.tokens]
    OBVIOUS
  <1>6. call = [pc |-> "post", tokens |-> client.tokens, email |-> FALSE]
    BY <1>5 DEF NoCall
  <1>7. \A d \in Caller : refresh'[d] = IF d = c THEN call ELSE refresh[d]
    BY <1>1, <1>5 DEF CallType, Acquire, Call
  <1>8. client.tokens \in Token
    BY <1>1, <1>2 DEF ClientType, Held
  <1>9. CallOK'
    BY <1>1, <1>3, <1>6, <1>7, <1>8 DEF CallOK, Busy
  <1>10. \A f : Outside(f) => Outside(f)'
    BY <1>2, <1>6, <1>7 DEF Outside
  <1>11. UserOK' /\ NewFamily'
    BY <1>2, <1>3, <1>10, RefreshUser
  <1>12. Newest'
    <2>1. SUFFICES ASSUME ~torn PROVE /\ \A d \in Caller : Busy(d)' => Latest(refresh[d].tokens)'
                                      /\ Latest(client.tokens)' /\ Latest(store.tokens)'
      BY <1>2 DEF Newest
    <2>2. Latest(client.tokens) /\ Latest(store.tokens)
      BY <1>1, <1>4, <2>1 DEF Newest, Busy
    <2>3. Latest(client.tokens)' /\ Latest(store.tokens)'
      BY <1>2, <2>2 DEF Latest
    <2>4. ASSUME NEW d \in Caller, Busy(d)' PROVE Latest(refresh[d].tokens)'
      <3>1. d = c
        BY <1>4, <1>7, <2>4 DEF Busy
      <3>2. refresh'[d].tokens = client.tokens
        BY <1>6, <1>7, <3>1
      <3> QED
        BY <1>2, <2>2, <3>2 DEF Latest
    <2> QED
      BY <2>3, <2>4
  <1>13. \A d \in Caller : refresh'[d].pc = "save" => refresh[d].pc = "save"
    BY <1>6, <1>7
  <1> QED
    BY <1>1, <1>2, <1>9, <1>11, <1>12, <1>13 DEF TokensOK, NoFalseTheft

\* Install puts the rotated token in the place of the consumed one.
LEMMA InstallTokens ==
    ASSUME TypeOK, TokensOK, NEW c \in Caller, Install(c)
    PROVE  TokensOK'
  <1>1. LockType /\ CallType /\ ClientType /\ CallOK /\ Newest /\ NoFalseTheft
    BY TypeParts DEF TokensOK
  <1>2. /\ family' = family /\ client' = [client EXCEPT !.tokens = refresh[c].tokens]
        /\ store' = store /\ user' = user /\ torn' = torn /\ tripped' = tripped
    BY DEF Install, server
  <1>3. Steady /\ Token' = Token
    BY <1>2, NoGrowth
  <1>4. Busy(c) /\ \A d \in Caller : d # c => ~Busy(d)
    BY <1>1 DEF Install, Busy, LockType
  <1>5. PICK call : call = [refresh[c] EXCEPT !.pc = "save", !.email = client.email]
    OBVIOUS
  <1>6. call = [pc |-> "save", tokens |-> refresh[c].tokens, email |-> client.email]
    BY <1>1, <1>5 DEF CallType
  <1>7. \A d \in Caller : refresh'[d] = IF d = c THEN call ELSE refresh[d]
    BY <1>1, <1>5 DEF CallType, Install, Call
  <1>8. client'.tokens = refresh[c].tokens
    BY <1>1, <1>2 DEF ClientType
  <1>9. \A d \in Caller : refresh'[d].tokens = refresh[d].tokens
    BY <1>6, <1>7
  <1>10. \A d \in Caller : Busy(d)' => d = c
    BY <1>4, <1>7 DEF Busy
  <1>11. CallOK'
    BY <1>1, <1>3, <1>4, <1>9, <1>10 DEF CallOK
  <1>12. \A f : Outside(f) => Outside(f)'
    BY <1>2, <1>8, <1>9 DEF Outside
  <1>13. UserOK' /\ NewFamily'
    BY <1>2, <1>3, <1>12, RefreshUser
  <1>14. Newest'
    <2>1. SUFFICES ASSUME ~torn PROVE /\ \A d \in Caller : Busy(d)' => Latest(refresh[d].tokens)'
                                      /\ Latest(client.tokens)'
                                      /\ refresh'[c].pc = "save"
      BY <1>2 DEF Newest
    <2>2. Latest(refresh[c].tokens)
      BY <1>1, <1>4, <2>1 DEF Newest
    <2>3. refresh'[c].pc = "save"
      BY <1>6, <1>7
    <2> QED
      BY <1>2, <1>8, <1>9, <1>10, <2>2, <2>3 DEF Latest
  <1> QED
    BY <1>1, <1>2, <1>11, <1>13, <1>14 DEF TokensOK, NoFalseTheft

\* Save stores the rotated token, or tears.
LEMMA SaveTokensOK ==
    ASSUME TypeOK, TokensOK, NEW c \in Caller, NEW wrote \in Outcome, Save(c, wrote)
    PROVE  TokensOK'
  <1>1. LockType /\ CallType /\ StoreType /\ CallOK /\ Newest /\ NoFalseTheft
    BY TypeParts DEF TokensOK
  <1>2. /\ family' = family /\ client' = client /\ user' = user /\ tripped' = tripped
        /\ torn => torn'
    BY DEF Save, SaveOutcome, server
  <1>3. Steady /\ Held' = Held
    BY <1>2, NoGrowth
  <1>4. Busy(c) /\ refreshMu = c /\ refresh[c].pc = "save" /\ \A d \in Caller : d # c => ~Busy(d)
    BY <1>1 DEF Save, Busy, LockType
  <1>5. /\ \A d \in Caller : ~Busy(d)'
        /\ \A d \in Caller : refresh'[d].tokens \in {NoTokens, refresh[d].tokens}
    BY <1>3, <1>4, HolderEnds DEF Save
  <1>6. CallOK'
    BY <1>5 DEF CallOK
  <1>7. PICK t : t = refresh[c].tokens
    OBVIOUS
  <1>8. t \in Token /\ refresh[c].email \in BOOLEAN
    BY <1>1, <1>4, <1>7 DEF CallOK, CallType
  <1>9. store' = Saved(t, refresh[c].email, wrote) /\ SaveOutcome(t, refresh[c].email, wrote)
    BY <1>7 DEF Save
  <1>10. store'.tokens \in {store.tokens, t}
    BY <1>1, <1>9 DEF Saved, StoreType
  <1>11. \A f : Outside(f) => Outside(f)'
    BY <1>2, <1>5, <1>7, <1>10 DEF Outside
  <1>12. UserOK' /\ NewFamily'
    BY <1>2, <1>3, <1>11, RefreshUser
  <1>13. Newest'
    <2>1. SUFFICES ASSUME ~torn' PROVE Latest(client.tokens)' /\ Latest(store.tokens)'
      BY <1>5 DEF Newest
    <2>2. ~torn
      BY <1>2, <2>1
    <2>3. family[t.fam] \in {0, t.gen}
      <3>1. t.fam \in 1..Len(family) /\ t.gen \in Nat
        BY <1>8 DEF Token
      <3>2. t # NoTokens
        BY <1>8, SessionAssumption, TypeParts DEF Token, AccountType
      <3> QED
        BY <1>1, <1>4, <1>7, <2>2, <3>2 DEF Newest, Latest
    <2>4. store'.tokens = t /\ Latest(t)
      BY <1>8, <1>9, <2>1, <2>3, SavedLatest
    <2>5. Latest(client.tokens)
      BY <1>1, <1>4, <2>2 DEF Newest, Busy
    <2> QED
      BY <1>2, <2>4, <2>5 DEF Latest
  <1> QED
    BY <1>1, <1>2, <1>6, <1>12, <1>13 DEF TokensOK, NoFalseTheft

\* A call that fails before its POST loses nothing; after it, it tears.
LEMMA RefreshFailsTokens ==
    ASSUME TypeOK, TokensOK, NEW c \in Caller, RefreshFails(c)
    PROVE  TokensOK'
  <1>1. LockType /\ CallOK /\ Newest /\ NoFalseTheft
    BY TypeParts DEF TokensOK
  <1>2. /\ family' = family /\ client' = client /\ store' = store /\ user' = user
        /\ tripped' = tripped /\ torn' = (torn \/ refresh[c].pc = "answer")
        /\ refresh[c].pc \in {"post", "answer"}
    BY DEF RefreshFails, server
  <1>3. Steady /\ Held' = Held
    BY <1>2, NoGrowth
  <1>4. refreshMu = c /\ \A d \in Caller : d # c => ~Busy(d)
    BY <1>1, <1>2 DEF Busy, LockType
  <1>5. /\ \A d \in Caller : ~Busy(d)'
        /\ \A d \in Caller : refresh'[d].tokens \in {NoTokens, refresh[d].tokens}
    BY <1>3, <1>4, HolderEnds DEF RefreshFails
  <1>6. CallOK'
    BY <1>5 DEF CallOK
  <1>7. \A f : Outside(f) => Outside(f)'
    BY <1>2, <1>5 DEF Outside
  <1>8. UserOK' /\ NewFamily'
    BY <1>2, <1>3, <1>7, RefreshUser
  <1>9. Newest'
    <2>1. SUFFICES ASSUME ~torn' PROVE Latest(client.tokens)' /\ Latest(store.tokens)'
      BY <1>5 DEF Newest
    <2>2. ~torn /\ \A d \in Caller : refresh[d].pc \notin {"answer", "save"}
      BY <1>2, <1>4, <2>1 DEF Busy
    <2>3. Latest(client.tokens) /\ Latest(store.tokens)
      BY <1>1, <2>2 DEF Newest
    <2> QED
      BY <1>2, <2>3 DEF Latest
  <1> QED
    BY <1>1, <1>2, <1>6, <1>8, <1>9 DEF TokensOK, NoFalseTheft

\* The stream takes a result of Refresh.
LEMMA BeforeConnectTokens ==
    ASSUME TypeOK, TokensOK, BeforeConnect
    PROVE  TokensOK' /\ \A d \in Caller : refresh'[d].pc = "save" => refresh[d].pc = "save"
  <1>1. CallType /\ CallOK /\ Newest /\ NoFalseTheft
    BY TypeParts DEF TokensOK
  <1>2. /\ family' = family /\ client' = client /\ store' = store /\ user' = user
        /\ tripped' = tripped /\ torn' = torn
    BY DEF BeforeConnect, server, history
  <1>3. Steady /\ Token' = Token
    BY <1>2, NoGrowth
  <1>4. \A d \in Caller : \/ refresh'[d] = refresh[d]
                          \/ refresh'[d] = NoCall /\ refresh[d].pc \in {"ok", "err"}
    BY <1>1 DEF BeforeConnect, Call, CallType
  <1>5. \A d \in Caller : /\ Busy(d)' <=> Busy(d)
                          /\ Busy(d) => refresh'[d] = refresh[d]
                          /\ \A p \in {"answer", "save"} : refresh'[d].pc = p <=> refresh[d].pc = p
                          /\ refresh'[d].tokens \in {NoTokens, refresh[d].tokens}
    BY <1>4 DEF Busy, NoCall
  <1>6. CallOK'
    BY <1>1, <1>3, <1>5 DEF CallOK
  <1>7. \A f : Outside(f) => Outside(f)'
    BY <1>2, <1>5 DEF Outside
  <1>8. UserOK' /\ NewFamily'
    BY <1>2, <1>3, <1>7, RefreshUser
  <1>9. Newest'
    <2>1. SUFFICES ASSUME ~torn PROVE Newest'
      BY <1>2 DEF Newest
    <2>2. \A d \in Caller : Busy(d)' => Latest(refresh[d].tokens)'
      BY <1>1, <1>2, <1>5, <2>1 DEF Newest, Latest
    <2>3. (\A d \in Caller : refresh'[d].pc # "answer") => Latest(client.tokens)'
      BY <1>1, <1>2, <1>5, <2>1 DEF Newest, Latest
    <2>4. (\A d \in Caller : refresh'[d].pc \notin {"answer", "save"}) => Latest(store.tokens)'
      BY <1>1, <1>2, <1>5, <2>1 DEF Newest, Latest
    <2> QED
      BY <2>2, <2>3, <2>4 DEF Newest
  <1> QED
    BY <1>1, <1>2, <1>5, <1>6, <1>8, <1>9 DEF TokensOK, NoFalseTheft


\* The server rotates the token.
LEMMA RotateTokens ==
    ASSUME TypeOK, TokensOK, NEW c \in Caller, Post(c),
           family[refresh[c].tokens.fam] = refresh[c].tokens.gen
    PROVE  TokensOK' /\ \A d \in Caller : refresh'[d].pc = "save" => refresh[d].pc = "save"
  <1>1. LockType /\ CallType /\ UserType /\ UserOK /\ NewFamily /\ NoFalseTheft /\ CallOK
    BY TypeParts DEF TokensOK
  <1>2. PICK t : t = refresh[c].tokens
    OBVIOUS
  <1>3. PICK n : n = [fam |-> t.fam, gen |-> t.gen + 1]
    OBVIOUS
  <1>4. /\ refreshMu = c /\ t \in Token /\ t.fam \in 1..Len(family) /\ t.gen \in Nat \ {0}
        /\ family \in Seq(Nat) /\ Len(family) \in Nat
        /\ family' = [family EXCEPT ![t.fam] = t.gen + 1] /\ tripped' = tripped
        /\ Call(c, [pc |-> "answer", tokens |-> n, email |-> refresh[c].email])
    BY <1>1, <1>2, <1>3, PostFacts
  <1>5. /\ client' = client /\ store' = store /\ user' = user /\ torn' = torn
    BY DEF Post
  <1>6. /\ Len(family') = Len(family)
        /\ \A j \in 1..Len(family) : family'[j] = IF j = t.fam THEN t.gen + 1 ELSE family[j]
    BY <1>4, ExceptSeq
  <1>7. Token' = Token /\ Held' = Held
    BY <1>6 DEF Token, Held
  <1>8. n \in Token /\ t # NoTokens
    BY <1>3, <1>4, SessionAssumption DEF Token
  <1>9. PICK call : call = [pc |-> "answer", tokens |-> n, email |-> refresh[c].email]
    OBVIOUS
  <1>10. \A d \in Caller : refresh'[d] = IF d = c THEN call ELSE refresh[d]
    BY <1>1, <1>4, <1>9 DEF CallType, Call
  <1>11. \A d \in Caller : d # c => ~Busy(d)
    BY <1>1, <1>4 DEF LockType
  <1>12. \A d \in Caller : Busy(d)' => d = c
    BY <1>10, <1>11 DEF Busy
  <1>13. refresh'[c].tokens = n /\ refresh'[c].pc = "answer"
    BY <1>9, <1>10
  <1>14. CallOK'
    BY <1>7, <1>8, <1>12, <1>13 DEF CallOK
  <1>15. n.fam = t.fam /\ n.gen = t.gen + 1
    BY <1>3
  <1>16. \A f : Outside(f) => Outside(f)' /\ f # t.fam
    <2>1. SUFFICES ASSUME NEW f, Outside(f) PROVE Outside(f)' /\ f # t.fam
      OBVIOUS
    <2>2. f # t.fam
      BY <1>2, <1>8, <2>1 DEF Outside
    <2>3. \A d \in Caller : refresh'[d].tokens # NoTokens => refresh'[d].tokens.fam # f
      BY <1>10, <1>13, <1>15, <2>1, <2>2 DEF Outside
    <2> QED
      BY <1>5, <2>1, <2>2, <2>3 DEF Outside
  <1>17. UserOK'
    BY <1>1, <1>5, <1>7 DEF UserOK
  <1>18. NewFamily'
    <2>1. SUFFICES ASSUME user.steps \in Issuing
                   PROVE  Latest(user.tokens)' /\ Outside(user.tokens.fam)'
      BY <1>5 DEF NewFamily
    <2>2. PICK u : u = user.tokens
      OBVIOUS
    <2>3. Latest(u) /\ Outside(u.fam) /\ u \in Token
      BY <1>1, <2>1, <2>2 DEF NewFamily, UserOK
    <2>4. u.fam # t.fam /\ Outside(u.fam)'
      BY <1>16, <2>3
    <2>5. family'[u.fam] = family[u.fam]
      BY <1>6, <2>3, <2>4 DEF Token
    <2>6. Latest(u)'
      BY <2>3, <2>5 DEF Latest
    <2> QED
      BY <1>5, <2>2, <2>4, <2>6 DEF Latest, Outside
  <1>19. Newest'
    <2>1. Latest(n)'
      BY <1>4, <1>6, <1>15 DEF Latest
    <2>2. \A d \in Caller : Busy(d)' => Latest(refresh[d].tokens)'
      BY <1>12, <1>13, <2>1 DEF Latest
    <2> QED
      BY <1>13, <2>2 DEF Newest
  <1>20. \A d \in Caller : refresh'[d].pc = "save" => refresh[d].pc = "save"
    BY <1>10, <1>13
  <1> QED
    BY <1>1, <1>4, <1>5, <1>14, <1>17, <1>18, <1>19, <1>20 DEF TokensOK, NoFalseTheft

\* The server refuses the token: of a family that has ended, unless something was torn.
LEMMA RefuseTokens ==
    ASSUME TypeOK, TokensOK, NEW c \in Caller, Post(c),
           family[refresh[c].tokens.fam] # refresh[c].tokens.gen
    PROVE  TokensOK' /\ \A d \in Caller : refresh'[d].pc \in {"idle", "ok", "err"}
  <1>1. LockType /\ CallType /\ ClientType /\ StoreType /\ Newest /\ NoFalseTheft /\ CallOK
    BY TypeParts DEF TokensOK
  <1>2. PICK t : t = refresh[c].tokens
    OBVIOUS
  <1>3. /\ refreshMu = c /\ t \in Token /\ t.fam \in 1..Len(family) /\ t.gen \in Nat \ {0}
        /\ family \in Seq(Nat) /\ Len(family) \in Nat
        /\ family' = [family EXCEPT ![t.fam] = 0] /\ Unlock(c, FALSE)
        /\ tripped' = (tripped \/ family[t.fam] # 0)
    BY <1>1, <1>2, PostFacts
  <1>4. /\ client' = client /\ store' = store /\ user' = user /\ torn' = torn
        /\ refresh[c].pc = "post"
    BY DEF Post
  <1>5. /\ family' \in Seq(Nat) /\ Len(family') = Len(family)
        /\ \A j \in 1..Len(family) : family'[j] = IF j = t.fam THEN 0 ELSE family[j]
    BY <1>3, ExceptSeq
  <1>6. Steady
    BY <1>3, <1>5 DEF Steady
  <1>7. Token \subseteq Token' /\ Held \subseteq Held' /\ \A s \in Held : Latest(s) => Latest(s)'
    BY <1>3, <1>6, SteadyTokens
  <1>8. /\ \A d \in Caller : ~Busy(d)'
        /\ \A d \in Caller : refresh'[d].tokens \in {NoTokens, refresh[d].tokens}
        /\ \A d \in Caller : refresh'[d].pc \in {"idle", "ok", "err"}
    BY <1>3, <1>7, HolderEnds
  <1>9. CallOK'
    BY <1>8 DEF CallOK
  <1>10. \A f : Outside(f) => Outside(f)'
    BY <1>4, <1>8 DEF Outside
  <1>11. UserOK' /\ NewFamily'
    BY <1>4, <1>6, <1>10, RefreshUser
  <1>12. Busy(c) /\ \A d \in Caller : d # c => ~Busy(d)
    BY <1>1, <1>3, <1>4 DEF LockType, Busy
  <1>13. t # NoTokens
    BY <1>3, SessionAssumption DEF Token
  <1>14. NoFalseTheft'
    <2>1. SUFFICES ASSUME ~torn PROVE ~tripped'
      BY <1>4 DEF NoFalseTheft
    <2>2. Latest(t)
      BY <1>1, <1>2, <1>12, <2>1 DEF Newest
    <2>3. family[t.fam] = 0
      BY <1>2, <1>13, <2>2 DEF Latest
    <2> QED
      BY <1>1, <1>3, <2>1, <2>3 DEF NoFalseTheft
  <1>15. Newest'
    <2>1. SUFFICES ASSUME ~torn PROVE Latest(client.tokens)' /\ Latest(store.tokens)'
      BY <1>4, <1>8 DEF Newest
    <2>2. \A d \in Caller : refresh[d].pc \notin {"answer", "save"}
      BY <1>4, <1>12 DEF Busy
    <2>3. PICK ct : ct = client.tokens
      OBVIOUS
    <2>4. PICK st : st = store.tokens
      OBVIOUS
    <2>5. Latest(ct) /\ Latest(st) /\ ct \in Held /\ st \in Held
      BY <1>1, <2>1, <2>2, <2>3, <2>4 DEF Newest, ClientType, StoreType
    <2>6. Latest(ct)' /\ Latest(st)'
      BY <1>7, <2>5
    <2> QED
      BY <1>4, <2>3, <2>4, <2>6 DEF Latest
  <1> QED
    BY <1>8, <1>9, <1>11, <1>14, <1>15 DEF TokensOK


-----------------------------------------------------------------------------
(* Logging out.                                                             *)

ClearsOK == ClearOK /\ LogOutClears

\* A step that leaves the call, the credentials and the record of LogOut alone.
LEMMA ClearFrame ==
    ASSUME ClearsOK, user' = user, out' = out, client' = client, store' = store,
           \A d \in Caller : refresh'[d].pc = "save" => refresh[d].pc = "save"
    PROVE  ClearsOK'
  BY DEF ClearsOK, ClearOK, LogOutClears, KeyGone, TokensGone, StoreGone

\* Nobody is logging out, nor out.
LEMMA NotLeaving ==
    ASSUME ~out'.done, user'.steps \notin Clearing
    PROVE  ClearsOK'
  BY DEF ClearsOK, ClearOK, LogOutClears, KeyGone, TokensGone, StoreGone, Clearing

\* A call that changes the password, or no call.
LEMMA StillOut ==
    ASSUME ClearsOK, user'.steps \in {<<>>} \cup Changing, out' = out, client' = client,
           store' = store, refresh' = refresh
    PROVE  ClearsOK'
  <1>1. user'.steps \notin Clearing
    BY Apart
  <1> QED
    BY <1>1 DEF ClearsOK, ClearOK, LogOutClears, KeyGone, TokensGone, StoreGone, Clearing

\* An Install during or after LogOut is an overlap.
LEMMA InstallClears ==
    ASSUME TypeOK, ClearsOK, UserOK, NEW c \in Caller, Install(c)
    PROVE  ClearsOK'
  <1>1. ClientType /\ CallType /\ HistoryType
    BY TypeParts
  <1>2. /\ user' = user /\ store' = store
        /\ client'.email = client.email /\ client'.encKey = client.encKey
    BY <1>1 DEF Install, ClientType
  <1>3. /\ out'.done = out.done /\ out'.email = out.email /\ out'.kept = out.kept
        /\ out'.overlap = (out.overlap \/ out.done \/ user.steps # <<>>)
    BY <1>1 DEF Install, HistoryType
  <1>4. CASE out.done \/ user.steps # <<>>
    <2>1. out'.overlap
      BY <1>3, <1>4
    <2> QED
      BY <1>2, <1>3, <2>1 DEF ClearsOK, ClearOK, LogOutClears, KeyGone, TokensGone, StoreGone
  <1>5. CASE ~out.done /\ user.steps = <<>>
    BY <1>2, <1>3, <1>5, NotLeaving, Apart
  <1> QED
    BY <1>4, <1>5

\* So was the Install before a Save.
LEMMA SaveClears ==
    ASSUME TypeOK, ClearsOK, NEW c \in Caller, NEW wrote \in Outcome, Save(c, wrote)
    PROVE  ClearsOK'
  <1>1. StoreType /\ LockType /\ CallType
    BY TypeParts
  <1>2. user' = user /\ out' = out /\ client' = client
    BY DEF Save
  <1>3. store'.encKey = store.encKey
    BY <1>1 DEF Save, Saved, StoreType
  <1>4. CASE user.steps \in Clearing \/ out.done
    <2>1. out.overlap
      BY <1>4 DEF ClearsOK, ClearOK, Save
    <2> QED
      BY <1>2, <1>3, <2>1 DEF ClearsOK, ClearOK, LogOutClears, KeyGone, TokensGone, StoreGone
  <1>5. CASE ~(user.steps \in Clearing \/ out.done)
    BY <1>2, <1>5, NotLeaving
  <1> QED
    BY <1>4, <1>5

\* A restart finds the cleared store, unless something overlapped.
LEMMA RestartClears ==
    ASSUME TypeOK, ClearsOK, Restart
    PROVE  ClearsOK'
  <1>1. HistoryType
    BY TypeParts
  <1>2. user'.steps = <<>> /\ user'.steps \notin Clearing
    BY Apart DEF Restart, NoUser
  <1>3. /\ out'.done = out.done /\ out'.email = out.email /\ out'.kept = out.kept
        /\ out'.overlap = (out.overlap \/ user.steps # <<>>)
    BY <1>1 DEF Restart, HistoryType
  <1>4. \A d \in Caller : refresh'[d].pc # "save"
    BY DEF Restart, NoCall
  <1>5. /\ store' = store
        /\ client' = [tokens |-> IF store.active THEN store.tokens ELSE NoTokens,
                      email |-> store.active, encKey |-> 0]
    BY DEF Restart
  <1>6. LogOutClears'
    <2>1. SUFFICES ASSUME out.done, out.email
                   PROVE  /\ client'.encKey = 0 /\ KeyGone
                          /\ out'.overlap \/ (TokensGone' /\ StoreGone)
      BY <1>3, <1>5 DEF LogOutClears, KeyGone, TokensGone, StoreGone
    <2>2. KeyGone /\ (out.overlap \/ StoreGone)
      BY <2>1 DEF ClearsOK, LogOutClears, KeyGone, StoreGone
    <2>3. StoreGone => TokensGone'
      BY <1>3, <1>5 DEF StoreGone, TokensGone
    <2> QED
      BY <1>3, <1>5, <2>2, <2>3
  <1>7. ClearOK'
    BY <1>2, <1>4 DEF ClearOK, Clearing
  <1> QED
    BY <1>6, <1>7 DEF ClearsOK

\* LogOut and RequestAccountDeletion begin.
LEMMA LeaveClears ==
    ASSUME TypeOK, NEW flag \in BOOLEAN, LogOut(flag) \/ RequestAccountDeletion
    PROVE  ClearsOK'
  <1>1. user'.steps = Clear1
    BY LeaveTypes
  <1>2. Clear1 \notin {Clear2, Clear3, Clear4} /\ Clear1 \notin {<<>>} \cup Changing
    BY MoreTails, NotDone DEF Changing
  <1>3. /\ out' = [email |-> client.email, overlap |-> Refreshing, kept |-> {}, done |-> FALSE]
        /\ client' = client /\ refresh' = refresh
    BY DEF LogOut, RequestAccountDeletion
  <1>4. \A d \in Caller : refresh'[d].pc = "save" => out'.overlap
    BY <1>3 DEF Refreshing
  <1> QED
    BY <1>1, <1>2, <1>3, <1>4 DEF ClearsOK, ClearOK, LogOutClears, KeyGone, TokensGone, StoreGone

\* Each step of LogOut clears its part.
LEMMA ClearStepClears ==
    ASSUME TypeOK, UserOK, ClearsOK, ClearStep
    PROVE  ClearsOK'
  <1>1. ClientType /\ StoreType /\ HistoryType
    BY TypeParts
  <1>2. user'.steps = Tail(user.steps) /\ refresh' = refresh
    BY ClearStepTypes, ClearStepCases
  <1>3. /\ Clear2 \in Clearing /\ Clear3 \in Clearing /\ Clear4 \in Clearing
        /\ Clear1 # Clear2 /\ Clear1 # Clear3 /\ Clear1 # Clear4
        /\ Clear2 # Clear3 /\ Clear2 # Clear4 /\ Clear3 # Clear4
        /\ <<>> \notin Clearing
    BY MoreTails, NotDone DEF Clearing
  <1>4. /\ user.steps \in Clearing /\ out'.email = out.email /\ out'.overlap = out.overlap
        /\ out.kept \subseteq out'.kept
    BY ClearStepCases DEF Left, Clearing
  <1>5. /\ out.email => client.email
        /\ \A c \in Caller : refresh[c].pc = "save" => out.overlap
    BY <1>4 DEF ClearsOK, ClearOK
  <1>6. CASE user.steps = Clear1
    <2>1. PICK kept \in SUBSET {"encKey"} :
            /\ user'.steps = Clear2 /\ client' = client /\ Left(kept, FALSE)
            /\ client.email => store' = KeyCleared(kept)
      BY <1>2, <1>3, <1>6, ClearStepCases
    <2>2. ~out'.done /\ (out.email => KeyGone')
      BY <1>5, <2>1 DEF KeyGone, KeyCleared, Left
    <2> QED
      BY <1>2, <1>3, <1>4, <1>5, <2>1, <2>2 DEF ClearsOK, ClearOK, LogOutClears
  <1>7. CASE user.steps = Clear2
    <2>1. PICK kept \in SUBSET {"tokens", "active"} :
            /\ user'.steps = Clear3 /\ client' = client /\ Left(kept, FALSE)
            /\ client.email => store' = SessionCleared(kept)
      BY <1>2, <1>3, <1>7, ClearStepCases
    <2>2. out.email => KeyGone
      BY <1>7 DEF ClearsOK, ClearOK
    <2>3. ~out'.done /\ (out.email => KeyGone')
      BY <1>5, <2>1, <2>2 DEF KeyGone, SessionCleared, Left
    <2>4. kept \subseteq out'.kept
      BY <2>1 DEF Left
    <2>5. /\ SessionCleared(kept).tokens = IF "tokens" \in kept THEN store.tokens ELSE NoTokens
          /\ SessionCleared(kept).active => "active" \in kept
      BY DEF SessionCleared
    <2>6. out.email => StoreGone'
      BY <1>5, <2>1, <2>4, <2>5 DEF StoreGone
    <2> QED
      BY <1>2, <1>3, <1>4, <1>5, <2>1, <2>3, <2>6 DEF ClearsOK, ClearOK, LogOutClears
  <1>8. CASE user.steps = Clear3
    <2>1. /\ user'.steps = Clear4 /\ store' = store /\ Left({}, FALSE)
          /\ client' = [client EXCEPT !.tokens = NoTokens]
      BY <1>2, <1>3, <1>8, ClearStepCases
    <2>2. out.email => KeyGone /\ (out.overlap \/ StoreGone)
      BY <1>8 DEF ClearsOK, ClearOK
    <2>3. client'.tokens = NoTokens /\ client'.email = client.email /\ ~out'.done
      BY <1>1, <2>1 DEF ClientType, Left
    <2> QED
      BY <1>2, <1>3, <1>4, <1>5, <2>1, <2>2, <2>3 DEF ClearsOK, ClearOK, LogOutClears, KeyGone, TokensGone, StoreGone
  <1>9. CASE user.steps = Clear4
    <2>1. /\ user'.steps = <<>> /\ store' = store /\ Left({}, TRUE)
          /\ client' = [tokens |-> client.tokens, email |-> FALSE, encKey |-> 0]
      BY <1>2, <1>3, <1>9, ClearStepCases
    <2>2. out.email => KeyGone /\ (out.overlap \/ (StoreGone /\ TokensGone))
      BY <1>9 DEF ClearsOK, ClearOK
    <2>3. client'.encKey = 0 /\ client'.tokens = client.tokens
      BY <2>1
    <2>4. LogOutClears'
      BY <1>4, <2>1, <2>2, <2>3 DEF LogOutClears, KeyGone, StoreGone, TokensGone
    <2>5. ClearOK'
      BY <1>2, <1>3, <1>4, <1>5, <2>1 DEF ClearOK
    <2> QED
      BY <2>4, <2>5 DEF ClearsOK
  <1> QED
    BY <1>4, <1>6, <1>7, <1>8, <1>9 DEF Clearing


-----------------------------------------------------------------------------
(* The identities blob.                                                     *)

BlobsOK == BlobOK /\ BlobOpens

\* A step that leaves the account and its blob alone.
LEMMA BlobFrame ==
    ASSUME BlobsOK, password' = password, blob' = blob, cause' = cause,
           password = 0 => family' = family,
           \/ user'.steps \in {<<>>, KeyLast} \cup Issuing \cup Keeping \cup Clearing
           \/ user'.steps = Factor /\ user.steps = TwoFactor
           \/ user' = user /\ client'.encKey = client.encKey
    PROVE  BlobsOK'
  <1>1. BlobOpens'
    BY DEF BlobsOK, BlobOpens
  <1>2. password' = 0 => blob' = 0 /\ family' = <<>>
    BY DEF BlobsOK, BlobOK
  <1>3. CASE user'.steps \in {<<>>, KeyLast} \cup Issuing \cup Keeping \cup Clearing
    <2>1. user'.steps \notin Unissued \cup Changing
      BY <1>3, Apart
    <2> QED
      BY <1>1, <1>2, <2>1 DEF BlobsOK, BlobOK, Unissued, Changing
  <1>4. CASE user'.steps = Factor /\ user.steps = TwoFactor
    <2>1. Factor # Confirm /\ Factor \notin {WrapFirst, Changes}
      BY Tails, MoreTails
    <2>2. password # 0
      BY <1>4 DEF BlobsOK, BlobOK
    <2> QED
      BY <1>1, <1>4, <2>1, <2>2 DEF BlobsOK, BlobOK
  <1>5. CASE user' = user /\ client'.encKey = client.encKey
    BY <1>1, <1>2, <1>5 DEF BlobsOK, BlobOK
  <1> QED
    BY <1>3, <1>4, <1>5

\* Uploads and a reset: the cause is kept.
LEMMA PushBlobs ==
    ASSUME TypeOK, BlobsOK, OtherPush \/ ResetPassword \/ PushIdentities
    PROVE  BlobsOK'
  <1>1. AccountType
    BY TypeParts
  <1>2. password # 0 /\ password' # 0
    <2>1. CASE OtherPush \/ ResetPassword
      BY <1>1, <2>1 DEF OtherPush, ResetPassword, AccountType
    <2>2. CASE PushIdentities
      BY <2>2, AcceptedToken DEF PushIdentities, BlobsOK, BlobOK
    <2> QED
      BY <2>1, <2>2
  <1>3. user' = user
    BY DEF OtherPush, ResetPassword, PushIdentities, device
  <1>4. BlobOpens'
    BY DEF OtherPush, ResetPassword, PushIdentities, BlobOpens
  <1>5. BlobOK'
    BY <1>2, <1>3 DEF BlobOK, BlobsOK
  <1> QED
    BY <1>4, <1>5 DEF BlobsOK

\* LogIn needs an account and leaves it alone.
LEMMA LogInBlobs ==
    ASSUME BlobsOK, NEW flag \in BOOLEAN, LogIn(flag), user'.steps \in {TwoFactor, Key}
    PROVE  BlobsOK'
  <1>1. password' = password /\ blob' = blob /\ cause' = cause /\ password # 0
    BY DEF LogIn
  <1>2. /\ TwoFactor # Confirm /\ Key # Confirm
        /\ TwoFactor \notin {WrapFirst, Changes} /\ Key \notin {WrapFirst, Changes}
    BY Tails, MoreTails
  <1> QED
    BY <1>1, <1>2 DEF BlobsOK, BlobOK, BlobOpens

\* SignUp holds a key; there is no account, and so no blob.
LEMMA SignUpBlobs ==
    ASSUME TypeOK, BlobsOK, SignUp
    PROVE  BlobsOK'
  <1>1. AccountType /\ ClientType
    BY TypeParts
  <1>2. /\ password' = password /\ blob' = blob /\ family' = family /\ cause' = cause
        /\ password = 0
    BY DEF SignUp, server
  <1>3. user'.steps = Confirm
    BY DEF SignUp, NoUser, Confirm
  <1>4. client'.encKey # 0
    BY <1>1 DEF SignUp, ClientType, AccountType
  <1>5. Confirm \notin {TwoFactor, Factor} \cup Changing /\ Confirm \notin {WrapFirst, Changes}
    BY Tails, MoreTails DEF Changing
  <1> QED
    BY <1>2, <1>3, <1>4, <1>5 DEF BlobsOK, BlobOK, BlobOpens

\* ConfirmSignUp makes the account: there is no blob to open.
LEMMA ConfirmBlobs ==
    ASSUME BlobsOK, ConfirmSignUp, user.steps = Confirm, user'.steps = SetFirst
    PROVE  BlobsOK'
  <1>1. blob' = blob /\ password' = client.encKey /\ cause' = cause
    BY DEF ConfirmSignUp, history
  <1>2. blob = 0 /\ client.encKey # 0
    BY DEF BlobsOK, BlobOK
  <1>3. SetFirst # Confirm /\ SetFirst \notin {TwoFactor, Factor} \cup Changing
    BY Tails, MoreTails DEF Changing
  <1> QED
    BY <1>1, <1>2, <1>3 DEF BlobsOK, BlobOK, BlobOpens, Changing

\* ChangePassword begins with a key that is not 0.
LEMMA ChangePasswordBlobs ==
    ASSUME TypeOK, BlobsOK, NEW flag \in BOOLEAN, ChangePassword(flag)
    PROVE  BlobsOK'
  <1>1. chosen \in Nat
    BY DEF TypeOK
  <1>2. user'.steps \in {WrapFirst, Changes} /\ user'.key # 0
    BY <1>1, ChangePasswordTypes
  <1>3. WrapFirst # Confirm /\ Changes # Confirm
    BY Tails, MoreTails
  <1>4. password' = password /\ blob' = blob /\ cause' = cause /\ password # 0
    BY DEF ChangePassword, server, history
  <1> QED
    BY <1>2, <1>3, <1>4 DEF BlobsOK, BlobOK, BlobOpens

\* Rewrap: the blob opens with the password to come.
LEMMA RewrapBlobs ==
    ASSUME TypeOK, UserOK, BlobsOK, Rewrap
    PROVE  BlobsOK'
  <1>1. user.steps = WrapFirst /\ user'.steps = Changes /\ user'.key = user.key
    BY RewrapTypes
  <1>2. password # 0 /\ user.key # 0
    BY <1>1 DEF BlobsOK, BlobOK, Changing
  <1>3. Changes # Confirm
    BY Tails, MoreTails
  <1>4. password' = password /\ cause' = {"halfway"}
    BY DEF Rewrap
  <1> QED
    BY <1>1, <1>2, <1>3, <1>4 DEF BlobsOK, BlobOK, BlobOpens

\* Change: the cause says whether the blob was wrapped.
LEMMA ChangeBlobs ==
    ASSUME TypeOK, UserOK, BlobsOK, Change
    PROVE  BlobsOK'
  <1>1. user.steps = Changes /\ user'.steps = Again
    BY ChangeTypes
  <1>2. password' = user.key /\ user.key # 0
    BY <1>1 DEF BlobsOK, BlobOK, Change
  <1>3. Again # Confirm /\ Again \notin {WrapFirst, Changes}
    BY Tails, MoreTails
  <1>4. BlobOpens'
    BY DEF BlobOpens, Change
  <1> QED
    BY <1>1, <1>2, <1>3, <1>4 DEF BlobsOK, BlobOK

\* The call fails, before or after the server has changed the password.
LEMMA UserFailsBlobs ==
    ASSUME TypeOK, UserOK, BlobsOK, NEW flag \in BOOLEAN, UserFails(flag)
    PROVE  BlobsOK'
  <1>1. user'.steps = <<>>
    BY UserFailsTypes
  <1>2. <<>> \notin Unissued \cup Changing
    BY Apart
  <1>3. BlobOpens'
    BY DEF BlobOpens, UserFails
  <1>4. password' = 0 => blob' = 0 /\ family' = <<>>
    <2>1. CASE flag
      <3>1. user.steps = Changes
        BY <2>1, StepsLeft DEF UserFails, Doing, UserOK
      <3>2. password' = user.key /\ user.key # 0
        BY <2>1, <3>1 DEF UserFails, BlobsOK, BlobOK
      <3> QED
        BY <3>2
    <2>2. CASE ~flag
      BY <2>2 DEF UserFails, BlobsOK, BlobOK
    <2> QED
      BY <2>1, <2>2
  <1> QED
    BY <1>1, <1>2, <1>3, <1>4 DEF BlobsOK, BlobOK, Unissued, Changing


-----------------------------------------------------------------------------
(* The inductive invariant.                                                 *)

SessionInv == TypeOK /\ TokensOK /\ ClearsOK /\ BlobsOK

\* The initial states.
LEMMA SessionInitInv == Init => SessionInv
  <1> SUFFICES ASSUME Init PROVE SessionInv
    OBVIOUS
  <1>1. /\ family = <<>> /\ client = Signed /\ store = NoStore /\ fresh = {} /\ refreshMu = "none"
        /\ refresh = [c \in Caller |-> NoCall] /\ user = NoUser /\ stream = NoStream
        /\ torn = FALSE /\ tripped = FALSE /\ out = SignedIn /\ cause = {} /\ events = 0
        /\ \/ password = 0 /\ chosen = 0 /\ blob = 0
           \/ password = 1 /\ chosen = 1 /\ blob \in {0, 1}
    BY DEF Init
  <1>2. /\ user.steps = <<>> /\ <<>> \notin Unissued \cup Issuing \cup Keeping \cup Clearing \cup Changing
        /\ \A c \in Caller : refresh[c].pc = "idle" /\ ~Busy(c)
    BY <1>1, Apart DEF NoUser, NoCall, Busy
  <1>3. NoTokens \in Held
    BY DEF Held
  <1>4. TypeOK
    <2>1. AccountType
      BY <1>1 DEF AccountType
    <2>2. 0 \in 0..chosen
      BY <2>1 DEF AccountType
    <2>3. ClientType /\ StoreType
      BY <1>1, <1>3, <2>2 DEF ClientType, StoreType, Signed, NoStore
    <2>4. FreshType /\ StreamType /\ EventType
      BY <1>1, SessionAssumption DEF FreshType, StreamType, NoStream, EventType
    <2>5. LockType
      BY <1>1, <1>2, SessionAssumption DEF LockType
    <2>6. NoCall \in [pc : {"idle", "post", "answer", "save", "ok", "err"},
                      tokens : Held, email : BOOLEAN]
      BY <1>3 DEF NoCall
    <2>7. CallType
      BY <1>1, <2>6 DEF CallType
    <2>8. UserType
      BY <1>1, <1>3, <2>2 DEF UserType, NoUser
    <2>9. HistoryType
      BY <1>1 DEF HistoryType, SignedIn
    <2> QED
      BY <2>1, <2>3, <2>4, <2>5, <2>7, <2>8, <2>9, TypeParts
  <1>5. TokensOK
    BY <1>1, <1>2 DEF TokensOK, CallOK, UserOK, Shape, NewFamily, Newest, NoFalseTheft, Latest,
                      Signed, NoStore
  <1>6. ClearsOK
    BY <1>1, <1>2 DEF ClearsOK, ClearOK, LogOutClears, SignedIn, Clearing
  <1>7. BlobsOK
    BY <1>1, <1>2 DEF BlobsOK, BlobOK, BlobOpens, Unissued, Changing
  <1> QED
    BY <1>4, <1>5, <1>6, <1>7 DEF SessionInv

\* The steps of Refresh keep the invariant.
LEMMA RefreshStepInv ==
    ASSUME SessionInv, NEW c \in Caller, RefreshStep(c) \/ RefreshFails(c)
    PROVE  SessionInv'
  <1>1. TypeOK /\ TokensOK /\ CallOK /\ UserOK /\ ClearsOK /\ BlobsOK /\ CallType /\ ClientType
    BY TypeParts DEF SessionInv, TokensOK
  <1>2. CASE Acquire(c)
    <2>1. /\ user' = user /\ out' = out /\ client' = client /\ store' = store /\ family' = family
          /\ password' = password /\ blob' = blob /\ cause' = cause
      BY <1>2 DEF Acquire, server, history
    <2>2. ClearsOK' /\ BlobsOK'
      BY <1>1, <1>2, <2>1, AcquireTokens, ClearFrame, BlobFrame
    <2> QED
      BY <1>1, <1>2, <2>2, AcquireTypes, AcquireTokens DEF SessionInv
  <1>3. CASE Post(c)
    <2>1. /\ user' = user /\ out' = out /\ client' = client /\ store' = store
          /\ password' = password /\ blob' = blob /\ cause' = cause
      BY <1>3 DEF Post
    <2>2. password # 0
      <3>1. PICK t : t = refresh[c].tokens
        OBVIOUS
      <3>2. t.fam \in 1..Len(family)
        BY <1>1, <1>3, <3>1, PostFacts
      <3> QED
        BY <1>1, <3>2 DEF BlobsOK, BlobOK
    <2>3. TokensOK' /\ \A d \in Caller : refresh'[d].pc = "save" => refresh[d].pc = "save"
      BY <1>1, <1>3, RotateTokens, RefuseTokens
    <2>4. ClearsOK' /\ BlobsOK'
      BY <1>1, <2>1, <2>2, <2>3, ClearFrame, BlobFrame
    <2> QED
      BY <1>1, <1>3, <2>3, <2>4, PostTypes DEF SessionInv
  <1>4. CASE Install(c)
    <2>1. /\ user' = user /\ client'.encKey = client.encKey /\ family' = family
          /\ password' = password /\ blob' = blob /\ cause' = cause
      BY <1>1, <1>4 DEF Install, server, ClientType
    <2>2. ClearsOK' /\ BlobsOK'
      BY <1>1, <1>4, <2>1, InstallClears, BlobFrame
    <2> QED
      BY <1>1, <1>4, <2>2, InstallTypes, InstallTokens DEF SessionInv
  <1>5. ASSUME NEW wrote \in Outcome, Save(c, wrote) PROVE SessionInv'
    <2>1. /\ user' = user /\ client' = client /\ family' = family
          /\ password' = password /\ blob' = blob /\ cause' = cause
      BY <1>5 DEF Save, server
    <2>2. ClearsOK' /\ BlobsOK'
      BY <1>1, <1>5, <2>1, SaveClears, BlobFrame
    <2> QED
      BY <1>1, <1>5, <2>2, SaveTypes, SaveTokensOK DEF SessionInv
  <1>6. CASE RefreshFails(c)
    <2>1. /\ user' = user /\ out' = out /\ client' = client /\ store' = store /\ family' = family
          /\ password' = password /\ blob' = blob /\ cause' = cause
      BY <1>6 DEF RefreshFails, server
    <2>2. \A d \in Caller : refresh'[d].pc = "save" => refresh[d].pc = "save"
      BY <1>1, <1>6 DEF RefreshFails, Unlock, Call, CallType, NoCall
    <2>3. ClearsOK' /\ BlobsOK'
      BY <1>1, <2>1, <2>2, ClearFrame, BlobFrame
    <2> QED
      BY <1>1, <1>6, <2>3, RefreshFailsTypes, RefreshFailsTokens DEF SessionInv
  <1> QED
    BY <1>2, <1>3, <1>4, <1>5, <1>6 DEF RefreshStep

\* The stream, the other devices, and time.
LEMMA QuietStepInv ==
    ASSUME SessionInv, NEW flag \in BOOLEAN,
           \/ StartStream \/ StreamStep \/ Cancel \/ Break(flag)
           \/ OtherPush \/ ResetPassword \/ Expire \/ PushIdentities
    PROVE  SessionInv'
  <1>1. TypeOK /\ TokensOK /\ ClearsOK /\ BlobsOK
    BY DEF SessionInv
  <1>2. CASE StartStream \/ Connect \/ Wait \/ Cancel \/ Break(flag) \/ Expire
    <2>1. /\ user' = user /\ out' = out /\ client' = client /\ store' = store /\ family' = family
          /\ refresh' = refresh /\ password' = password /\ blob' = blob /\ cause' = cause
      BY <1>2 DEF StartStream, Connect, Wait, Cancel, Break, Expire, server, device, history
    <2>2. ClearsOK' /\ BlobsOK'
      BY <1>1, <2>1, ClearFrame, BlobFrame
    <2> QED
      BY <1>1, <1>2, <2>2, StreamTypes, OtherTypes, QuietTokens DEF SessionInv
  <1>3. CASE BeforeConnect
    <2>1. /\ user' = user /\ out' = out /\ client' = client /\ store' = store /\ family' = family
          /\ password' = password /\ blob' = blob /\ cause' = cause
      BY <1>3 DEF BeforeConnect, server, history
    <2>2. ClearsOK' /\ BlobsOK'
      BY <1>1, <1>3, <2>1, BeforeConnectTokens, ClearFrame, BlobFrame
    <2> QED
      BY <1>1, <1>3, <2>2, BeforeConnectTypes, BeforeConnectTokens DEF SessionInv
  <1>4. CASE OtherPush \/ ResetPassword \/ PushIdentities
    <2>1. user' = user /\ out' = out /\ client' = client /\ store' = store /\ refresh' = refresh
      BY <1>4 DEF OtherPush, ResetPassword, PushIdentities, device
    <2>2. ClearsOK' /\ BlobsOK'
      BY <1>1, <1>4, <2>1, ClearFrame, PushBlobs
    <2> QED
      BY <1>1, <1>4, <2>2, OtherTypes, QuietTokens DEF SessionInv
  <1> QED
    BY <1>2, <1>3, <1>4 DEF StreamStep


\* So do those of LogIn and SignUp,
LEMMA BeginStepInv ==
    ASSUME SessionInv, NEW flag \in BOOLEAN,
           \/ LogIn(flag) \/ SecondFactor \/ SignUp \/ ConfirmSignUp \/ PersistEncKey(flag)
           \/ SetTokens \/ (\E wrote \in Outcome : SaveTokens(wrote))
    PROVE  SessionInv'
  <1>1. /\ TypeOK /\ TokensOK /\ UserOK /\ ClearsOK /\ BlobsOK
        /\ out.done => user.steps \in {<<>>} \cup Changing
    BY DEF SessionInv, TokensOK, ClearsOK, ClearOK
  <1>2. CASE LogIn(flag)
    <2>1. user'.steps \in {TwoFactor, Key} /\ TokensOK'
      BY <1>1, <1>2, LogInTokens
    <2>2. ~out'.done /\ user'.steps \notin Clearing
      BY <1>2, <2>1, Apart DEF LogIn, SignedIn, Unissued, Issuing
    <2> QED
      BY <1>1, <1>2, <2>1, <2>2, LogInTypes, NotLeaving, LogInBlobs DEF SessionInv
  <1>3. CASE SignUp
    <2>1. user'.steps = Confirm
      BY <1>3 DEF SignUp, NoUser, Confirm
    <2>2. ~out'.done /\ user'.steps \notin Clearing
      BY <1>3, <2>1, Apart DEF SignUp, SignedIn, Unissued
    <2> QED
      BY <1>1, <1>3, <2>2, SignUpTypes, OtherCallTokens, NotLeaving, SignUpBlobs DEF SessionInv
  <1>4. CASE SecondFactor
    <2>1. user.steps = Factor /\ user'.steps = Set /\ TokensOK'
      BY <1>1, <1>4, IssueTokens
    <2>2. ~out'.done /\ user'.steps \notin Clearing
      BY <1>1, <1>4, <2>1, Apart DEF SecondFactor, history, Unissued, Issuing
    <2>3. /\ password' = password /\ blob' = blob /\ cause' = cause /\ password # 0
      BY <1>1, <1>4, <2>1 DEF SecondFactor, history, BlobsOK, BlobOK
    <2>4. BlobsOK'
      BY <1>1, <2>1, <2>3, BlobFrame DEF Issuing
    <2> QED
      BY <1>1, <1>4, <2>1, <2>2, <2>4, IssueTypes, NotLeaving DEF SessionInv
  <1>5. CASE ConfirmSignUp
    <2>1. user.steps = Confirm /\ user'.steps = SetFirst /\ TokensOK'
      BY <1>1, <1>5, IssueTokens
    <2>2. ~out'.done /\ user'.steps \notin Clearing
      BY <1>1, <1>5, <2>1, Apart DEF ConfirmSignUp, history, Unissued, Issuing
    <2> QED
      BY <1>1, <1>5, <2>1, <2>2, IssueTypes, NotLeaving, ConfirmBlobs DEF SessionInv
  <1>6. CASE PersistEncKey(flag)
    <2>1. /\ TokensOK'
          /\ \/ user.steps = TwoFactor /\ user'.steps = Factor
             \/ user.steps = Key /\ user'.steps = Set
             \/ user.steps = KeyLast /\ user'.steps = <<>>
      BY <1>1, <1>6, PersistEncKeyTokens
    <2>2. /\ out' = out /\ family' = family /\ password' = password /\ blob' = blob
          /\ cause' = cause
      BY <1>6 DEF PersistEncKey, history, server
    <2>3. ~out'.done /\ user'.steps \notin Clearing
      BY <1>1, <2>1, <2>2, Apart, NotDone DEF Unissued, Issuing
    <2>4. BlobsOK'
      BY <1>1, <2>1, <2>2, BlobFrame DEF Issuing
    <2> QED
      BY <1>1, <1>6, <2>1, <2>3, <2>4, PersistEncKeyTypes, NotLeaving DEF SessionInv
  <1>7. CASE SetTokens
    <2>1. TokensOK' /\ user.steps \in Issuing /\ user'.steps \in Keeping
      BY <1>1, <1>7, SetTokensTokens DEF Issuing, Keeping
    <2>2. /\ out' = out /\ family' = family /\ password' = password /\ blob' = blob
          /\ cause' = cause
      BY <1>7 DEF SetTokens, history, server
    <2>3. ~out'.done /\ user'.steps \notin Clearing
      BY <1>1, <2>1, <2>2, Apart
    <2>4. BlobsOK'
      BY <1>1, <2>1, <2>2, BlobFrame
    <2> QED
      BY <1>1, <1>7, <2>1, <2>3, <2>4, SetTokensTypes, NotLeaving DEF SessionInv
  <1>8. ASSUME NEW wrote \in Outcome, SaveTokens(wrote) PROVE SessionInv'
    <2>1. TokensOK' /\ user.steps \in Keeping /\ user'.steps \in {<<>>, KeyLast}
      BY <1>1, <1>8, SaveTokensTokens
    <2>2. /\ out' = out /\ family' = family /\ password' = password /\ blob' = blob
          /\ cause' = cause
      BY <1>8 DEF SaveTokens, server
    <2>3. ~out'.done /\ user'.steps \notin Clearing
      BY <1>1, <2>1, <2>2, Apart
    <2>4. BlobsOK'
      BY <1>1, <2>1, <2>2, BlobFrame
    <2> QED
      BY <1>1, <1>8, <2>1, <2>3, <2>4, SaveTokensTypes, NotLeaving DEF SessionInv
  <1> QED
    BY <1>2, <1>3, <1>4, <1>5, <1>6, <1>7, <1>8

\* of LogOut, of ChangePassword, and a restart.
LEMMA LeaveStepInv ==
    ASSUME SessionInv, NEW flag \in BOOLEAN,
           \/ LogOut(flag) \/ RequestAccountDeletion \/ ClearStep \/ Restart
           \/ ChangePassword(flag) \/ Rewrap \/ Change \/ UserFails(flag)
    PROVE  SessionInv'
  <1>1. TypeOK /\ TokensOK /\ UserOK /\ ClearsOK /\ BlobsOK
    BY DEF SessionInv, TokensOK
  <1>2. CASE LogOut(flag) \/ RequestAccountDeletion
    <2>1. user'.steps \in Clearing /\ (family = <<>> => family' = family)
      BY <1>1, <1>2, LeaveTypes DEF Clearing
    <2>2. password' = password /\ blob' = blob /\ cause' = cause
      BY <1>2 DEF LogOut, RequestAccountDeletion
    <2>3. password = 0 => family' = family
      BY <1>1, <2>1 DEF BlobsOK, BlobOK
    <2>4. BlobsOK'
      BY <1>1, <2>1, <2>2, <2>3, BlobFrame
    <2> QED
      BY <1>1, <1>2, <2>4, LeaveTypes, OtherCallTokens, LeaveClears DEF SessionInv
  <1>3. CASE ClearStep
    <2>1. user'.steps \in {<<>>} \cup Clearing
      BY <1>1, <1>3, ClearStepCases, ClearStepTypes DEF Clearing
    <2>2. password' = password /\ blob' = blob /\ cause' = cause /\ family' = family
      BY <1>3 DEF ClearStep, server
    <2>3. BlobsOK'
      BY <1>1, <2>1, <2>2, BlobFrame
    <2> QED
      BY <1>1, <1>3, <2>3, ClearStepTypes, ClearStepTokens, ClearStepClears DEF SessionInv
  <1>4. CASE Restart
    <2>1. user'.steps = <<>> /\ TokensOK'
      BY <1>1, <1>4, RestartTokens
    <2>2. password' = password /\ blob' = blob /\ cause' = cause /\ family' = family
      BY <1>4 DEF Restart, server
    <2>3. BlobsOK'
      BY <1>1, <2>1, <2>2, BlobFrame
    <2> QED
      BY <1>1, <1>4, <2>1, <2>3, RestartTypes, RestartClears DEF SessionInv
  <1>5. CASE ChangePassword(flag) \/ Rewrap \/ Change \/ UserFails(flag)
    <2>1. user'.steps \in {<<>>} \cup Changing
      BY <1>1, <1>5, ChangePasswordTypes, RewrapTypes, ChangeTypes, UserFailsTypes DEF Changing
    <2>2. out' = out /\ client' = client /\ store' = store /\ refresh' = refresh
      BY <1>5 DEF ChangePassword, Rewrap, Change, UserFails, history
    <2>3. ClearsOK'
      BY <1>1, <2>1, <2>2, StillOut
    <2>4. BlobsOK'
      BY <1>1, <1>5, ChangePasswordBlobs, RewrapBlobs, ChangeBlobs, UserFailsBlobs
    <2>5. TypeOK'
      BY <1>1, <1>5, ChangePasswordTypes, RewrapTypes, ChangeTypes, UserFailsTypes
    <2>6. TokensOK'
      BY <1>1, <1>5, OtherCallTokens
    <2> QED
      BY <2>3, <2>4, <2>5, <2>6 DEF SessionInv
  <1> QED
    BY <1>2, <1>3, <1>4, <1>5

\* So does a step that changes nothing.
LEMMA SessionStutterInv == SessionInv /\ UNCHANGED vars => SessionInv'
  <1> SUFFICES ASSUME SessionInv, UNCHANGED vars PROVE SessionInv'
    OBVIOUS
  <1>1. TypeOK /\ TokensOK /\ ClearsOK /\ BlobsOK
    BY DEF SessionInv
  <1>2. /\ family' = family /\ password' = password /\ blob' = blob /\ chosen' = chosen
        /\ client' = client /\ store' = store /\ refreshMu' = refreshMu /\ refresh' = refresh
        /\ user' = user /\ stream' = stream /\ fresh' = fresh
        /\ torn' = torn /\ tripped' = tripped /\ out' = out /\ cause' = cause /\ events' = events
    BY DEF vars, server, device, history
  <1>3. Grows /\ Steady
    BY <1>1, <1>2, NoGrowth
  <1>4. TypeOK' /\ TokensOK'
    BY <1>1, <1>2, <1>3, TypeStep, UserTokens
  <1>5. ClearsOK' /\ BlobsOK'
    BY <1>1, <1>2, ClearFrame, BlobFrame
  <1> QED
    BY <1>4, <1>5 DEF SessionInv

\* Every step keeps the invariant.
LEMMA SessionNextInv == SessionInv /\ [Next]_vars => SessionInv'
  <1> SUFFICES ASSUME SessionInv, [Next]_vars PROVE SessionInv'
    OBVIOUS
  <1>1. ASSUME NEW c \in Caller, RefreshStep(c) \/ RefreshFails(c) PROVE SessionInv'
    BY <1>1, RefreshStepInv
  <1>2. CASE StartStream \/ StreamStep \/ Cancel
    BY <1>2, QuietStepInv
  <1>3. ASSUME NEW flag \in BOOLEAN, Break(flag) \/ UserFails(flag) PROVE SessionInv'
    BY <1>3, QuietStepInv, LeaveStepInv
  <1>4. CASE UserStep
    <2>1. ASSUME NEW flag \in BOOLEAN,
                 LogIn(flag) \/ PersistEncKey(flag) \/ LogOut(flag) \/ ChangePassword(flag)
          PROVE  SessionInv'
      BY <2>1, BeginStepInv, LeaveStepInv
    <2>2. CASE SecondFactor \/ SignUp \/ ConfirmSignUp \/ SetTokens
               \/ (\E wrote \in Outcome : SaveTokens(wrote))
      BY <2>2, BeginStepInv
    <2>3. CASE ClearStep \/ Rewrap \/ Change \/ RequestAccountDeletion
      BY <2>3, LeaveStepInv
    <2> QED
      BY <1>4, <2>1, <2>2, <2>3 DEF UserStep
  <1>5. CASE PushIdentities \/ OtherPush \/ ResetPassword \/ Expire
    BY <1>5, QuietStepInv
  <1>6. CASE Restart
    BY <1>6, LeaveStepInv
  <1>7. CASE UNCHANGED vars
    BY <1>7, SessionStutterInv
  <1> QED
    BY <1>1, <1>2, <1>3, <1>4, <1>5, <1>6, <1>7 DEF Next

\* In every reachable state of the session, with any number of threads that call
\* Refresh and any number of events, the invariant holds.
THEOREM SessionInvariance == Spec => []SessionInv
  <1> QED
    BY SessionInitInv, SessionNextInv, PTL DEF Spec

\* Every reachable state of the session is well typed; in particular a thread is past
\* Acquire exactly while it holds refreshMu (Client.Refresh).
THEOREM SessionTypeCorrect == Spec => []TypeOK
  <1>1. SessionInv => TypeOK
    BY DEF SessionInv
  <1> QED
    BY <1>1, SessionInvariance, PTL

\* However many threads refresh, log in and log out at the same time, the server
\* takes a refresh for theft only if the latest token was lost or not stored
\* (Client.Refresh, SetTokens, SaveTokens).
THEOREM TheftIsReal == Spec => []NoFalseTheft
  <1>1. SessionInv => NoFalseTheft
    BY DEF SessionInv, TokensOK
  <1> QED
    BY <1>1, SessionInvariance, PTL

\* After LogOut or RequestAccountDeletion of an account no encryption key is left
\* in the process or its stores, and no token unless a Refresh overlapped
\* (Client.LogOut, clearStoredEncKey, clearStoredSession).
THEOREM LoggedOutIsCleared == Spec => []LogOutClears
  <1>1. SessionInv => LogOutClears
    BY DEF SessionInv, ClearsOK
  <1> QED
    BY <1>1, SessionInvariance, PTL

\* Whenever the blob does not open with the password of the account, one of the
\* named causes has come about (Client.ChangePassword, PushIdentities).
THEOREM BlobStaysOpen == Spec => []BlobOpens
  <1>1. SessionInv => BlobOpens
    BY DEF SessionInv, BlobsOK
  <1> QED
    BY <1>1, SessionInvariance, PTL

-----------------------------------------------------------------------------
(* FrameCollector: the type invariant, that the collection never mixes two  *)
(* Locks, and that a Lock handed over is whole.                             *)

(* A frame that waits to be added is one MarshalAnimatedQR made, or is      *)
(* garbled; and a correct chunk is held only in a collection of the right   *)
(* length, which is why that of a whole collection is right.                *)
FromScreen(f) ==
    f \in Frame /\ (f.d = Garbled \/ \E b \in Bundle : f \in MarshalAnimatedQR(b))

HandOK == \A d \in Decoder : pc[d] = "add" => FromScreen(hand[d])

HeldOK ==
    \A i \in DOMAIN chunks :
        chunks[i] = Garbled \/ (chunks[i] = Chunk(bid, i) /\ total = Total(bid))

CollectorInv == ScanTypeOK /\ HandOK /\ HeldOK

-----------------------------------------------------------------------------
\* The number of frames of an animation is an integer.
LEMMA TotalInt == \A b \in Bundle : Total(b) \in Int
  <1> SUFFICES ASSUME NEW b \in Bundle PROVE Total(b) \in Int
    OBVIOUS
  <1>1. Size[b] \in Nat
    BY SizeAssumption
  <1> QED
    BY <1>1, ChunkAssumption DEF Total

\* The bytes a frame carries are a range of bytes.
LEMMA ChunkType ==
    ASSUME NEW b \in Bundle, NEW i \in Int, i >= 1
    PROVE  Chunk(b, i) \in ChunkData
  <1>1. Size[b] \in Nat
    BY SizeAssumption
  <1>2. \A m, n \in Nat : Smaller(m, n) \in Nat
    BY DEF Smaller
  <1>3. \A m, c \in Nat : m * c \in Nat
    OBVIOUS
  <1>4. (i - 1) * DefaultFrameChunkSize \in Nat /\ i * DefaultFrameChunkSize \in Nat
    <2>1. i - 1 \in Nat /\ i \in Nat /\ DefaultFrameChunkSize \in Nat
      BY ChunkAssumption
    <2> QED
      BY <2>1, <1>3
  <1> QED
    BY <1>1, <1>2, <1>4 DEF Chunk, ChunkData

\* Every frame of an animation is a frame.
LEMMA FrameType ==
    ASSUME NEW b \in Bundle, NEW f \in MarshalAnimatedQR(b)
    PROVE  /\ f \in Frame
           /\ f.bid = b /\ f.n = Total(b) /\ f.d = Chunk(b, f.p)
  <1>1. PICK i \in 1..Total(b) :
            f = [bid |-> b, p |-> i, n |-> Total(b), d |-> Chunk(b, i)]
    BY DEF MarshalAnimatedQR
  <1>2. Total(b) \in Int
    BY TotalInt
  <1>3. i \in Int /\ i >= 1
    BY <1>2
  <1>4. Chunk(b, i) \in ChunkData
    BY <1>3, ChunkType
  <1> QED
    BY <1>1, <1>2, <1>3, <1>4 DEF Frame

-----------------------------------------------------------------------------
LEMMA CollectorInitInv == ScanInit => CollectorInv
  <1> SUFFICES ASSUME ScanInit PROVE CollectorInv
    OBVIOUS
  <1>1. chunks \in [DOMAIN chunks -> ChunkData] /\ DOMAIN chunks = {}
    BY DEF ScanInit, NoChunks
  <1>2. ScanTypeOK
    BY <1>1, BoundAssumption DEF ScanInit, ScanTypeOK
  <1> QED
    BY <1>1, <1>2 DEF ScanInit, CollectorInv, HandOK, HeldOK

\* Reading what may come from a screen preserves the invariant.
LEMMA ReadInv ==
    ASSUME CollectorInv, NEW d \in Decoder, NEW f, FromScreen(f), Read(d, f),
           misreads' \in 0..MaxMisreads
    PROVE  CollectorInv'
  <1>1. /\ f \in Frame
        /\ hand' = [hand EXCEPT ![d] = f]
        /\ pc' = [pc EXCEPT ![d] = "add"]
        /\ UNCHANGED <<aim, bid, total, chunks, result, turns, resets>>
    BY DEF Read, collector, FromScreen
  <1>2. ScanTypeOK'
    BY <1>1 DEF CollectorInv, ScanTypeOK
  <1>3. HandOK'
    <2> SUFFICES ASSUME NEW e \in Decoder, pc'[e] = "add"
                 PROVE  FromScreen(hand'[e])
      BY DEF HandOK, FromScreen
    <2>1. CASE e = d
      BY <1>1, <2>1 DEF CollectorInv, ScanTypeOK
    <2>2. CASE e # d
      BY <1>1, <2>2 DEF CollectorInv, ScanTypeOK, HandOK
    <2> QED
      BY <2>1, <2>2
  <1>4. HeldOK'
    BY <1>1 DEF CollectorInv, HeldOK
  <1> QED
    BY <1>2, <1>3, <1>4 DEF CollectorInv

LEMMA ScanInv ==
    ASSUME CollectorInv, NEW d \in Decoder, NEW i \in 1..Total(aim), Scan(d, i)
    PROVE  CollectorInv'
  <1>1. PICK f \in MarshalAnimatedQR(aim) : Read(d, f)
    BY DEF Scan
  <1>2. FromScreen(f)
    BY FrameType DEF FromScreen, CollectorInv, ScanTypeOK
  <1>3. misreads' \in 0..MaxMisreads
    BY DEF Scan, CollectorInv, ScanTypeOK
  <1> QED
    BY <1>1, <1>2, <1>3, ReadInv

LEMMA MisreadInv ==
    ASSUME CollectorInv, NEW d \in Decoder, NEW i \in 0..Total(aim) + 1,
           NEW n \in 0..Total(aim) + 1, Misread(d, i, n)
    PROVE  CollectorInv'
  <1> DEFINE f == [bid |-> aim, p |-> i, n |-> n, d |-> Garbled]
  <1>1. i \in Int /\ n \in Int
    BY TotalInt DEF CollectorInv, ScanTypeOK
  <1>2. FromScreen(f)
    BY <1>1 DEF FromScreen, Frame, ChunkData, CollectorInv, ScanTypeOK
  <1>3. misreads' \in 0..MaxMisreads /\ Read(d, f)
    BY BoundAssumption DEF Misread, CollectorInv, ScanTypeOK
  <1> HIDE DEF f
  <1> QED
    BY <1>2, <1>3, ReadInv

\* What Add makes of the collection: the two parts of the invariant that are
\* about it.
LEMMA IngestOK ==
    ASSUME CollectorInv, NEW f, FromScreen(f), Valid(f), Ingest(f)
    PROVE  /\ bid' \in Bundle
           /\ total' \in Nat
           /\ DOMAIN chunks' \subseteq 1..total'
           /\ chunks' \in [DOMAIN chunks' -> ChunkData]
           /\ HeldOK'
  <1> DEFINE H == heldChunks(f)
             T == heldTotal(f)
  <1>1. f.bid \in Bundle /\ f.p \in Int /\ f.n \in Int /\ f.d \in ChunkData
    BY DEF FromScreen, Frame
  <1>2. f.n \in Nat /\ f.p \in 1..f.n
    BY <1>1 DEF Valid
  <1>3. /\ T \in Nat
        /\ DOMAIN H \subseteq 1..T
        /\ H \in [DOMAIN H -> ChunkData]
        /\ \A i \in DOMAIN H :
               H[i] = Garbled \/ (H[i] = Chunk(f.bid, i) /\ T = Total(f.bid))
    <2>1. CASE Restarted(f)
      BY <1>2, <2>1 DEF heldChunks, heldTotal, NoChunks
    <2>2. CASE ~Restarted(f)
      BY <2>2 DEF heldChunks, heldTotal, Restarted, CollectorInv, ScanTypeOK, HeldOK
    <2> QED
      BY <2>1, <2>2
  <1>4. f.d = Garbled \/ (f.d = Chunk(f.bid, f.p) /\ f.n = Total(f.bid))
    BY FrameType DEF FromScreen
  <1>5. bid' = f.bid /\ total' = T
    BY DEF Ingest
  <1>6. CASE Fits(f)
    <2>1. chunks' = [i \in DOMAIN H \cup {f.p} |-> IF i = f.p THEN f.d ELSE H[i]]
      BY <1>6 DEF Ingest
    <2>2. f.n = T
      BY <1>6 DEF Fits
    <2> HIDE DEF H, T
    <2>3. DOMAIN chunks' \subseteq 1..total' /\ chunks' \in [DOMAIN chunks' -> ChunkData]
      BY <2>1, <2>2, <1>1, <1>2, <1>3, <1>5
    <2>4. HeldOK'
      <3> SUFFICES ASSUME NEW i \in DOMAIN chunks'
                   PROVE  \/ chunks'[i] = Garbled
                          \/ chunks'[i] = Chunk(bid', i) /\ total' = Total(bid')
        BY DEF HeldOK, Chunk, Total
      <3>1. CASE i = f.p
        BY <3>1, <2>1, <2>2, <1>4, <1>5
      <3>2. CASE i # f.p
        BY <3>2, <2>1, <1>3, <1>5
      <3> QED
        BY <3>1, <3>2
    <2> QED
      BY <2>3, <2>4, <1>1, <1>3, <1>5
  <1>7. CASE ~Fits(f)
    <2>1. chunks' = H
      BY <1>7 DEF Ingest
    <2> HIDE DEF H, T
    <2>2. HeldOK'
      BY <2>1, <1>3, <1>5 DEF HeldOK, Chunk, Total
    <2> QED
      BY <2>1, <2>2, <1>1, <1>3, <1>5
  <1> QED
    BY <1>6, <1>7

LEMMA AddInv ==
    ASSUME CollectorInv, NEW d \in Decoder, Add(d)
    PROVE  CollectorInv'
  <1>1. /\ pc[d] = "add"
        /\ hand' = [hand EXCEPT ![d] = None]
        /\ pc' = [pc EXCEPT ![d] = "ask"]
        /\ UNCHANGED <<aim, result, turns, misreads, resets>>
    BY DEF Add, bounds
  <1>2. FromScreen(hand[d])
    BY <1>1 DEF CollectorInv, HandOK
  <1>3. /\ bid' \in Bundle \cup {None}
        /\ total' \in Nat
        /\ DOMAIN chunks' \subseteq 1..total'
        /\ chunks' \in [DOMAIN chunks' -> ChunkData]
        /\ HeldOK'
    <2>1. CASE Valid(hand[d])
      <3>1. Ingest(hand[d])
        BY <2>1 DEF Add
      <3> QED
        BY <1>2, <2>1, <3>1, IngestOK
    <2>2. CASE ~Valid(hand[d])
      BY <2>2 DEF Add, collector, CollectorInv, ScanTypeOK, HeldOK
    <2> QED
      BY <2>1, <2>2
  <1>4. ScanTypeOK'
    BY <1>1, <1>3 DEF CollectorInv, ScanTypeOK
  <1>5. HandOK'
    <2> SUFFICES ASSUME NEW e \in Decoder, pc'[e] = "add"
                 PROVE  FromScreen(hand'[e])
      BY DEF HandOK, FromScreen
    <2>1. e # d /\ pc[e] = "add" /\ hand'[e] = hand[e]
      BY <1>1 DEF CollectorInv, ScanTypeOK
    <2> QED
      BY <2>1 DEF CollectorInv, HandOK
  <1> QED
    BY <1>3, <1>4, <1>5 DEF CollectorInv

LEMMA ResetInv ==
    ASSUME CollectorInv, Reset
    PROVE  CollectorInv'
  <1>1. /\ bid' = None /\ total' = 0 /\ chunks' = NoChunks
        /\ resets' = resets + 1 /\ resets < MaxResets
        /\ UNCHANGED <<aim, pc, hand, result, turns, misreads>>
    BY DEF Reset, resetLocked
  <1>2. DOMAIN chunks' = {} /\ chunks' \in [DOMAIN chunks' -> ChunkData]
    BY <1>1 DEF NoChunks
  <1>3. ScanTypeOK'
    BY <1>1, <1>2, BoundAssumption DEF CollectorInv, ScanTypeOK
  <1>4. HandOK'
    BY <1>1 DEF CollectorInv, HandOK
  <1>5. HeldOK'
    BY <1>2 DEF HeldOK
  <1> QED
    BY <1>3, <1>4, <1>5 DEF CollectorInv

\* Turning, asking and taking leave the collection alone.
LEMMA QuietInv ==
    ASSUME CollectorInv, [(\E b \in Bundle : Turn(b)) \/ \E d \in Decoder : Ask(d) \/ Take(d)]_scanVars
    PROVE  CollectorInv'
  <1>1. CASE UNCHANGED scanVars
    BY <1>1 DEF scanVars, CollectorInv, ScanTypeOK, HandOK, HeldOK
  <1>2. ASSUME NEW b \in Bundle, Turn(b) PROVE CollectorInv'
    BY <1>2, BoundAssumption DEF Turn, collector, CollectorInv, ScanTypeOK, HandOK, HeldOK
  <1>3. ASSUME NEW d \in Decoder, NEW next, next \in {"read", "take", "done"},
               pc' = [pc EXCEPT ![d] = next], result' \in [Decoder -> Bundle \cup {None, Failed}],
               UNCHANGED <<aim, collector, hand, bounds>>
        PROVE  CollectorInv'
    <2>1. ScanTypeOK'
      BY <1>3 DEF collector, bounds, CollectorInv, ScanTypeOK
    <2>2. HandOK'
      BY <1>3 DEF CollectorInv, ScanTypeOK, HandOK
    <2>3. HeldOK'
      BY <1>3 DEF collector, CollectorInv, HeldOK
    <2> QED
      BY <2>1, <2>2, <2>3 DEF CollectorInv
  <1>4. ASSUME NEW d \in Decoder, Ask(d) PROVE CollectorInv'
    BY <1>3, <1>4 DEF Ask, CollectorInv, ScanTypeOK
  <1>5. ASSUME NEW d \in Decoder, Take(d) PROVE CollectorInv'
    <2>1. BundleOf \in Bundle \cup {None, Failed}
      BY DEF BundleOf, CollectorInv, ScanTypeOK
    <2>2. result' \in [Decoder -> Bundle \cup {None, Failed}]
      BY <1>5, <2>1 DEF Take, CollectorInv, ScanTypeOK
    <2> QED
      BY <1>3, <1>5, <2>2 DEF Take
  <1> QED
    BY <1>1, <1>2, <1>4, <1>5

LEMMA CollectorNextInv == CollectorInv /\ [ScanNext]_scanVars => CollectorInv'
  BY ScanInv, MisreadInv, AddInv, ResetInv, QuietInv DEF ScanNext

\* The inductive invariant holds in every reachable state.
THEOREM CollectorInvariance == ScanSpec => []CollectorInv
  BY CollectorInitInv, CollectorNextInv, PTL DEF ScanSpec

-----------------------------------------------------------------------------
\* Type correctness, and with it that the indices held lie within the animation
\* (FrameCollector.Add's checks of p and n).
THEOREM CollectorTypeCorrect == ScanSpec => []ScanTypeOK
  <1>1. CollectorInv => ScanTypeOK
    BY DEF CollectorInv
  <1> QED
    BY <1>1, CollectorInvariance, PTL

\* For every number of Locks and decoders and every chunk size, the collector
\* never holds chunks of two Locks (FrameCollector.Add, resetLocked).
THEOREM NeverMixed == ScanSpec => []OneLock
  <1>1. CollectorInv => OneLock
    BY DEF CollectorInv, HeldOK, OneLock
  <1> QED
    BY <1>1, CollectorInvariance, PTL

\* A collection that counts total chunks holds one at each place from 1 to
\* total: Bundle's loop finds every chunk it reads.
LEMMA CompleteHoldsAll == CollectorInv /\ Complete => DOMAIN chunks = 1..total
  <1> SUFFICES ASSUME CollectorInv, Complete PROVE DOMAIN chunks = 1..total
    OBVIOUS
  <1>1. total \in Nat /\ DOMAIN chunks \subseteq 1..total
    BY DEF CollectorInv, ScanTypeOK
  <1>2. IsFiniteSet(1..total) /\ Cardinality(1..total) = total
    BY <1>1, FS_Interval
  <1> QED
    BY <1>1, <1>2, FS_Subset DEF Complete

\* A Lock handed over is all of the Lock whose animation it was read from
\* (FrameCollector.Bundle), for every chunk size and every number of frames.
THEOREM WholeLocks == ScanSpec => HandedOverWhole
  <1> DEFINE P == \A d \in Decoder :
                     result'[d] # result[d] /\ result'[d] # Failed =>
                         /\ result'[d] = bid
                         /\ total = Total(bid)
                         /\ chunks = [i \in 1..Total(bid) |-> Chunk(bid, i)]
  <1>1. ASSUME CollectorInv, [ScanNext]_scanVars PROVE [P]_scanVars
    <2> SUFFICES ASSUME NEW d \in Decoder, result'[d] # result[d], result'[d] # Failed
                 PROVE  /\ result'[d] = bid
                        /\ total = Total(bid)
                        /\ chunks = [i \in 1..Total(bid) |-> Chunk(bid, i)]
      OBVIOUS
    <2>1. Take(d)
      BY <1>1 DEF ScanNext, Turn, Scan, Misread, Read, Add, Ask, Take, Reset, scanVars, CollectorInv, ScanTypeOK
    <2>2. result'[d] = BundleOf
      BY <2>1 DEF Take, CollectorInv, ScanTypeOK
    <2>3. Complete /\ IsWhole(bid) /\ result'[d] = bid
      BY <2>2 DEF BundleOf
    <2>4. DOMAIN chunks = 1..total /\ total > 0 /\ total \in Nat
      BY <1>1, <2>3, CompleteHoldsAll DEF Complete, CollectorInv, ScanTypeOK
    <2>5. \A i \in 1..total : chunks[i] = Chunk(bid, i) /\ total = Total(bid)
      BY <1>1, <2>3, <2>4 DEF IsWhole, CollectorInv, HeldOK
    <2>6. 1 \in 1..total
      BY <2>4
    <2>7. total = Total(bid)
      BY <2>5, <2>6
    <2>8. chunks = [i \in 1..total |-> Chunk(bid, i)]
      BY <1>1, <2>4, <2>5 DEF CollectorInv, ScanTypeOK
    <2> QED
      BY <2>3, <2>7, <2>8
  <1> QED
    BY <1>1, CollectorInvariance, PTL DEF ScanSpec, HandedOverWhole

=============================================================================
