------------------------------ MODULE Session -------------------------------
(***************************************************************************)
(* One process's cloud session: the credentials in a Client and in its     *)
(* stores, and the calls that change them.  LogIn, ConfirmSignUp, LogOut,  *)
(* ChangePassword and RequestAccountDeletion run in the user's thread,     *)
(* Refresh in any of several threads, one of them the reconnect loop of    *)
(* the event stream (cloud/auth.go, client.go, session_store.go,           *)
(* enckey_store.go, events.go).                                            *)
(*                                                                         *)
(* A refresh token is a generation of a family: the server (external)      *)
(* accepts the current generation once and issues the next one; an older   *)
(* one is taken for theft and ends the family.  A password stands for the  *)
(* verifier and the encryption key derived from it: its number, a new salt *)
(* making every one different.                                             *)
(***************************************************************************)
EXTENDS Integers, Sequences, SequencesExt

CONSTANTS
    Caller,       \* threads that call Refresh
    Stream,       \* the caller that is the event stream's loop
    NoTokens,     \* no Tokens
    maxBackoff,   \* in units of the first wait: 60 s are 12 times 5 s
    MaxEvents     \* bound: what the user does, expiries, faults and crashes

ASSUME SessionAssumption ==
    /\ Stream \in Caller
    /\ "none" \notin Caller
    /\ NoTokens \notin [fam : Nat, gen : Nat]
    /\ maxBackoff \in Nat
    /\ MaxEvents \in Nat

VARIABLES
    family,    \* server: family[f] is its current generation, 0 if it has ended
    password,  \* server: the account's password, 0 if there is no account
    blob,      \* server: the password whose key wraps the identities blob, 0 if none
    chosen,    \* passwords chosen so far
    client,    \* the Client: [tokens, email, encKey]
    store,     \* SessionStore and EncKeyStore: [tokens, active, encKey]
    fresh,     \* tokens that are valid for refreshCoalesceWindow and more
    refreshMu, \* the caller that holds the lock, or none
    refresh,   \* refresh[c]: c's call of Refresh
    user,      \* the user's call: the steps left of it and its variables
    stream,    \* StreamEventsWithRetry
    torn,      \* history: the device may not have the latest token of a family
    tripped,   \* history: the server has taken a refresh for theft
    out,       \* history: how the last LogOut went
    cause,     \* history: why the blob may not open with the password
    events     \* number of events so far

server  == <<family, password, blob>>
history == <<torn, tripped, out, cause>>
device  == <<client, store, refreshMu, refresh, user, stream>>
vars    == <<server, chosen, device, fresh, history, events>>

Signed   == [tokens |-> NoTokens, email |-> FALSE, encKey |-> 0]
NoStore  == [tokens |-> NoTokens, active |-> FALSE, encKey |-> 0]
NoCall   == [pc |-> "idle", tokens |-> NoTokens, email |-> FALSE]
NoUser   == [steps |-> <<>>, tokens |-> NoTokens, key |-> 0, email |-> FALSE]
NoStream == [pc |-> "off", backoff |-> 1]
SignedIn == [email |-> FALSE, overlap |-> FALSE, kept |-> {}, done |-> FALSE]

Init ==
    /\ family = <<>>
    /\ \/ password = 0 /\ chosen = 0 /\ blob = 0
       \/ password = 1 /\ chosen = 1 /\ blob \in {0, 1}
    /\ client = Signed
    /\ store = NoStore
    /\ fresh = {}
    /\ refreshMu = "none"
    /\ refresh = [c \in Caller |-> NoCall]
    /\ user = NoUser
    /\ stream = NoStream
    /\ torn = FALSE
    /\ tripped = FALSE
    /\ out = SignedIn
    /\ cause = {}
    /\ events = 0

Event == events < MaxEvents /\ events' = events + 1

-----------------------------------------------------------------------------
(* The server.                                                              *)

Alive(t) == t # NoTokens /\ family[t.fam] = t.gen
\* An authed call with these tokens is accepted.
Accepted(t) == t # NoTokens /\ family[t.fam] # 0

Issued == [fam |-> Len(family) + 1, gen |-> 1]

AllEnded == [f \in DOMAIN family |-> 0]

\* Another device, signed in, uploads its identities.
OtherPush ==
    /\ Event
    /\ password # 0
    /\ blob' = password
    /\ cause' = IF "rewrap" \in Range(user.steps) \/ "change" \notin Range(user.steps)
                THEN {} ELSE {"race"}
    /\ UNCHANGED <<family, password, chosen, device, fresh, torn, tripped, out>>

\* ResetPassword with the emailed token, from any device; it "restores account
\* access, not the cloud identities blob".
ResetPassword ==
    /\ Event
    /\ password # 0
    /\ password' = chosen + 1
    /\ chosen' = chosen + 1
    /\ family' = AllEnded
    /\ cause' = cause \cup {"reset"}
    /\ UNCHANGED <<blob, device, fresh, torn, tripped, out>>

\* Time passes: access tokens are about to expire.
Expire ==
    /\ Event
    /\ fresh # {}
    /\ fresh' = {}
    /\ UNCHANGED <<server, chosen, device, history>>

-----------------------------------------------------------------------------
(* Refresh.                                                                 *)

Call(c, call) == refresh' = [refresh EXCEPT ![c] = call]

\* The deferred Unlock.  The stream's loop looks at the result.
Unlock(c, ok) ==
    /\ refreshMu' = "none"
    /\ Call(c, [NoCall EXCEPT !.pc = IF c # Stream THEN "idle" ELSE IF ok THEN "ok" ELSE "err"])

\* Mutant of Acquire: the lock is not taken.
AcquireNoLock(c) ==
    /\ refresh[c].pc = "idle"
    /\ c = Stream => stream.pc = "before"
    /\ client.tokens \notin fresh
    /\ client.tokens # NoTokens
    /\ Call(c, [NoCall EXCEPT !.pc = "post", !.tokens = client.tokens])
    /\ UNCHANGED <<refreshMu, server, chosen, client, store, user, stream, fresh, history, events>>

\* Lock, TokenValidFor, Tokens.  Without anything to do it returns at once.
Acquire(c) ==
    /\ refresh[c].pc = "idle"
    /\ c = Stream => stream.pc = "before"
    /\ refreshMu = "none"
    /\ client.tokens \notin fresh
    /\ client.tokens # NoTokens
    /\ refreshMu' = c
    /\ Call(c, [NoCall EXCEPT !.pc = "post", !.tokens = client.tokens])
    /\ UNCHANGED <<server, chosen, client, store, user, stream, fresh, history, events>>

\* The server rotates the token, or refuses it.
Post(c) ==
    LET t == refresh[c].tokens IN
    /\ refresh[c].pc = "post"
    /\ IF Alive(t)
       THEN LET n == [t EXCEPT !.gen = @ + 1] IN
            /\ family' = [family EXCEPT ![t.fam] = n.gen]
            /\ fresh' = fresh \cup {n}
            /\ Call(c, [refresh[c] EXCEPT !.pc = "answer", !.tokens = n])
            /\ UNCHANGED <<refreshMu, tripped>>
       ELSE /\ family' = [family EXCEPT ![t.fam] = 0]
            /\ tripped' = (tripped \/ family[t.fam] # 0)
            /\ Unlock(c, FALSE)
            /\ UNCHANGED fresh
    /\ UNCHANGED <<password, blob, chosen, client, store, user, stream, torn, out, cause, events>>

\* SetTokens: memory first, with the account that is signed in by then.
Install(c) ==
    /\ refresh[c].pc = "answer"
    /\ client' = [client EXCEPT !.tokens = refresh[c].tokens]
    /\ Call(c, [refresh[c] EXCEPT !.pc = "save", !.email = client.email])
    /\ out' = [out EXCEPT !.overlap = @ \/ out.done \/ user.steps # <<>>]
    /\ UNCHANGED <<server, chosen, store, refreshMu, user, stream, fresh, torn, tripped, cause, events>>

\* sessionStore.SaveTokens: the tokens and the active account; best-effort.
Saved(t, email, wrote) ==
    IF ~email \/ wrote = "nothing" THEN store
    ELSE [store EXCEPT !.tokens = t, !.active = @ \/ wrote = "both"]

\* SetTokens saves after it has released its lock: a token may be saved that was
\* refreshed, and its successor saved, in the meantime.
SaveOutcome(t, email, wrote) ==
    /\ torn' = (torn \/ ~email \/ wrote # "both" \/ family[t.fam] > t.gen)
    /\ IF wrote = "both" THEN UNCHANGED events ELSE Event

Save(c, wrote) ==
    /\ refresh[c].pc = "save"
    /\ SaveOutcome(refresh[c].tokens, refresh[c].email, wrote)
    /\ store' = Saved(refresh[c].tokens, refresh[c].email, wrote)
    /\ Unlock(c, TRUE)
    /\ UNCHANGED <<server, chosen, client, user, stream, fresh, tripped, out, cause>>

\* Mutant of RefreshFails: an error path keeps the lock.
RefreshFailsLocked(c) ==
    /\ refresh[c].pc \in {"post", "answer"}
    /\ Event
    /\ torn' = (torn \/ refresh[c].pc = "answer")
    /\ Call(c, [NoCall EXCEPT !.pc = IF c = Stream THEN "err" ELSE "idle"])
    /\ UNCHANGED <<server, chosen, client, store, refreshMu, user, stream, fresh,
                   tripped, out, cause>>

\* The call fails: the request did not reach the server or its answer is lost.
RefreshFails(c) ==
    /\ refresh[c].pc \in {"post", "answer"}
    /\ Event
    /\ torn' = (torn \/ refresh[c].pc = "answer")
    /\ Unlock(c, FALSE)
    /\ UNCHANGED <<server, chosen, client, store, user, stream, fresh, tripped, out, cause>>

-----------------------------------------------------------------------------
(* The event stream: StreamEventsWithRetry with a beforeConnect that        *)
(* refreshes an expired token.                                              *)

Streams(pc) == stream' = [stream EXCEPT !.pc = pc]

StartStream ==
    /\ stream.pc = "off"
    /\ refresh[Stream].pc = "idle"
    /\ client.tokens # NoTokens
    /\ stream' = [NoStream EXCEPT !.pc = "before"]
    /\ UNCHANGED <<server, chosen, client, store, refreshMu, refresh, user, fresh, history, events>>

\* beforeConnect returns: nothing to refresh, no token, or Refresh's result.
BeforeConnect ==
    /\ stream.pc = "before"
    /\ \/ /\ refresh[Stream].pc = "idle"
          /\ client.tokens \in fresh \/ client.tokens = NoTokens
          /\ Streams(IF client.tokens \in fresh THEN "connect" ELSE "wait")
          /\ UNCHANGED refresh
       \/ /\ refresh[Stream].pc \in {"ok", "err"}
          /\ Streams(IF refresh[Stream].pc = "ok" THEN "connect" ELSE "wait")
          /\ Call(Stream, NoCall)
    /\ UNCHANGED <<server, chosen, client, store, refreshMu, user, fresh, history, events>>

\* StreamEvents: the server accepts or refuses the access token.
Connect ==
    /\ stream.pc = "connect"
    /\ Streams(IF Accepted(client.tokens) THEN "open" ELSE "wait")
    /\ UNCHANGED <<server, chosen, client, store, refreshMu, refresh, user, fresh, history, events>>

\* The stream breaks; one that lived for a minute starts the back-off again.
Break(long) ==
    /\ Event
    /\ stream.pc \in {"connect", "open"}
    /\ stream' = [pc |-> "wait", backoff |-> IF long THEN 1 ELSE stream.backoff]
    /\ UNCHANGED <<server, chosen, client, store, refreshMu, refresh, user, fresh, history>>

\* The time.After of the loop.
Wait ==
    /\ stream.pc = "wait"
    /\ stream' = [pc |-> "before",
                  backoff |-> IF stream.backoff < maxBackoff THEN 2 * stream.backoff
                              ELSE stream.backoff]
    /\ UNCHANGED <<server, chosen, client, store, refreshMu, refresh, user, fresh, history, events>>

\* ctx is cancelled; a Refresh that is under way returns on its own.
Cancel ==
    /\ Event
    /\ stream.pc \in {"connect", "open", "wait"}
    /\ stream' = NoStream
    /\ UNCHANGED <<server, chosen, client, store, refreshMu, refresh, user, fresh, history>>

-----------------------------------------------------------------------------
(* The user's calls, as the steps that are left.                            *)

Steps == {"rewrap", "change", "login", "factor", "confirm", "encKey", "tokens", "save",
          "clearEncKey", "clearSession", "dropTokens", "dropAuth"}

\* What LogIn does once the server has accepted the verifier.
LogInSteps(factor) ==
    (IF factor THEN <<"encKey", "factor">> ELSE <<"encKey">>) \o <<"tokens", "save">>

\* LogOut and RequestAccountDeletion.
ClearSteps == <<"clearEncKey", "clearSession", "dropTokens", "dropAuth">>

Doing(step) == user.steps # <<>> /\ Head(user.steps) = step
Then == [user EXCEPT !.steps = Tail(@)]
Refreshing == \E c \in Caller : refresh[c].pc \in {"post", "answer", "save"}

\* setAuthState follows the answer of the POST.  factor: a second one is asked for.
LogIn(factor) ==
    /\ \/ user.steps = <<>> /\ Event
       \/ Doing("login") /\ UNCHANGED events
    /\ password # 0
    /\ client' = [client EXCEPT !.email = TRUE, !.encKey = password]
    /\ user' = [NoUser EXCEPT !.steps = LogInSteps(factor),
                              !.tokens = IF factor THEN NoTokens ELSE Issued]
    /\ IF factor THEN UNCHANGED <<family, fresh>>
                 ELSE family' = Append(family, 1) /\ fresh' = fresh \cup {Issued}
    /\ out' = SignedIn
    /\ UNCHANGED <<password, blob, chosen, store, refreshMu, refresh, stream, torn, tripped, cause>>

\* LogInTOTP, LogInRecovery, LogInEmail, LogInWebAuthnResponse.
SecondFactor ==
    /\ Doing("factor")
    /\ family' = Append(family, 1)
    /\ fresh' = fresh \cup {Issued}
    /\ user' = [Then EXCEPT !.tokens = Issued]
    /\ UNCHANGED <<password, blob, chosen, client, store, refreshMu, refresh, stream, history, events>>

\* No account exists yet, but the key is held.
SignUp ==
    /\ Event
    /\ user.steps = <<>>
    /\ password = 0
    /\ client' = [client EXCEPT !.email = TRUE, !.encKey = chosen + 1]
    /\ chosen' = chosen + 1
    /\ user' = [NoUser EXCEPT !.steps = <<"confirm", "tokens", "save", "encKey">>]
    /\ out' = SignedIn
    /\ UNCHANGED <<server, store, refreshMu, refresh, stream, fresh, torn, tripped, cause>>

ConfirmSignUp ==
    /\ Doing("confirm")
    /\ password' = client.encKey
    /\ family' = Append(family, 1)
    /\ fresh' = fresh \cup {Issued}
    /\ user' = [Then EXCEPT !.tokens = Issued]
    /\ UNCHANGED <<blob, chosen, client, store, refreshMu, refresh, stream, history, events>>

\* persistEncKey, best-effort.
PersistEncKey(ok) ==
    /\ Doing("encKey")
    /\ IF ok THEN UNCHANGED events ELSE Event
    /\ store' = IF ok /\ client.email /\ client.encKey # 0
                THEN [store EXCEPT !.encKey = client.encKey] ELSE store
    /\ user' = Then
    /\ UNCHANGED <<server, chosen, client, refreshMu, refresh, stream, fresh, history>>

\* SetTokens.
SetTokens ==
    /\ Doing("tokens")
    /\ client' = [client EXCEPT !.tokens = user.tokens]
    /\ user' = [Then EXCEPT !.email = client.email]
    /\ UNCHANGED <<server, chosen, store, refreshMu, refresh, stream, fresh, history, events>>

SaveTokens(wrote) ==
    /\ Doing("save")
    /\ SaveOutcome(user.tokens, user.email, wrote)
    /\ store' = Saved(user.tokens, user.email, wrote)
    /\ user' = Then
    /\ UNCHANGED <<server, chosen, client, refreshMu, refresh, stream, fresh, tripped, out, cause>>

\* The POST of LogOut: its error is returned after everything was cleared.
LogOut(ok) ==
    /\ Event
    /\ user.steps = <<>>
    /\ ok => Accepted(client.tokens)
    /\ family' = IF ok THEN [family EXCEPT ![client.tokens.fam] = 0] ELSE family
    /\ user' = [NoUser EXCEPT !.steps = ClearSteps]
    /\ out' = [email |-> client.email, overlap |-> Refreshing, kept |-> {},
               done |-> FALSE]
    /\ UNCHANGED <<password, blob, chosen, client, store, refreshMu, refresh, stream, fresh,
                   torn, tripped, cause>>

\* RequestAccountDeletion clears only after a success, which ended all sessions.
RequestAccountDeletion ==
    /\ Event
    /\ user.steps = <<>>
    /\ Accepted(client.tokens)
    /\ family' = AllEnded
    /\ user' = [NoUser EXCEPT !.steps = ClearSteps]
    /\ out' = [email |-> client.email, overlap |-> Refreshing, kept |-> {},
               done |-> FALSE]
    /\ UNCHANGED <<password, blob, chosen, client, store, refreshMu, refresh, stream, fresh,
                   torn, tripped, cause>>

\* Mutant of ClearStep: the account is forgotten first.
ClearStepAuthFirst ==
    /\ \E s \in Range(ClearSteps) : Doing(s)
    /\ client' = CASE Doing("clearEncKey") -> [client EXCEPT !.email = FALSE, !.encKey = 0]
                   [] Doing("dropAuth")    -> [client EXCEPT !.tokens = NoTokens]
                   [] OTHER                -> client
    /\ store' = CASE Doing("clearSession") /\ client.email -> [store EXCEPT !.encKey = 0]
                  [] Doing("dropTokens") /\ client.email ->
                        [store EXCEPT !.tokens = NoTokens, !.active = FALSE]
                  [] OTHER -> store
    /\ user' = Then
    /\ out' = [out EXCEPT !.done = Doing("dropAuth")]
    /\ UNCHANGED <<server, chosen, refreshMu, refresh, stream, fresh, torn, tripped, cause, events>>

\* What the store's Clear of this step is to remove.
ToClear == CASE Doing("clearEncKey")  -> {"encKey"}
             [] Doing("clearSession") -> {"tokens", "active"}
             [] OTHER                 -> {}

\* clearStoredEncKey, clearStoredSession (both need the email), SetTokens(nil),
\* setAuthState("", nil).  Clear's error is dropped; kept is what it did not remove.
ClearStep ==
    /\ \E s \in Range(ClearSteps) : Doing(s)
    /\ \E kept \in SUBSET ToClear :
          /\ IF kept = {} THEN UNCHANGED events ELSE Event /\ client.email
          /\ store' = CASE Doing("clearEncKey") /\ client.email ->
                             [store EXCEPT !.encKey = IF kept = {} THEN 0 ELSE @]
                        [] Doing("clearSession") /\ client.email ->
                             [store EXCEPT !.tokens = IF "tokens" \in kept THEN @ ELSE NoTokens,
                                           !.active = @ /\ "active" \in kept]
                        [] OTHER -> store
          /\ out' = [out EXCEPT !.done = Doing("dropAuth"), !.kept = @ \cup kept]
    /\ client' = CASE Doing("dropTokens") -> [client EXCEPT !.tokens = NoTokens]
                   [] Doing("dropAuth")   -> [client EXCEPT !.email = FALSE, !.encKey = 0]
                   [] OTHER               -> client
    /\ user' = Then
    /\ UNCHANGED <<server, chosen, refreshMu, refresh, stream, fresh, torn, tripped, cause>>

\* wrap: an exportFn was given and the account has a blob.
ChangePassword(wrap) ==
    /\ Event
    /\ user.steps = <<>>
    /\ client.email
    /\ password # 0
    /\ wrap => blob # 0 /\ Accepted(client.tokens)
    /\ chosen' = chosen + 1
    /\ user' = [NoUser EXCEPT !.steps = (IF wrap THEN <<"rewrap">> ELSE <<>>) \o <<"change", "login">>,
                              !.key = chosen + 1]
    /\ UNCHANGED <<server, client, store, refreshMu, refresh, stream, fresh, history>>

\* pushIdentitiesWithKey: whatever the blob's version is.
Rewrap ==
    /\ Doing("rewrap")
    /\ Accepted(client.tokens)
    /\ blob' = user.key
    /\ cause' = {"halfway"}
    /\ user' = Then
    /\ UNCHANGED <<family, password, chosen, client, store, refreshMu, refresh, stream, fresh,
                   torn, tripped, out, events>>

\* Mutant of Change: the new key is not the one the blob was wrapped with.
ChangeSaltsAgain ==
    /\ Doing("change")
    /\ Accepted(client.tokens)
    /\ password' = chosen + 1
    /\ chosen' = chosen + 1
    /\ family' = AllEnded
    /\ cause' = IF blob = user.key THEN {}
                ELSE IF "halfway" \in cause THEN {"race"} ELSE cause \cup {"unwrapped"}
    /\ user' = Then
    /\ UNCHANGED <<blob, client, store, refreshMu, refresh, stream, fresh, torn, tripped, out, events>>

\* POST password/change: every session ends.
Change ==
    /\ Doing("change")
    /\ Accepted(client.tokens)
    /\ password' = user.key
    /\ family' = AllEnded
    /\ cause' = IF blob \in {0, user.key} THEN {}
                ELSE IF cause = {} THEN {"unwrapped"} ELSE cause
    /\ user' = Then
    /\ UNCHANGED <<blob, chosen, client, store, refreshMu, refresh, stream, fresh, torn, tripped,
                   out, events>>

\* The call of a step fails or is refused, or the user gives up; the server may
\* have done its part of a password change.
UserFails(lost) ==
    /\ \E s \in {"rewrap", "change", "login", "factor", "confirm"} : Doing(s)
    /\ Event
    /\ lost => Doing("change") /\ Accepted(client.tokens)
    /\ password' = IF lost THEN user.key ELSE password
    /\ family' = IF lost THEN AllEnded ELSE family
    /\ cause' = IF blob \in {0, password'} THEN {}
                ELSE IF cause = {} THEN {"unwrapped"} ELSE cause
    /\ user' = NoUser
    /\ UNCHANGED <<blob, chosen, client, store, refreshMu, refresh, stream, fresh, torn, tripped, out>>

\* PushIdentities of a sync: sessionOrStoredEncKey, in memory or else stored.
PushIdentities ==
    LET key == IF client.encKey # 0 THEN client.encKey
               ELSE IF client.email THEN store.encKey ELSE 0
    IN
    /\ Event
    /\ Accepted(client.tokens)
    /\ key # 0
    /\ blob' = key
    /\ cause' = IF key = password THEN IF "rewrap" \notin Range(user.steps) /\ Doing("change")
                                       THEN {"race"} ELSE {}
                ELSE {"stale key"}
    /\ UNCHANGED <<family, password, chosen, device, fresh, torn, tripped, out>>

\* The process ends; the next one restores the session of ActiveAccount.
Restart ==
    /\ Event
    /\ client' = [tokens |-> IF store.active THEN store.tokens ELSE NoTokens,
                  email |-> store.active, encKey |-> 0]
    /\ refreshMu' = "none"
    /\ refresh' = [c \in Caller |-> NoCall]
    /\ user' = NoUser
    /\ stream' = NoStream
    /\ torn' = (torn \/ Refreshing)
    /\ out' = [out EXCEPT !.overlap = @ \/ user.steps # <<>>]
    /\ UNCHANGED <<server, chosen, store, fresh, tripped, cause>>

-----------------------------------------------------------------------------

Outcome == {"both", "tokens", "nothing"}

RefreshStep(c) ==
    \/ Acquire(c) \/ Post(c) \/ Install(c)
    \/ \E wrote \in Outcome : Save(c, wrote)

StreamStep == BeforeConnect \/ Connect \/ Wait

UserStep ==
    \/ \E factor \in BOOLEAN : LogIn(factor)
    \/ SecondFactor \/ SignUp \/ ConfirmSignUp \/ SetTokens \/ ClearStep \/ Rewrap \/ Change
    \/ \E ok \in BOOLEAN : PersistEncKey(ok) \/ LogOut(ok) \/ ChangePassword(ok)
    \/ \E wrote \in Outcome : SaveTokens(wrote)
    \/ RequestAccountDeletion

Next ==
    \/ \E c \in Caller : RefreshStep(c) \/ RefreshFails(c)
    \/ StartStream \/ StreamStep \/ Cancel
    \/ \E flag \in BOOLEAN : Break(flag) \/ UserFails(flag)
    \/ UserStep
    \/ PushIdentities \/ OtherPush \/ ResetPassword \/ Expire \/ Restart

Spec == Init /\ [][Next]_vars

\* Every thread goes on; the scheduler gives a waiting thread the lock.
Fairness ==
    /\ \A c \in Caller : /\ SF_vars(Acquire(c))
                         /\ WF_vars(Post(c))
                         /\ WF_vars(Install(c))
                         /\ WF_vars(Save(c, "both"))
    /\ WF_vars(StreamStep)

FairSpec == Spec /\ Fairness

-----------------------------------------------------------------------------
(* Properties.                                                              *)

Token == [fam : 1..Len(family), gen : Nat \ {0}]
Held  == Token \cup {NoTokens}

\* Type invariant; a token is one the server has issued, and a thread is past
\* Acquire only while it holds the lock.
TypeOK ==
    /\ family \in Seq(Nat)
    /\ password \in 0..chosen
    /\ blob \in 0..chosen
    /\ chosen \in Nat
    /\ client \in [tokens : Held, email : BOOLEAN, encKey : 0..chosen]
    /\ store \in [tokens : Held, active : BOOLEAN, encKey : 0..chosen]
    /\ fresh \subseteq Token
    /\ refreshMu \in Caller \cup {"none"}
    /\ refresh \in [Caller -> [pc : {"idle", "post", "answer", "save", "ok", "err"},
                               tokens : Held, email : BOOLEAN]]
    /\ \A c \in Caller : refresh[c].pc \in {"post", "answer", "save"} <=> refreshMu = c
    /\ user \in [steps : Seq(Steps), tokens : Held, key : 0..chosen, email : BOOLEAN]
    /\ stream \in [pc : {"off", "before", "connect", "open", "wait"}, backoff : Nat \ {0}]
    /\ torn \in BOOLEAN
    /\ tripped \in BOOLEAN
    /\ out \in [email : BOOLEAN, overlap : BOOLEAN, kept : SUBSET {"encKey", "tokens", "active"},
                done : BOOLEAN]
    /\ cause \subseteq {"reset", "race", "halfway", "unwrapped", "stale key"}
    /\ events \in 0..MaxEvents

\* "re-POSTing the consumed token would trip the server's reuse detection and revoke
\* every session in the family": threads that refresh, log in and out at the same
\* time never make the server see a theft.  It can only when the answer that
\* carried the latest token was lost, or could not be stored (the process ended, the
\* store failed, a LogOut had taken the account's email), or a login was slow to
\* save and overwrote a token refreshed since.
NoFalseTheft == tripped => torn

\* "LogOut ... clears local credentials": of an account that is signed in; after it
\* the process holds nothing, its stores hold only what they failed to remove, and no
\* later step brings anything else back, a restart from what is left included; a
\* Refresh that overlaps it, or a crash, can leave tokens, but no encryption key.
LogOutClears ==
    out.done /\ out.email =>
        /\ client.encKey = 0
        /\ "encKey" \in out.kept \/ store.encKey = 0
        /\ \/ out.overlap
           \/ /\ {"tokens", "active"} \subseteq out.kept \/ client.tokens = NoTokens
              /\ "tokens" \in out.kept \/ store.tokens = NoTokens
              /\ "active" \in out.kept \/ ~store.active

\* The blob opens with the account's password.  What can prevent it: a reset; a
\* change that ended after the re-wrap, was made without one, or met an upload of
\* another device in the middle; an upload with an old key from the key store.
BlobOpens == blob \notin {0, password} => cause # {}

\* A stream that was not cancelled is opened again, however often the connection,
\* the refresh or the back-off fails, as long as the tokens are good.
StreamReconnects ==
    (stream.pc \in {"before", "connect", "wait"})
        ~> (stream.pc \in {"open", "off"} \/ ~Alive(client.tokens))

\* "clears local credentials (tokens + the in-memory encryption key)", whatever else
\* the process does.
\* (The code does not keep this one: README, Findings.)
LogOutLeavesNothing == out.done => client.tokens = NoTokens /\ store.tokens = NoTokens

=============================================================================
