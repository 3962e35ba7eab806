------------------------------ MODULE Accounts ------------------------------
(***************************************************************************)
(* The life of an account on the server: a one-time code proves an e-mail  *)
(* address (OtpService), the proof becomes a grant that is spent together  *)
(* with the insertion of the account (RegistrationGrants), the account     *)
(* takes a number in the private directory, or takes it over from an       *)
(* account that cannot receive messages (UserRegistry), and its deletion   *)
(* removes the row in one transaction and the copies in memory and Redis   *)
(* step by step (AccountDeletion), while sockets and senders that were let *)
(* in before go on.                                                        *)
(*                                                                         *)
(* Requests run concurrently; a step is one Lua script, one transaction,   *)
(* or one visit to the registry's maps.  E-mail addresses do not interact: *)
(* there is one.  Left out: rate limits by address and input checks, which *)
(* only refuse, recovery e-mails, the presence of a deleted account, and   *)
(* the cached credential check (Credentials), whose answer a request may   *)
(* hold for as long as it likes here anyway.                               *)
(***************************************************************************)
EXTENDS Integers, Sequences, FiniteSets

CONSTANTS
    User,                    \* account identifiers, chosen at random by clients
    Number,                  \* directory tokens of telephone numbers
    Handler,                 \* concurrent requests and sockets
    Frame,                   \* messages on their way to an account
    Existing,                \* Existing[u]: a row from before, or None
    COOLDOWN, OTP_TTL, REGISTRATION_TOKEN_TTL, MAX_ATTEMPTS,
    TRANSIENT_PURGE_ATTEMPTS,
    MaxTime, MaxCodes, MaxPending,  \* bounds of the model
    None

ASSUME LimitAssumption ==
    /\ {COOLDOWN, OTP_TTL, REGISTRATION_TOKEN_TTL, MAX_ATTEMPTS,
        TRANSIENT_PURGE_ATTEMPTS} \subseteq Nat \ {0}
    /\ COOLDOWN <= OTP_TTL
    /\ {MaxTime, MaxCodes, MaxPending} \subseteq Nat

VARIABLES
    now,
    otp,      \* the hash in Redis, or None
    codes,    \* history: codes[i]: when code i was created, what became of it
    grants,   \* grants[g]: when the grant g expires; clients hold it
    used,     \* registration_grant_use
    claims,   \* history: accounts inserted, with their grant and time
    row,      \* row[u]: the row of users, or None
    pending,  \* placeholder tokens drawn so far are 1 .. pending
    byUser,   \* cacheByUserId[u]: the token, or None
    byToken,  \* cacheByDirectoryToken[n]: the user, or None
    socket,   \* socket[u]: the handler of the registered session, or None
    items,    \* items[u]: queued messages in Redis
    index,    \* index[u]: the index over them
    task,     \* task[h]: what a handler is doing
    overtaken, \* history: users whose row changed again before a request had brought the
               \* maps up to date with what it had committed for them
    reached    \* history: accounts that have published an Olm identity since they exist

codeVars == <<otp, codes, grants>>
dirVars == <<row, pending, byUser, byToken, overtaken, reached>>
copyVars == <<socket, items, index>>
vars == <<now, codeVars, used, claims, dirVars, copyVars, task>>

\* A placeholder is a number of its own that no client can name.
Token == Number \union 1 .. MaxPending
ASSUME PlaceholderAssumption == Number \intersect 1 .. MaxPending = {}
\* olm: olm_identity_key; legacy: identity_public_key; pin: recovery_identity_pin.
Row == [token: Token, olm: BOOLEAN, legacy: BOOLEAN, pin: BOOLEAN]
ASSUME NoneAssumption ==
    /\ None \notin Token \union User \union Handler \union Row
    /\ None \notin [code: Nat, attempts: Nat, createdAt: Nat]

ASSUME ExistingAssumption == Existing \in [User -> [token: Number, olm: BOOLEAN,
                                            legacy: BOOLEAN, pin: BOOLEAN] \union {None}]
\* users.directory_token is UNIQUE.
ASSUME UniqueAssumption ==
    \A u, v \in User :
        Existing[u] # None /\ Existing[v] # None /\ Existing[u].token = Existing[v].token => u = v

Steps == {"idle", "claim", "replace", "reclaim", "cacheOwner", "cacheOwn", "delete",
          "registry", "close", "purge", "unindex", "enqueue", "connect", "watch"}
Task == [pc: Steps, user: User \union {None}, number: Token \union {None},
         owner: User \union {None}, old: Token \union {None},
         released: Token \union {None}, grant: Nat, attempt: Nat,
         frame: Frame \union {None}]
Idle == [pc |-> "idle", user |-> None, number |-> None, owner |-> None, old |-> None,
         released |-> None, grant |-> 0, attempt |-> 0, frame |-> None]

TokenOf(u) == IF row[u] = None THEN None ELSE row[u].token
HolderOf(t) == IF \E u \in User : TokenOf(u) = t
               THEN CHOOSE u \in User : TokenOf(u) = t ELSE None

Init ==
    /\ now = 0
    /\ otp = None /\ codes = <<>> /\ grants = <<>>
    /\ used = {} /\ claims = {}
    /\ row = Existing /\ pending = 0
    /\ byUser = [u \in User |-> TokenOf(u)]
    /\ byToken = [n \in Number |-> HolderOf(n)]
    /\ overtaken = {}
    /\ reached = {u \in User : row[u] # None /\ row[u].olm}
    /\ socket = [u \in User |-> None]
    /\ items = [u \in User |-> {}] /\ index = [u \in User |-> {}]
    /\ task = [h \in Handler |-> Idle]

Done(h) == task' = [task EXCEPT ![h] = Idle]
Goto(h, pc) == task' = [task EXCEPT ![h].pc = pc]

----------------------------------------------------------------------------
(* One-time codes and grants.  Each script runs alone in Redis. *)

Put(e, i, fate) == [e EXCEPT ![i].fate = fate]

\* Faulty variant: a code may follow another at once.
generateOtpUnpaced ==
    /\ Len(codes) < MaxCodes
    /\ otp' = [code |-> Len(codes) + 1, attempts |-> 0, createdAt |-> now]
    /\ codes' = Append(IF otp = None THEN codes ELSE Put(codes, otp.code, "replaced"),
                       [at |-> now, fate |-> "open", wrong |-> 0])
    /\ UNCHANGED <<now, grants, used, claims, dirVars, copyVars, task>>

\* CREATE_OTP_SCRIPT: refused while the stored code is younger than the
\* cooldown, replaces it otherwise.
generateOtp ==
    /\ Len(codes) < MaxCodes
    /\ otp # None => now - otp.createdAt >= COOLDOWN
    /\ otp' = [code |-> Len(codes) + 1, attempts |-> 0, createdAt |-> now]
    /\ codes' = Append(IF otp = None THEN codes ELSE Put(codes, otp.code, "replaced"),
                       [at |-> now, fate |-> "open", wrong |-> 0])
    /\ UNCHANGED <<now, grants, used, claims, dirVars, copyVars, task>>

\* VERIFY_OTP_SCRIPT with the right code, and the grant it buys.
verifyRight ==
    /\ otp # None
    /\ otp' = None
    /\ codes' = Put(codes, otp.code, "accepted")
    /\ grants' = Append(grants, now + REGISTRATION_TOKEN_TTL)
    /\ UNCHANGED <<now, used, claims, dirVars, copyVars, task>>

\* Faulty variant: the failures are counted but never end the code.
verifyWrongForever ==
    /\ otp # None
    /\ codes' = [codes EXCEPT ![otp.code].wrong = @ + 1]
    /\ otp' = [otp EXCEPT !.attempts = @ + 1]
    /\ UNCHANGED <<now, grants, used, claims, dirVars, copyVars, task>>

\* VERIFY_OTP_SCRIPT with a wrong code: the last attempt ends the code.
verifyWrong ==
    /\ otp # None
    /\ LET last == otp.attempts + 1 >= MAX_ATTEMPTS
       IN  /\ otp' = IF last THEN None ELSE [otp EXCEPT !.attempts = @ + 1]
           /\ codes' = [codes EXCEPT ![otp.code].wrong = @ + 1,
                                     ![otp.code].fate = IF last THEN "exhausted" ELSE @]
    /\ UNCHANGED <<now, grants, used, claims, dirVars, copyVars, task>>

\* Redis drops the hash at its time to live.
OtpExpires ==
    /\ otp # None /\ now - otp.createdAt >= OTP_TTL
    /\ otp' = None
    /\ codes' = Put(codes, otp.code, "expired")
    /\ UNCHANGED <<now, grants, used, claims, dirVars, copyVars, task>>

\* POST /users/register: the grant is verified, not consumed.
Register(h, g, u) ==
    /\ task[h].pc = "idle" /\ now < grants[g]
    /\ task' = [task EXCEPT ![h] = [Idle EXCEPT !.pc = "claim", !.grant = g, !.user = u]]
    /\ UNCHANGED <<now, codeVars, used, claims, dirVars, copyVars>>

\* Deletions of u that have committed and have yet to visit the maps, or may
\* visit them again.
Clearing(u) ==
    \E h \in Handler :
        /\ task[h].user = u
        /\ \/ task[h].pc = "registry"
           \/ task[h].pc \in {"close", "purge", "unindex"} /\ task[h].attempt < TRANSIENT_PURGE_ATTEMPTS

\* Faulty variant: the use of a grant is not recorded with the account.
claimAccountUnrecorded(h) ==
    LET u == task[h].user
        g == task[h].grant
    IN  /\ task[h].pc = "claim" /\ pending < MaxPending
        /\ IF g \in used \/ row[u] # None
           THEN Done(h) /\ UNCHANGED <<used, claims, row, pending, overtaken>>
           ELSE /\ pending' = pending + 1
                /\ row' = [row EXCEPT ![u] = [token |-> pending', olm |-> FALSE,
                                              legacy |-> FALSE, pin |-> FALSE]]
                /\ claims' = claims \union {[user |-> u, grant |-> g, at |-> now]}
                /\ task' = [task EXCEPT ![h].pc = "cacheOwn", ![h].number = pending']
                /\ overtaken' = IF Clearing(u) THEN overtaken \union {u} ELSE overtaken
                /\ UNCHANGED used
        /\ UNCHANGED <<now, codeVars, byUser, byToken, reached, copyVars>>

\* claimAccount: the use of the grant and the row commit together, or neither
\* does: a grant used before, or an identifier taken.
claimAccount(h) ==
    LET u == task[h].user
        g == task[h].grant
    IN  /\ task[h].pc = "claim" /\ pending < MaxPending
        /\ IF g \in used \/ row[u] # None
           THEN Done(h) /\ UNCHANGED <<used, claims, row, pending, overtaken>>
           ELSE /\ used' = used \union {g}
                /\ pending' = pending + 1
                /\ row' = [row EXCEPT ![u] = [token |-> pending', olm |-> FALSE,
                                              legacy |-> FALSE, pin |-> FALSE]]
                /\ claims' = claims \union {[user |-> u, grant |-> g, at |-> now]}
                /\ task' = [task EXCEPT ![h].pc = "cacheOwn", ![h].number = pending']
                /\ overtaken' = IF Clearing(u) THEN overtaken \union {u} ELSE overtaken
        /\ UNCHANGED <<now, codeVars, byUser, byToken, reached, copyVars>>

\* The retention worker forgets the uses of expired grants.
purgeExpired ==
    /\ \E g \in used : grants[g] < now
    /\ used' = {g \in used : grants[g] >= now}
    /\ UNCHANGED <<now, codeVars, claims, dirVars, copyVars, task>>

----------------------------------------------------------------------------
(* The directory.  byUser and byToken are what the registry's two maps     *)
(* hold; placeholders are never looked up by token.                        *)

Unless(map, t, u) ==
    IF t \in Number /\ map[t] = u THEN [map EXCEPT ![t] = None] ELSE map
With(map, t, u) ==
    IF t \in Number THEN [map EXCEPT ![t] = u] ELSE map

\* cache(user), after its entry under the token it had is removed.
Cached(u, old, t) ==
    /\ byUser' = [byUser EXCEPT ![u] = t]
    /\ byToken' = With(Unless(byToken, old, u), t, u)

\* updateOwnDirectoryToken reads the account and the holder of the number from
\* the maps, or from the table where a map has no entry.
UpdateToken(h, u, n) ==
    LET current == IF byUser[u] # None THEN byUser[u] ELSE TokenOf(u)
        owner == IF byToken[n] # None THEN byToken[n] ELSE HolderOf(n)
    IN  /\ task[h].pc = "idle" /\ row[u] # None
        /\ current # n
        /\ task' = [task EXCEPT ![h] =
              [Idle EXCEPT !.pc = IF owner \in {None, u} THEN "replace" ELSE "reclaim",
                           !.user = u, !.number = n, !.old = current,
                           !.owner = IF owner = u THEN None ELSE owner]]
        /\ UNCHANGED <<now, codeVars, used, claims, dirVars, copyVars>>

\* Requests that have committed a token of u and have yet to cache it.
AboutToCache(u) ==
    \E h \in Handler : \/ task[h].pc \in {"cacheOwner", "cacheOwn"} /\ task[h].user = u
                       \/ task[h].pc = "cacheOwner" /\ task[h].owner = u
Overtaking(changed) == overtaken \union {u \in changed : AboutToCache(u)}

\* Faulty variant: the row is updated whatever token it has by now.
replaceDirectoryTokenAny(h) ==
    LET u == task[h].user
        n == task[h].number
    IN  /\ task[h].pc = "replace"
        /\ IF row[u] # None /\ HolderOf(n) \in {None, u}
           THEN row' = [row EXCEPT ![u].token = n] /\ Goto(h, "cacheOwn")
           ELSE Done(h) /\ UNCHANGED row
        /\ UNCHANGED <<now, codeVars, used, claims, pending, byUser, byToken, overtaken, reached, copyVars>>

\* replaceDirectoryToken: compare-and-set on the row; tokens are unique.
replaceDirectoryToken(h) ==
    LET u == task[h].user
        n == task[h].number
    IN  /\ task[h].pc = "replace"
        /\ IF TokenOf(u) = task[h].old /\ row[u] # None /\ HolderOf(n) \in {None, u}
           THEN /\ row' = [row EXCEPT ![u].token = n]
                /\ overtaken' = Overtaking({u})
                /\ Goto(h, "cacheOwn")
           ELSE Done(h) /\ UNCHANGED <<row, overtaken>>
        /\ UNCHANGED <<now, codeVars, used, claims, pending, byUser, byToken, reached, copyVars>>

\* An account nobody can encrypt for: no Olm identity, and not in the middle of
\* a recovery, which empties both identities and sets the pin.
CannotReceive(r) == ~r.olm /\ (r.legacy \/ ~r.pin)

\* reclaimFromLegacyAccount: one transaction for both rows, or nothing.
reclaimFromLegacyAccount(h) ==
    LET u == task[h].user
        n == task[h].number
        v == task[h].owner
    IN  /\ task[h].pc = "reclaim" /\ pending < MaxPending
        /\ IF /\ TokenOf(v) = n /\ CannotReceive(row[v])
              /\ TokenOf(u) = task[h].old /\ row[u] # None
           THEN /\ pending' = pending + 1
                /\ row' = [row EXCEPT ![v].token = pending', ![u].token = n]
                /\ task' = [task EXCEPT ![h].pc = "cacheOwner", ![h].released = pending']
                /\ overtaken' = Overtaking({u, v})
           ELSE Done(h) /\ UNCHANGED <<row, pending, overtaken>>
        /\ UNCHANGED <<now, codeVars, used, claims, byUser, byToken, reached, copyVars>>

CacheOwner(h) ==
    /\ task[h].pc = "cacheOwner"
    /\ Cached(task[h].owner, task[h].number, task[h].released)
    /\ Goto(h, "cacheOwn")
    /\ UNCHANGED <<now, codeVars, used, claims, row, pending, overtaken, reached, copyVars>>

CacheOwn(h) ==
    /\ task[h].pc = "cacheOwn"
    /\ Cached(task[h].user, task[h].old, task[h].number)
    /\ Done(h)
    /\ UNCHANGED <<now, codeVars, used, claims, row, pending, overtaken, reached, copyVars>>

\* OlmPreKeyStore.setIdentity.
setIdentity(u) ==
    /\ row[u] # None /\ ~row[u].olm
    /\ row' = [row EXCEPT ![u].olm = TRUE]
    /\ reached' = reached \union {u}
    /\ UNCHANGED <<now, codeVars, used, claims, pending, byUser, byToken, overtaken, copyVars, task>>

\* Faulty variant: the identities are emptied and the pin is left as it was.
recoverUnpinned(u) ==
    /\ row[u] # None
    /\ row' = [row EXCEPT ![u] = [@ EXCEPT !.olm = FALSE, !.legacy = FALSE]]
    /\ row' # row
    /\ UNCHANGED <<now, codeVars, used, claims, pending, byUser, byToken, overtaken, reached,
                   copyVars, task>>

\* A recovery that replaces the identity.
recover(u) ==
    /\ row[u] # None
    /\ row' = [row EXCEPT ![u] = [@ EXCEPT !.olm = FALSE, !.legacy = FALSE, !.pin = TRUE]]
    /\ row' # row
    /\ UNCHANGED <<now, codeVars, used, claims, pending, byUser, byToken, overtaken, reached,
                   copyVars, task>>

----------------------------------------------------------------------------
(* Deletion, sockets and messages *)

Delete(h, u) ==
    /\ task[h].pc = "idle" /\ row[u] # None
    /\ task' = [task EXCEPT ![h] = [Idle EXCEPT !.pc = "delete", !.user = u]]
    /\ UNCHANGED <<now, codeVars, used, claims, dirVars, copyVars>>

\* The transaction may fail, or refuse a credential epoch that is over.
deleteDurableState(h) ==
    LET u == task[h].user
    IN  /\ task[h].pc = "delete"
        /\ \/ /\ row' = [row EXCEPT ![u] = None]
              /\ overtaken' = Overtaking({u})
              /\ task' = [task EXCEPT ![h].pc = "registry", ![h].attempt = 1]
              /\ reached' = reached \ {u}
           \/ Done(h) /\ UNCHANGED <<row, overtaken, reached>>
        /\ UNCHANGED <<now, codeVars, used, claims, pending, byUser, byToken, copyVars>>

removeUser(h) ==
    LET u == task[h].user
    IN  /\ task[h].pc = "registry"
        /\ byUser' = [byUser EXCEPT ![u] = None]
        /\ byToken' = Unless(byToken, byUser[u], u)
        /\ Goto(h, "close")
        /\ UNCHANGED <<now, codeVars, used, claims, row, pending, overtaken, reached, copyVars>>

\* The session is taken off the map and closed; its coroutine ends.
closeUserSocket(h) ==
    LET u == task[h].user
        s == socket[u]
    IN  /\ task[h].pc = "close"
        /\ socket' = [socket EXCEPT ![u] = None]
        /\ task' = [x \in Handler |-> IF x = h THEN [task[h] EXCEPT !.pc = "purge"]
                                      ELSE IF x = s THEN Idle ELSE task[x]]
        /\ UNCHANGED <<now, codeVars, used, claims, dirVars, items, index>>

\* purgeQueuedEnvelopes: the messages in the index, then the index.
purgeItems(h) ==
    /\ task[h].pc = "purge"
    /\ items' = [items EXCEPT ![task[h].user] = @ \ index[task[h].user]]
    /\ Goto(h, "unindex")
    /\ UNCHANGED <<now, codeVars, used, claims, dirVars, socket, index>>

purgeIndex(h) ==
    /\ task[h].pc = "unindex"
    /\ index' = [index EXCEPT ![task[h].user] = {}]
    /\ Done(h)
    /\ UNCHANGED <<now, codeVars, used, claims, dirVars, socket, items>>

\* A failed step is tried again with all the others, a few times.
PurgeFails(h) ==
    /\ task[h].pc \in {"purge", "unindex"}
    /\ task' = IF task[h].attempt < TRANSIENT_PURGE_ATTEMPTS
               THEN [task EXCEPT ![h].pc = "registry", ![h].attempt = @ + 1]
               ELSE [task EXCEPT ![h] = Idle]
    /\ UNCHANGED <<now, codeVars, used, claims, dirVars, copyVars>>

\* A sender's frame: the recipient must be in the registry.
Route(h, u, f) ==
    /\ task[h].pc = "idle" /\ byUser[u] # None
    /\ task' = [task EXCEPT ![h] = [Idle EXCEPT !.pc = "enqueue", !.user = u, !.frame = f]]
    /\ UNCHANGED <<now, codeVars, used, claims, dirVars, copyVars>>

Enqueue(h) ==
    LET u == task[h].user
        f == task[h].frame
    IN  /\ task[h].pc = "enqueue"
        /\ items' = [items EXCEPT ![u] = @ \union {f}]
        /\ index' = [index EXCEPT ![u] = @ \union {f}]
        /\ Done(h)
        /\ UNCHANGED <<now, codeVars, used, claims, dirVars, socket>>

\* A socket is authenticated, then registered, then watched.
Dial(h, u) ==
    /\ task[h].pc = "idle" /\ row[u] # None
    /\ task' = [task EXCEPT ![h] = [Idle EXCEPT !.pc = "connect", !.user = u]]
    /\ UNCHANGED <<now, codeVars, used, claims, dirVars, copyVars>>

\* A session that was registered before is closed.
addConnection(h) ==
    LET u == task[h].user
        s == socket[u]
    IN  /\ task[h].pc = "connect"
        /\ socket' = [socket EXCEPT ![u] = h]
        /\ task' = [x \in Handler |-> IF x = h THEN [task[h] EXCEPT !.pc = "watch"]
                                      ELSE IF x = s THEN Idle ELSE task[x]]
        /\ UNCHANGED <<now, codeVars, used, claims, dirVars, items, index>>

\* Faulty variant: a row that is missing is taken for a failed lookup, and the
\* socket stays open.
credentialWatchLenient(h) ==
    task[h].pc = "watch" /\ row[task[h].user] = None /\ UNCHANGED vars

\* credentialWatch closes the socket of an account that is gone.
credentialWatch(h) ==
    /\ task[h].pc = "watch" /\ row[task[h].user] = None
    /\ socket' = [socket EXCEPT ![task[h].user] = IF @ = h THEN None ELSE @]
    /\ Done(h)
    /\ UNCHANGED <<now, codeVars, used, claims, dirVars, items, index>>

\* The client hangs up.
HangUp(h) ==
    /\ task[h].pc = "watch"
    /\ socket' = [socket EXCEPT ![task[h].user] = IF @ = h THEN None ELSE @]
    /\ Done(h)
    /\ UNCHANGED <<now, codeVars, used, claims, dirVars, items, index>>

\* The queue reaches its time to live.
Lapse(u) ==
    /\ items[u] \union index[u] # {}
    /\ items' = [items EXCEPT ![u] = {}] /\ index' = [index EXCEPT ![u] = {}]
    /\ UNCHANGED <<now, codeVars, used, claims, dirVars, socket, task>>

----------------------------------------------------------------------------
Tick ==
    /\ now < MaxTime
    /\ now' = now + 1
    /\ UNCHANGED <<codeVars, used, claims, dirVars, copyVars, task>>

\* The process dies and loadFromDb fills the maps again.
Restart ==
    /\ task' = [h \in Handler |-> Idle]
    /\ socket' = [u \in User |-> None]
    /\ byUser' = [u \in User |-> TokenOf(u)]
    /\ byToken' = [n \in Number |-> HolderOf(n)]
    /\ overtaken' = {}
    /\ UNCHANGED <<now, codeVars, used, claims, row, pending, reached, items, index>>

Arrive(h) ==
    \/ \E g \in DOMAIN grants, u \in User : Register(h, g, u)
    \/ \E u \in User, n \in Number : UpdateToken(h, u, n)
    \/ \E u \in User : Delete(h, u) \/ Dial(h, u)
    \/ \E u \in User, f \in Frame : Route(h, u, f)

Continue(h) ==
    \/ claimAccount(h)
    \/ replaceDirectoryToken(h) \/ reclaimFromLegacyAccount(h)
    \/ CacheOwner(h) \/ CacheOwn(h)
    \/ deleteDurableState(h) \/ removeUser(h) \/ closeUserSocket(h)
    \/ purgeItems(h) \/ purgeIndex(h)
    \/ Enqueue(h) \/ addConnection(h) \/ credentialWatch(h)

Next ==
    \/ generateOtp \/ verifyRight \/ verifyWrong \/ OtpExpires \/ purgeExpired
    \/ \E h \in Handler : Arrive(h) \/ Continue(h) \/ PurgeFails(h) \/ HangUp(h)
    \/ \E u \in User : setIdentity(u) \/ recover(u) \/ Lapse(u)
    \/ Tick \/ Restart

\* A handler that can go on does; keys reach their time to live.
Fairness ==
    /\ \A h \in Handler : WF_vars(Continue(h))
    /\ \A u \in User : WF_vars(Lapse(u))

Spec == Init /\ [][Next]_vars /\ Fairness

----------------------------------------------------------------------------
(* Properties *)

TypeOK ==
    /\ now \in 0 .. MaxTime
    /\ codes \in Seq([at: Nat, wrong: Nat,
                      fate: {"open", "accepted", "exhausted", "expired", "replaced"}])
    /\ otp = None \/ /\ otp \in [code: DOMAIN codes, attempts: 0 .. MAX_ATTEMPTS - 1, createdAt: Nat]
                     /\ codes[otp.code].fate = "open" /\ otp.code = Len(codes)
    /\ grants \in Seq(Nat) /\ used \subseteq DOMAIN grants
    /\ claims \subseteq [user: User, grant: DOMAIN grants, at: Nat]
    /\ row \in [User -> Row \union {None}]
    /\ pending \in 0 .. MaxPending
    /\ byUser \in [User -> Token \union {None}]
    /\ byToken \in [Number -> User \union {None}]
    /\ socket \in [User -> Handler \union {None}]
    /\ items \in [User -> SUBSET Frame] /\ index \in [User -> SUBSET Frame]
    /\ task \in [Handler -> Task]
    /\ overtaken \subseteq User /\ reached \subseteq User

\* A code is followed by another before the cooldown is over only if it was
\* accepted or guessed at too often, it is guessed at MAX_ATTEMPTS times at
\* most, and never accepted after that.
CodesPaced ==
    /\ \A i \in 1 .. Len(codes) - 1 :
          \/ codes[i + 1].at - codes[i].at >= COOLDOWN
          \/ codes[i].fate \in {"accepted", "exhausted"}
    /\ \A i \in DOMAIN codes :
          /\ codes[i].wrong <= MAX_ATTEMPTS
          /\ codes[i].wrong = MAX_ATTEMPTS => codes[i].fate = "exhausted"

\* Of the accounts inserted with one grant, all but the first were inserted
\* after it had expired: two requests let in with the same grant cannot both
\* succeed in its time, whatever the retention worker forgets.
GrantBuysOneAccount ==
    \A c, d \in claims :
        c # d /\ c.grant = d.grant => c.at > grants[c.grant] \/ d.at > grants[d.grant]

\* Nobody is about to change the entries of u.
Quiet(u) ==
    \A h \in Handler :
        /\ task[h].user = u => task[h].pc \notin {"cacheOwner", "cacheOwn", "registry"}
        /\ task[h].owner = u => task[h].pc # "cacheOwner"

\* While no request is between its commit and its visit to the maps, the
\* registry agrees with the table: a deleted account does not exist, every
\* account has the token of its row, and a number leads to its holder, or to
\* the table.  The exceptions are accounts whose row changed again before an
\* earlier change was cached: by a deletion or a reclaim, which look at the row
\* only, by an update whose compare-and-set met a token that had come back, or
\* by a registration of the same identifier while its deletion still cleared
\* the maps.
CacheAgrees ==
    /\ \A u \in User \ overtaken : Quiet(u) => byUser[u] = TokenOf(u)
    /\ (\A u \in User : Quiet(u)) =>
          \A n \in Number : byToken[n] \in {None, HolderOf(n)} \union overtaken

\* An account that has published an identity never loses its number to a
\* request of another account: not while a recovery has emptied its identities,
\* not between a recovery and the next publication, and not to a take-over that
\* was decided before the publication.
ReachableKeepsNumber ==
    [][\A u \in reached :
          row'[u] # None /\ row[u].token # row'[u].token =>
              \E h \in Handler : task[h].user = u /\ task[h].pc \in {"replace", "reclaim"}
                                 /\ task'[h].pc # task[h].pc]_vars

\* An account that was deleted has, before long and for good, no registered
\* socket, nothing queued and no entry in the registry, except where the
\* deletion overtook a directory update.
Faded(u) == socket[u] = None /\ items[u] = {} /\ index[u] = {} /\ byUser[u] = None
DeletedFades ==
    \A u \in User :
        [](row[u] = None /\ byUser[u] # None
            => <>[](Faded(u) \/ u \in overtaken \/ row[u] # None))
=============================================================================
