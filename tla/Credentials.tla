---------------------------- MODULE Credentials ----------------------------
(***************************************************************************)
(* The credentials of one account: the epoch and the refresh generation in *)
(* its PostgreSQL row, the copy of the epoch every signaling instance      *)
(* caches, the one-shot record in Redis that lets a client whose refresh   *)
(* response was lost ask again, and the HTTP handlers that read and change *)
(* them (CredentialState, AuthService, DeviceReauth, HttpRoutes).          *)
(*                                                                         *)
(* Handlers run concurrently on several instances.  A SQL statement, a     *)
(* Redis command and an operation on the concurrent cache map are each     *)
(* atomic; between any two of them other handlers run and time passes.     *)
(*                                                                         *)
(* Signature checks, JWT expiry and rate limits only refuse requests and   *)
(* are left out: the tokens presented are ones the server has signed.      *)
(***************************************************************************)
EXTENDS Integers

CONSTANTS
    Instance,   \* signaling server processes
    Request,    \* handlers that may be running at the same time
    Kind,       \* the requests that are made
    TTL,        \* CACHE_TTL_MS
    MayFail,    \* the database or Redis may be out of reach
    MayCrash,   \* a process may be killed and restarted
    MaxTime,    \* bound of the model: the clock
    MaxValue    \* bound of the model: random values drawn

Kinds == {"access", "refresh", "reauth", "logout", "delete", "recover"}

ASSUME InstanceAssumption == Instance # {}
ASSUME KindAssumption == Kind \subseteq Kinds
ASSUME TtlAssumption  == TTL \in Nat \ {0}
ASSUME FailAssumption == MayFail \in BOOLEAN /\ MayCrash \in BOOLEAN
ASSUME BoundAssumption == MaxTime \in Nat /\ MaxValue \in Nat

VARIABLES
    row,          \* users: credential_epoch and refresh_generation
    minted,       \* newValue(): the values drawn so far are 1 .. minted
    cache,        \* cache[i]: the CachedSnapshot of the account, if any
    grace,        \* auth:refresh_grace: superseded generation -> successor
    inbox,        \* instances with an invalidation message to read
    req,          \* req[r]: the local state of a handler
    held,         \* epoch and generation of the tokens clients hold
    now,          \* the wall clock
    revocations,  \* history: which epoch ended, and when
    dropped,      \* history: <<i, e>>, i ended epoch e and forgot its copy
    born,         \* history: every epoch and generation the row has held
    spent         \* history: generations whose redemption was answered

vars == <<row, minted, cache, grace, inbox, req, held, now,
          revocations, dropped, born, spent>>

Pair     == [epoch: Nat, gen: Nat]
Absent   == [epoch |-> 0, gen |-> 0]   \* no users row
Rotation == [gen: Nat, next: Nat]

\* A snapshot, also a null one, with the time the caller began to load it.
CachedSnapshot == [epoch: Nat, at: Nat]

PC  == {"idle", "load", "store", "rotate", "remember", "redeem", "sign",
        "reread", "revoke", "delete", "forget", "publish", "answered"}
Out == {"none", "accepted", "issued", "rejected", "unavailable", "done"}

\* A handler on instance i before its first step; the idle ones share one i.
Begin(i) == [pc |-> "idle", kind |-> "access", on |-> i, tok |-> Absent, from |-> 0,
             late |-> FALSE, pair |-> Absent, gen |-> 0, out |-> "none"]
Idle     == Begin(CHOOSE i \in Instance : TRUE)

\* The account has just been registered and its first tokens handed out.
Init ==
    /\ row = [epoch |-> 1, gen |-> 2]
    /\ minted = 2
    /\ cache = [i \in Instance |-> {}]
    /\ grace = {}
    /\ inbox = {}
    /\ req = [r \in Request |-> Idle]
    /\ held = {row}
    /\ now = 0
    /\ born = {row}
    /\ revocations = {} /\ dropped = {} /\ spent = {}

Become(r, q)  == req' = [req EXCEPT ![r] = q]
Answer(r, o)  == Become(r, [req[r] EXCEPT !.pc = "answered", !.out = o,
                                         !.pair = Absent, !.gen = 0])
Issue(r, p)   == Become(r, [req[r] EXCEPT !.pc = "answered", !.out = "issued", !.pair = p])
Goto(r, pc)   == Become(r, [req[r] EXCEPT !.pc = pc])
Forget(i)     == cache' = [cache EXCEPT ![i] = {}]

history == <<revocations, dropped, born, spent>>

(***************************************************************************)
(* AuthService.accessClaims and refreshClaims on CredentialState           *)
(* .cachedSnapshot: the cached epoch if it is young enough, else a load    *)
(* followed by a store, and the token's epoch against it.                  *)
(***************************************************************************)
Fresh(c, t) == t - c.at < TTL

\* What the handler does with the epoch it was given for the account.
Verdict(q, epoch) ==
    IF epoch # 0 /\ q.tok.epoch = epoch
    THEN [q EXCEPT !.gen = q.tok.gen, !.pair = Absent,
                   !.out = IF q.kind = "access" THEN "accepted" ELSE "none",
                   !.pc  = CASE q.kind = "access"  -> "answered"
                             [] q.kind = "refresh" -> "rotate"
                             [] q.kind = "reauth"  -> "sign"
                             [] q.kind = "logout"  -> "revoke"
                             [] OTHER              -> "delete"]
    ELSE [q EXCEPT !.pc = "answered", !.pair = Absent, !.out = "rejected"]

Arrive(r, k, i, t) ==
    /\ req[r].pc = "idle"
    /\ k \in Kind \ {"recover"}
    /\ LET q == [Begin(i) EXCEPT !.pc = "load", !.kind = k, !.tok = t, !.from = now,
                                 !.late = k = "access" /\ <<i, t.epoch>> \in dropped]
       IN  \/ /\ \A c \in cache[i] : ~Fresh(c, now)
              /\ Become(r, q)
           \/ \E c \in cache[i] : Fresh(c, now) /\ Become(r, Verdict(q, c.epoch))
    /\ UNCHANGED <<row, minted, cache, grace, inbox, held, now, history>>

\* snapshot(): the SELECT.
Load(r) ==
    /\ req[r].pc = "load"
    /\ Become(r, [req[r] EXCEPT !.pc = "store", !.pair = row])
    /\ UNCHANGED <<row, minted, cache, grace, inbox, held, now, history>>

\* Faulty variant: the entry carries the time it is stored.
StoreStampedLate(r) ==
    /\ req[r].pc = "store"
    /\ cache' = [cache EXCEPT ![req[r].on] =
                     {[epoch |-> req[r].pair.epoch, at |-> now]}]
    /\ Become(r, Verdict(req[r], req[r].pair.epoch))
    /\ UNCHANGED <<row, minted, grace, inbox, held, now, history>>

\* The entry carries the time read before the load.
Store(r) ==
    /\ req[r].pc = "store"
    /\ cache' = [cache EXCEPT ![req[r].on] =
                     {[epoch |-> req[r].pair.epoch, at |-> req[r].from]}]
    /\ Become(r, Verdict(req[r], req[r].pair.epoch))
    /\ UNCHANGED <<row, minted, grace, inbox, held, now, history>>

(***************************************************************************)
(* POST /auth/refresh and /auth/device/verify.                             *)
(***************************************************************************)
\* rotateRefreshGeneration: UPDATE ... WHERE refresh_generation = presented,
\* and the forget that follows it.
Rotated(r) ==
    /\ row # Absent /\ row.gen = req[r].gen
    /\ minted < MaxValue
    /\ minted' = minted + 1
    /\ row' = [row EXCEPT !.gen = minted + 1]
    /\ born' = born \cup {row'}
    /\ Become(r, [req[r] EXCEPT !.pc = "remember", !.pair = row'])

NotRotated(r) ==
    /\ row = Absent \/ row.gen # req[r].gen
    /\ IF req[r].kind = "refresh" THEN Goto(r, "redeem") ELSE Answer(r, "rejected")
    /\ UNCHANGED <<row, minted, born>>

Rotate(r) ==
    /\ req[r].pc = "rotate"
    /\ Rotated(r) \/ NotRotated(r)
    /\ Forget(req[r].on)
    /\ UNCHANGED <<grace, inbox, held, now, revocations, dropped, spent>>

\* Faulty variant: the record leads from the successor to the superseded one.
RememberSwapped(r) ==
    /\ req[r].pc = "remember"
    /\ grace' = grace \cup {[gen |-> req[r].pair.gen, next |-> req[r].gen]}
    /\ Issue(r, req[r].pair)
    /\ UNCHANGED <<row, minted, cache, inbox, held, now, history>>

\* rememberRotation, whose failure is swallowed; the pair is then issued.
Remember(r) ==
    /\ req[r].pc = "remember"
    /\ \/ grace' = grace \cup {[gen |-> req[r].gen, next |-> req[r].pair.gen]}
       \/ MayFail /\ UNCHANGED grace
    /\ Issue(r, req[r].pair)
    /\ UNCHANGED <<row, minted, cache, inbox, held, now, revocations, dropped, born, spent>>

\* Faulty variant: GET instead of GETDEL.
RedeemKeepsRecord(r) ==
    /\ req[r].pc = "redeem"
    /\ \/ \E g \in grace :
            /\ g.gen = req[r].tok.gen
            /\ Become(r, [req[r] EXCEPT !.pc = "reread", !.gen = g.next])
            /\ Forget(req[r].on)
       \/ /\ MayFail \/ \A g \in grace : g.gen # req[r].tok.gen
          /\ Answer(r, "rejected")
          /\ UNCHANGED cache
    /\ UNCHANGED <<row, minted, grace, inbox, held, now, history>>

\* redeemLostRotation: GETDEL, which refuses if Redis fails, then forget.
Redeem(r) ==
    /\ req[r].pc = "redeem"
    /\ \/ \E g \in grace :
            /\ g.gen = req[r].tok.gen
            /\ grace' = grace \ {g}
            /\ Become(r, [req[r] EXCEPT !.pc = "reread", !.gen = g.next])
            /\ Forget(req[r].on)
       \/ /\ MayFail \/ \A g \in grace : g.gen # req[r].tok.gen
          /\ Answer(r, "rejected")
          /\ UNCHANGED <<grace, cache>>
    /\ UNCHANGED <<row, minted, inbox, held, now, revocations, dropped, born, spent>>

\* The rest of redeemLostRotation: the successor must still be current.
RedeemCheck(r) ==
    /\ req[r].pc = "reread" /\ req[r].kind = "refresh"
    /\ \/ /\ row # Absent /\ row.gen = req[r].gen
          /\ Issue(r, row)
          /\ spent' = spent \cup {req[r].tok.gen}
       \/ /\ row = Absent \/ row.gen # req[r].gen
          /\ Answer(r, "rejected")
          /\ UNCHANGED spent
    /\ UNCHANGED <<row, minted, cache, grace, inbox, held, now, revocations, dropped, born>>

\* reauthenticate after the claims: the device's signature, then forget.
Sign(r) ==
    /\ req[r].pc = "sign"
    /\ \/ Goto(r, "reread") /\ Forget(req[r].on)
       \/ Answer(r, "rejected") /\ UNCHANGED cache
    /\ UNCHANGED <<row, minted, grace, inbox, held, now, history>>

\* The fresh snapshot of reauthenticate and the token's epoch against it.
ReauthCheck(r) ==
    /\ req[r].pc = "reread" /\ req[r].kind = "reauth"
    /\ \/ /\ row # Absent /\ row.epoch = req[r].tok.epoch
          /\ Become(r, [req[r] EXCEPT !.pc = "rotate", !.gen = row.gen])
       \/ /\ row = Absent \/ row.epoch # req[r].tok.epoch
          /\ Answer(r, "rejected")
    /\ UNCHANGED <<row, minted, cache, grace, inbox, held, now, history>>

(***************************************************************************)
(* Logout, account deletion and recovery: the durable change, then the     *)
(* local copy, then the other instances.                                   *)
(***************************************************************************)
Revocation == [epoch |-> row.epoch, at |-> now]

NewRow(p) ==
    /\ minted + 2 <= MaxValue
    /\ minted' = minted + 2
    /\ row' = p
    /\ born' = born \cup {p}

\* rotateCredentialEpoch's UPDATE; invalidateEverywhere follows in any case.
RotateEpoch(r) ==
    /\ req[r].pc = "revoke"
    /\ \/ /\ row.epoch = req[r].tok.epoch
          /\ NewRow([epoch |-> minted + 1, gen |-> minted + 2])
          /\ revocations' = revocations \cup {Revocation}
          /\ Become(r, [req[r] EXCEPT !.pc = "forget", !.out = "done"])
       \/ /\ row.epoch # req[r].tok.epoch
          /\ Become(r, [req[r] EXCEPT !.pc = "forget", !.out = "unavailable"])
          /\ UNCHANGED <<row, minted, revocations, born>>
    /\ UNCHANGED <<cache, grace, inbox, held, now, dropped, spent>>

\* Faulty variant: the row is deleted whatever epoch it has by now.
DeleteAccountUnchecked(r) ==
    /\ req[r].pc = "delete"
    /\ row' = Absent
    /\ revocations' = revocations \cup (IF row = Absent THEN {} ELSE {Revocation})
    /\ Become(r, [req[r] EXCEPT !.pc = "forget", !.out = "done"])
    /\ UNCHANGED <<minted, cache, grace, inbox, held, now, dropped, born, spent>>

\* AccountDeletion.deleteDurableState: a missing row is a success, another
\* epoch throws before anything is deleted.
DeleteAccount(r) ==
    /\ req[r].pc = "delete"
    /\ \/ /\ row # Absent /\ row.epoch = req[r].tok.epoch
          /\ row' = Absent
          /\ revocations' = revocations \cup {Revocation}
          /\ Become(r, [req[r] EXCEPT !.pc = "forget", !.out = "done"])
       \/ /\ row = Absent
          /\ Become(r, [req[r] EXCEPT !.pc = "forget", !.out = "done"])
          /\ UNCHANGED <<row, revocations>>
       \/ /\ row # Absent /\ row.epoch # req[r].tok.epoch
          /\ Answer(r, "unavailable")
          /\ UNCHANGED <<row, revocations>>
    /\ UNCHANGED <<minted, cache, grace, inbox, held, now, dropped, born, spent>>

\* Faulty variant: recovery replaces the epoch and keeps the generation.
RecoverKeepsGeneration(r, i) ==
    /\ req[r].pc = "idle" /\ "recover" \in Kind
    /\ row # Absent
    /\ NewRow([epoch |-> minted + 1, gen |-> row.gen])
    /\ revocations' = revocations \cup {Revocation}
    /\ Become(r, [Begin(i) EXCEPT !.pc = "forget", !.kind = "recover", !.tok = row,
                                 !.from = now, !.pair = row', !.out = "issued"])
    /\ UNCHANGED <<cache, grace, inbox, held, now, dropped, spent>>

\* The transaction of RecoveryAuthService.complete that replaces both values.
Recover(r, i) ==
    /\ req[r].pc = "idle" /\ "recover" \in Kind
    /\ row # Absent
    /\ NewRow([epoch |-> minted + 1, gen |-> minted + 2])
    /\ revocations' = revocations \cup {Revocation}
    /\ Become(r, [Begin(i) EXCEPT !.pc = "forget", !.kind = "recover", !.tok = row,
                                 !.from = now, !.pair = row', !.out = "issued"])
    /\ UNCHANGED <<cache, grace, inbox, held, now, dropped, spent>>

\* invalidateEverywhere: forget, then broadcastInvalidate.  The message
\* reaches the instances whose subscription is up.
Invalidate(r) ==
    /\ req[r].pc = "forget"
    /\ Forget(req[r].on)
    /\ dropped' = dropped \cup {<<req[r].on, req[r].tok.epoch>>}
    /\ Goto(r, "publish")
    /\ UNCHANGED <<row, minted, grace, inbox, held, now, revocations, born, spent>>

Broadcast(r) ==
    /\ req[r].pc = "publish"
    /\ \E up \in SUBSET Instance : inbox' = inbox \cup up
    /\ Goto(r, "answered")
    /\ UNCHANGED <<row, minted, cache, grace, held, now, history>>

\* The subscriber's onMessage.
OnMessage(i) ==
    /\ i \in inbox
    /\ inbox' = inbox \ {i}
    /\ Forget(i)
    /\ UNCHANGED <<row, minted, grace, req, held, now, history>>

(***************************************************************************)
(* The environment.                                                        *)
(***************************************************************************)
\* The answer arrives, or is lost with the connection.
Reply(r) ==
    /\ req[r].pc = "answered"
    /\ held' \in {held, held \cup (IF req[r].out = "issued" THEN {req[r].pair} ELSE {})}
    /\ Become(r, Idle)
    /\ UNCHANGED <<row, minted, cache, grace, inbox, now, history>>

\* A statement throws: 401 to an access check, 503 or 500 to the others.
Unavailable(r) ==
    /\ MayFail
    /\ req[r].pc \in {"load", "rotate", "reread", "sign", "revoke", "delete"}
    /\ Answer(r, IF req[r].kind \in {"refresh", "reauth"} \/ req[r].pc # "load"
                 THEN "unavailable" ELSE "rejected")
    /\ UNCHANGED <<row, minted, cache, grace, inbox, held, now, history>>

\* evictStaleEntries, driven by the other accounts in the map.
Evict(i) ==
    /\ cache[i] # {}
    /\ Forget(i)
    /\ UNCHANGED <<row, minted, grace, inbox, req, held, now, history>>

\* LOST_ROTATION_GRACE_SECONDS are over.
GraceExpires(g) ==
    /\ g \in grace
    /\ grace' = grace \ {g}
    /\ UNCHANGED <<row, minted, cache, inbox, req, held, now, revocations, dropped, born, spent>>

\* The process is killed: its handlers, its cache and its subscription go.
Crash(i) ==
    /\ MayCrash
    /\ \E r \in Request : req[r].on = i /\ req[r].pc # "idle"
    /\ cache' = [cache EXCEPT ![i] = {}]
    /\ inbox' = inbox \ {i}
    /\ req' = [r \in Request |-> IF req[r].on = i THEN Idle ELSE req[r]]
    /\ UNCHANGED <<row, minted, grace, held, now, revocations, dropped, born, spent>>

Tick ==
    /\ now < MaxTime
    /\ now' = now + 1
    /\ UNCHANGED <<row, minted, cache, grace, inbox, req, held, history>>

Handle(r) ==
    \/ Load(r) \/ Store(r)
    \/ Rotate(r) \/ Remember(r) \/ Redeem(r) \/ RedeemCheck(r)
    \/ Sign(r) \/ ReauthCheck(r)
    \/ RotateEpoch(r) \/ DeleteAccount(r) \/ Invalidate(r) \/ Broadcast(r)
    \/ Unavailable(r) \/ Reply(r)

Next ==
    \/ \E r \in Request : Handle(r)
    \/ \E r \in Request, i \in Instance : Recover(r, i)
    \/ \E r \in Request, k \in Kind, i \in Instance, t \in held : Arrive(r, k, i, t)
    \/ \E i \in Instance : OnMessage(i) \/ Evict(i) \/ Crash(i)
    \/ \E g \in grace : GraceExpires(g)
    \/ Tick

Spec == Init /\ [][Next]_vars

----------------------------------------------------------------------------
(***************************************************************************)
(* Properties                                                              *)
(***************************************************************************)

Handler == [pc: PC, kind: Kinds, on: Instance, tok: Pair, from: Nat, late: BOOLEAN,
            pair: Pair, gen: Nat, out: Out]

\* The types of the state; an account has at most one cached snapshot per
\* instance and a generation at most one successor on record, drawn later.
TypeOK ==
    /\ row \in Pair
    /\ minted \in Nat
    /\ cache \in [Instance -> SUBSET CachedSnapshot]
    /\ \A i \in Instance : \A c, d \in cache[i] : c = d
    /\ grace \subseteq Rotation
    /\ \A g \in grace : g.gen < g.next
    /\ \A g, h \in grace : g.gen = h.gen => g = h
    /\ inbox \subseteq Instance
    /\ req \in [Request -> Handler]
    /\ held \subseteq Pair
    /\ now \in Nat
    /\ revocations \subseteq CachedSnapshot
    /\ dropped \subseteq Instance \X Nat
    /\ born \subseteq Pair
    /\ spent \subseteq Nat

\* A refresh or a device reauthentication never turns a token of one epoch
\* into tokens of another: whatever the cache still says, whatever logout,
\* deletion or recovery runs between the check and the rotation, a revoked
\* token buys nothing in the account's new epoch (refreshClaims accepts on a
\* stale epoch; rotateRefreshGeneration and redeemLostRotation then look at
\* the generation alone).
NoIssueAcrossRevoke ==
    \A r \in Request :
        req[r].out = "issued" /\ req[r].kind \in {"refresh", "reauth"}
            => req[r].pair.epoch = req[r].tok.epoch

\* A lost rotation is redeemed once: however many handlers present the same
\* superseded token, at most one of them is answered with the successor
\* (redeemLostRotation's GETDEL).
Redeems(r) == req[r].pc = "reread" /\ req[r].kind = "refresh" /\ req'[r].out = "issued"
RedeemedOnce == [][\A r \in Request : Redeems(r) => req[r].tok.gen \notin spent]_vars

\* An access check that begins a cache TTL or more after the epoch of its
\* token ended is refused on every instance, also when the invalidation
\* message was lost and whatever loads were in flight (cachedSnapshot).
BoundedStaleness ==
    \A r \in Request : req[r].out = "accepted" =>
        \A v \in revocations : v.epoch = req[r].tok.epoch => req[r].from < v.at + TTL

\* A token of an epoch that is over ends no other epoch: a logout or a
\* deletion accepted on a stale copy leaves the session that recovery or a
\* new login started alone (expectedEpoch).
Ends(r) == req[r].pc \in {"revoke", "delete"} /\ req'[r] # req[r] /\ row' # row
SupersededEndsNothing ==
    [][\A r \in Request : Ends(r) => row.epoch = req[r].tok.epoch]_vars

\* What the comment on CACHE_TTL_MS says: on the instance that ended an epoch
\* the effect is visible at once, so no access check that begins there after
\* the copy was dropped accepts the old epoch.
SameInstanceImmediate ==
    \A r \in Request : req[r].out = "accepted" => ~req[r].late
=============================================================================
