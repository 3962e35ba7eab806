--------------------------- MODULE ReliableQueue ---------------------------
(***************************************************************************)
(* The ACK queue of one recipient, as ConnectionManager keeps it in Redis. *)
(* Four structures describe the same set of waiting ciphertexts.  Three    *)
(* Lua scripts keep them in step; the ZREM and DEL of a drain and the      *)
(* DELs of an account deletion touch one structure at a time:              *)
(*                                                                         *)
(*   q.item[t]   the sealed payload of delivery token t: its size and the  *)
(*               instant its own EX deadline fires (Absent: no such key)   *)
(*   q.index[t]  the score of t in the sorted set (0: not a member)        *)
(*   q.meta[t]   the size of t in the byte ledger (0: no such field)       *)
(*   q.order     the last score handed out (0: no such key)                *)
(*   q.keysExp   the deadline of the index, order and ledger keys.  Every  *)
(*               accepted write renews the three together and every DEL    *)
(*               removes the three together, so one deadline stands for    *)
(*               all (0: the keys do not exist)                            *)
(*                                                                         *)
(* A script runs atomically in Redis, so each is one operator from queue   *)
(* to queue.  Payloads are abstracted to their size: the scripts look at   *)
(* nothing else.                                                           *)
(***************************************************************************)
EXTENDS Integers, FiniteSets, FiniteSetsExt

CONSTANTS
    Token,        \* delivery tokens that may be queued for the recipient
    Sizes,        \* sizes a sealed payload may have
    MaxMessages,  \* OFFLINE_QUEUE_MAX_MESSAGES
    MaxBytes,     \* OFFLINE_QUEUE_MAX_BYTES
    TTL,          \* offlineQueueTtlSeconds, in ticks
    ScoreTick,    \* score units per tick; the bump of 0.001 ms is one unit
    Lag,          \* how old the caller's clock reading may be, in ticks
    Corrupt,      \* tokens whose stored envelope does not open
    MaxTime,      \* bound of the model: the clock stops here
    MaxScore      \* bound of the model: no score beyond this one is handed out

ASSUME TokenAssumption    == IsFiniteSet(Token)
ASSUME SizesAssumption    == Sizes \subseteq Nat \ {0}
ASSUME LimitsAssumption   == MaxMessages \in Nat /\ MaxBytes \in Nat
ASSUME TTLAssumption      == TTL \in Nat \ {0}
ASSUME ScoreAssumption    == ScoreTick \in Nat \ {0}
ASSUME LagAssumption      == Lag \in Nat

VARIABLES now, q

queueVars == <<now, q>>

Absent == [size |-> 0, exp |-> 0]

EmptyQueue ==
    [item    |-> [t \in Token |-> Absent],
     index   |-> [t \in Token |-> 0],
     meta    |-> [t \in Token |-> 0],
     order   |-> 0,
     keysExp |-> 0]

Held(t)    == q.item[t].size # 0
Indexed(t) == q.index[t] # 0

Members(queue) == {t \in Token : queue.index[t] # 0}

SumOver(f, S) == MapThenSumSet(LAMBDA t : f[t], S)

-----------------------------------------------------------------------------
(* The Lua scripts.                                                        *)

\* Tokens whose score is at or before the cutoff: ZRANGEBYSCORE '-inf' cutoff.
Expired(queue, cutoff) ==
    {t \in Members(queue) : queue.index[t] <= cutoff * ScoreTick}

\* PURGE_EXPIRED_FRAGMENT.  The item key is known only from the ledger, so a
\* member without a ledger field loses its index entry and nothing else.
PurgeExpired(queue, cutoff) ==
    [queue EXCEPT
        !.item  = [t \in Token |->
                     IF t \in Expired(queue, cutoff) /\ queue.meta[t] # 0
                     THEN Absent ELSE queue.item[t]],
        !.meta  = [t \in Token |->
                     IF t \in Expired(queue, cutoff) THEN 0 ELSE queue.meta[t]],
        !.index = [t \in Token |->
                     IF t \in Expired(queue, cutoff) THEN 0 ELSE queue.index[t]]]

\* DEL of the index, order and ledger keys once the index has no member.
DropEmptyKeys(queue) ==
    IF Members(queue) = {}
    THEN [queue EXCEPT !.meta = [t \in Token |-> 0], !.order = 0, !.keysExp = 0]
    ELSE queue

\* PURGE_RELIABLE_SCRIPT, run before a delivery.
PurgeScript(queue, cutoff) == DropEmptyKeys(PurgeExpired(queue, cutoff))

\* ACK_RELIABLE_SCRIPT.
AckScript(queue, t) ==
    DropEmptyKeys([queue EXCEPT !.item[t] = Absent, !.index[t] = 0, !.meta[t] = 0])

\* Faulty variant: the clock alone is the score, with no bump on a tie.
NextScoreNoBump(queue, clock) == clock * ScoreTick

\* The strictly increasing score of the next accepted ciphertext.
NextScore(queue, clock) ==
    IF clock * ScoreTick <= queue.order THEN queue.order + 1
                                        ELSE clock * ScoreTick

\* Faulty variant: the byte limit is tested before the newcomer is added.
HasRoomBeforeAdding(queue, size) ==
    /\ Cardinality(Members(queue)) < MaxMessages
    /\ SumOver(queue.meta, Token) <= MaxBytes

\* The two limits, computed from the index and the ledger.
HasRoom(queue, size) ==
    /\ Cardinality(Members(queue)) < MaxMessages
    /\ SumOver(queue.meta, Token) + size <= MaxBytes

\* Faulty variants: the ledger's HSET is missing; the deadline has the wrong
\* sign; the EXPIRE of the keys is left to the first ciphertext.
WriteItemNoLedger(queue, t, size, clock) ==
    [item    |-> [queue.item EXCEPT ![t] = [size |-> size, exp |-> clock + TTL]],
     index   |-> [queue.index EXCEPT ![t] = NextScore(queue, clock)],
     meta    |-> queue.meta,
     order   |-> NextScore(queue, clock),
     keysExp |-> clock + TTL]
WriteItemDeadlineSign(queue, t, size, clock) ==
    [item    |-> [queue.item EXCEPT ![t] = [size |-> size, exp |-> clock - TTL]],
     index   |-> [queue.index EXCEPT ![t] = NextScore(queue, clock)],
     meta    |-> [queue.meta EXCEPT ![t] = size],
     order   |-> NextScore(queue, clock),
     keysExp |-> clock + TTL]
WriteItemKeysNotRenewed(queue, t, size, clock) ==
    [item    |-> [queue.item EXCEPT ![t] = [size |-> size, exp |-> clock + TTL]],
     index   |-> [queue.index EXCEPT ![t] = NextScore(queue, clock)],
     meta    |-> [queue.meta EXCEPT ![t] = size],
     order   |-> NextScore(queue, clock),
     keysExp |-> IF queue.keysExp = 0 THEN clock + TTL ELSE queue.keysExp]

\* The writes of an accepted ciphertext.
WriteItem(queue, t, size, clock) ==
    [item    |-> [queue.item EXCEPT ![t] = [size |-> size, exp |-> clock + TTL]],
     index   |-> [queue.index EXCEPT ![t] = NextScore(queue, clock)],
     meta    |-> [queue.meta EXCEPT ![t] = size],
     order   |-> NextScore(queue, clock),
     keysExp |-> clock + TTL]

\* Faulty variant: a full queue drops its oldest member to admit the newcomer.
EnqueueScriptEvicts(queue, t, size, clock, cutoff) ==
    LET purged == PurgeExpired(queue, cutoff)
        Oldest == {u \in Members(purged) : \A v \in Members(purged) :
                      purged.index[u] <= purged.index[v]}
    IN  IF queue.item[t].size # 0 THEN queue
        ELSE IF HasRoom(purged, size) \/ Oldest = {} THEN WriteItem(purged, t, size, clock)
        ELSE WriteItem(AckScript(purged, CHOOSE u \in Oldest : TRUE), t, size, clock)

\* ENQUEUE_RELIABLE_SCRIPT: an existing item is returned untouched; a full
\* queue refuses the newcomer, keeping the effect of the purge.
EnqueueScript(queue, t, size, clock, cutoff) ==
    LET purged == PurgeExpired(queue, cutoff)
    IN  IF queue.item[t].size # 0 THEN queue
        ELSE IF ~HasRoom(purged, size) THEN purged
        ELSE WriteItem(purged, t, size, clock)

\* Whether the script reports the token as stored (status 0 or 1, not -1).
EnqueueAccepts(queue, t, size, cutoff) ==
    \/ queue.item[t].size # 0
    \/ HasRoom(PurgeExpired(queue, cutoff), size)

\* Redis expiry: a key is gone from the instant of its deadline.
ExpireAt(queue, clock) ==
    LET live == [queue EXCEPT !.item = [t \in Token |->
                   IF queue.item[t].exp <= clock THEN Absent ELSE queue.item[t]]]
    IN  IF queue.keysExp <= clock
        THEN [live EXCEPT !.index = [t \in Token |-> 0], !.meta = [t \in Token |-> 0],
                          !.order = 0, !.keysExp = 0]
        ELSE live

-----------------------------------------------------------------------------
(* The queue under everything that writes it.                              *)

\* Cutoffs a caller may pass: System.currentTimeMillis() minus the TTL, read
\* up to Lag ticks before Redis runs the script.
Cutoffs == {clock - TTL : clock \in (now - Lag) .. now}

QueueInit == now = 1 /\ q = EmptyQueue

\* queueReliableMessage: a first send or a sender's retry of token t.
Enqueue(t, size, cutoff) ==
    /\ NextScore(q, now) <= MaxScore
    /\ q' = EnqueueScript(q, t, size, now, cutoff)
    /\ UNCHANGED now

\* acknowledgeDelivery: the recipient has the message.
Ack(t) ==
    /\ q' = AckScript(q, t)
    /\ UNCHANGED now

\* purgeExpiredReliable: the first command of a delivery.
Purge(cutoff) ==
    /\ q' = PurgeScript(q, cutoff)
    /\ UNCHANGED now

\* The drain's ZREM of a token whose payload was missing when it looked, or
\* did not open.  Other commands run in between, so the token may be in
\* custody again by now; which tokens a drain picks is for module Delivery.
Unlist(t) ==
    /\ q' = [q EXCEPT !.index[t] = 0]
    /\ UNCHANGED now

\* The drain's DEL of a payload that does not open.
Discard(t) ==
    /\ t \in Corrupt
    /\ q' = [q EXCEPT !.item[t] = Absent]
    /\ UNCHANGED now

\* Account deletion: DEL of the items its ZRANGE listed, some commands ago,
\* and then of the index, ledger and order keys.
DeleteItems(listed) ==
    /\ q' = [q EXCEPT !.item = [t \in Token |-> IF t \in listed THEN Absent ELSE q.item[t]]]
    /\ UNCHANGED now

DeleteKeys ==
    /\ q' = [EmptyQueue EXCEPT !.item = q.item]
    /\ UNCHANGED now

Tick ==
    /\ now < MaxTime
    /\ now' = now + 1
    /\ q' = ExpireAt(q, now')

QueueNext ==
    \/ \E t \in Token, size \in Sizes, cutoff \in Cutoffs : Enqueue(t, size, cutoff)
    \/ \E t \in Token : Ack(t)
    \/ \E cutoff \in Cutoffs : Purge(cutoff)
    \/ \E t \in Token : Unlist(t) \/ Discard(t)
    \/ \E listed \in SUBSET Token : DeleteItems(listed)
    \/ DeleteKeys
    \/ Tick

QueueSpec == QueueInit /\ [][QueueNext]_queueVars

-----------------------------------------------------------------------------
(* Properties.                                                             *)

ItemType == [size : Nat, exp : Nat]

QueueType ==
    [item : [Token -> ItemType], index : [Token -> Nat], meta : [Token -> Nat],
     order : Nat, keysExp : Nat]

\* The clock and the queue have their types, whatever commands have run.
QueueTypeOK == now \in Nat /\ q \in QueueType

\* Every ciphertext a reconnect will find, held and indexed, is counted by the
\* ledger at its true size, so the byte limit sees it: neither the scripts, nor
\* an index entry dropped behind their back, nor the keys deleted while a
\* payload is left over and written anew later, put the two out of step.
LedgerCountsHeld ==
    \A t \in Token : Held(t) /\ Indexed(t) => q.meta[t] = q.item[t].size

\* The payloads a drain would load for one recipient stay within the byte
\* limit, although the scripts never measure them, only the ledger.  Payloads
\* whose index entry a drain or an account deletion took are outside the
\* limit: once the index is empty the scripts drop the ledger with it.
BytesBounded ==
    SumOver([t \in Token |-> IF Indexed(t) THEN q.item[t].size ELSE 0], Token) <= MaxBytes

\* A ciphertext in custody stays in the index, where a reconnect will find it:
\* no script and no expiry strands it, the keys it is listed under outlive it.
\* Only a drain's ZREM and an account deletion take the entry of a held one.
HeldStaysListed ==
    [][\A t \in Token :
          Held(t) /\ Indexed(t) /\ Held(t)' /\ ~Indexed(t)'
          => Unlist(t) \/ DeleteKeys]_queueVars

\* A held ciphertext stays as first accepted until its own deadline, its own
\* ACK, or its end as an envelope that does not open or with its account: it
\* never goes to make room or by a purge whose cutoff is stale, and no retry of
\* the same delivery id overwrites it or keeps it longer.
NeverSacrificed ==
    [][\A t \in Token : Held(t) /\ q.item'[t] # q.item[t] =>
          /\ ~Held(t)'
          /\ \/ q.item[t].exp <= now' \/ q' = AckScript(q, t)
             \/ Discard(t)
             \/ \E listed \in SUBSET Token : t \in listed /\ DeleteItems(listed)]_queueVars

\* A newly accepted ciphertext is ordered after every one still waiting, so
\* a redelivery replays the ratchet in the order the messages were accepted.
OrderPreserved ==
    [][\A t, u \in Token :
          /\ q.index'[t] \notin {0, q.index[t]}
          /\ u # t /\ q.index'[u] # 0
          => q.index'[t] > q.index'[u]]_queueVars

=============================================================================
