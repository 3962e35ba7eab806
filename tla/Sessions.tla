------------------------------ MODULE Sessions ------------------------------
(***************************************************************************)
(* What a WebSocket session does besides ciphertexts: it drains the        *)
(* transient queues when it registers, routes call signals and other       *)
(* frames, purges the call signals of a call that was accepted or ended,   *)
(* keeps presence, and cleans up when it ends (ConnectionManager and the   *)
(* handler in WebSocketRoutes).                                            *)
(*                                                                         *)
(* A session is one coroutine: it drains, then handles one frame at a      *)
(* time, then cleans up.  Sessions run concurrently and a step is one      *)
(* critical section, one Redis command or one send.                        *)
(*                                                                         *)
(* Left out: the texts of frames, last-seen times and the notices to       *)
(* presence subscribers (best effort, nothing reads them back), the        *)
(* record of active one-to-one calls (only a log line depends on it), the  *)
(* refusal of connections beyond capacity, and ciphertexts (Delivery).     *)
(***************************************************************************)
EXTENDS Naturals, Sequences, FiniteSets, SequencesExt

CONSTANTS
    User,
    Socket,                      \* WebSocket sessions, each opened at most once
    Owner,                       \* Owner[s]: the authenticated user of a session
    MessageOnly,                 \* sessions opened without the call capability
    OFFLINE_QUEUE_MAX_MESSAGES,
    MAX_PRESENCE_SUBSCRIPTIONS,
    MayFail,                     \* Redis commands may fail
    MaxFrames,                   \* bound of the model: routed frames
    None                         \* no session, no set

ASSUME OwnerAssumption == Owner \in [Socket -> User]
ASSUME SetsAssumption ==
    /\ IsFiniteSet(User) /\ IsFiniteSet(Socket)
    /\ MessageOnly \subseteq Socket /\ None \notin Socket
    /\ \A users \in SUBSET User : None # users
    /\ MayFail \in BOOLEAN
ASSUME LimitAssumption ==
    /\ OFFLINE_QUEUE_MAX_MESSAGES \in Nat \ {0}
    /\ MAX_PRESENCE_SUBSCRIPTIONS \in Nat \ {0}
    /\ MaxFrames \in Nat

VARIABLES
    connections,  \* connections[u]: the registered session, or None
    link,         \* link[s]: "up", "dead" (sends vanish) or "closed" (sends fail)
    task,         \* task[s]: what the coroutine of a session is doing
    sent,         \* the frames handlers took up, in order; a frame is its index
    queue,        \* queue[u][bucket]: the sorted set in Redis, oldest first
    old,          \* offers more than sdpOfferMaxAgeMs old
    spoiled,      \* queued frames openQueue cannot open any more
    foreground,   \* foregroundUsers
    subscribers,  \* presenceSubscribers[t]: the set of a target, or None
    written,      \* history: frames written to a session of their recipient
    dropped,      \* history: frames given up for a reason the code names
    raced,        \* history: frames queued after their lookup had become stale
    cancelled,    \* history: offers of a call that was ended, done with by then
    want,         \* history: want[u]: the presence and subscriptions u asked for
    crossed       \* history: users and targets whose requests overlapped a clean-up

frames == <<sent, queue, old, spoiled, written, dropped, raced, cancelled>>
presence == <<foreground, subscribers, want, crossed>>
vars == <<connections, link, task, frames, presence>>

\* The types of frames, as far as handlers tell them apart: call_control comes
\* as ACCEPT and as HANGUP, which stands for REJECT and BUSY too.
PENDING_CALL == {"sdp_offer", "ACCEPT", "HANGUP"}
REQUIRES_CALL_HANDLER == PENDING_CALL \union {"group_call_invite"}
TRANSIENT == {"typing_indicator"}
Type == REQUIRES_CALL_HANDLER \union TRANSIENT \union {"file_transfer", "message"}
Frame == [type: Type, from: User, to: User]

\* Faulty variant: only the message bucket is drained.
BucketsMessage == <<"message">>
Buckets == <<"message", "file">>
Bucket == {"message", "file"}

Steps == {"new", "replace", "fetch", "drain", "unqueue", "open", "list", "purge",
          "lookup", "send", "queue", "add", "dropKey", "remove", "forget",
          "cleanup", "gone"}
Task == [pc: Steps, todo: Seq(Nat), bucket: {1, 2}, drained: BOOLEAN,
         stale: SUBSET Nat, frame: Nat, session: Socket \union {None},
         plan: Seq(User \X User), clean: BOOLEAN, due: SUBSET Nat,
         target: User, attached: BOOLEAN]

\* What a task keeps from one frame to the next.
Idle(s, drained) ==
    [pc |-> "open", todo |-> <<>>, bucket |-> 1, drained |-> drained, stale |-> {},
     frame |-> 0, session |-> None, plan |-> <<>>, clean |-> TRUE, due |-> {},
     target |-> Owner[s], attached |-> TRUE]

Init ==
    /\ connections = [u \in User |-> None]
    /\ link = [s \in Socket |-> "up"]
    /\ task = [s \in Socket |-> [Idle(s, FALSE) EXCEPT !.pc = "new"]]
    /\ sent = <<>>
    /\ queue = [u \in User |-> [b \in Bucket |-> <<>>]]
    /\ old = {} /\ spoiled = {}
    /\ foreground = {} /\ subscribers = [u \in User |-> None]
    /\ written = {} /\ dropped = {} /\ raced = {} /\ cancelled = {}
    /\ want = [u \in User |-> [online |-> FALSE, targets |-> {}]]
    /\ crossed = {}

Queued(u) == UNION {ToSet(queue[u][b]) : b \in Bucket}
To(s, pc) == [task EXCEPT ![s].pc = pc]
Finished(s) == [task EXCEPT ![s] = Idle(s, @.drained)]

\* zrem: a member of a sorted set, if it is there, and it is there once.
Removed(q, i) ==
    IF i \in ToSet(q)
    THEN LET k == CHOOSE k \in DOMAIN q : q[k] = i
         IN  SubSeq(q, 1, k - 1) \o SubSeq(q, k + 1, Len(q))
    ELSE q
Without(u, b, i) == [queue EXCEPT ![u][b] = Removed(@, i)]

----------------------------------------------------------------------------
(* addConnection and deliverOfflineMessages *)

\* A message-only session never displaces a call-capable one.
Connect(s) ==
    LET u == Owner[s]
        current == connections[u]
    IN  /\ task[s].pc = "new"
        /\ IF s \in MessageOnly /\ current # None /\ current \notin MessageOnly
           THEN /\ task' = To(s, "gone")
                /\ link' = [link EXCEPT ![s] = "closed"]
                /\ UNCHANGED connections
           ELSE /\ connections' = [connections EXCEPT ![u] = s]
                /\ task' = [task EXCEPT ![s].pc = IF current = None THEN "fetch" ELSE "replace",
                                        ![s].session = current]
                /\ UNCHANGED link
        /\ UNCHANGED <<frames, presence>>

ClosePrevious(s) ==
    /\ task[s].pc = "replace"
    /\ link' = [link EXCEPT ![task[s].session] = "closed"]
    /\ task' = [task EXCEPT ![s].pc = "fetch", ![s].session = None]
    /\ UNCHANGED <<connections, frames, presence>>

\* The list of one bucket.  The age of offers is judged by the time the drain
\* began.
Fetch(s) ==
    /\ task[s].pc = "fetch"
    /\ task' = [task EXCEPT ![s].pc = "drain",
                            ![s].todo = queue[Owner[s]][Buckets[task[s].bucket]],
                            ![s].stale = IF task[s].bucket = 1 THEN old ELSE @]
    /\ UNCHANGED <<connections, link, frames, presence>>

Undeliverable(s, i) == i \in spoiled \union task[s].stale
LeftForCalls(s, i) == s \in MessageOnly /\ sent[i].type \in REQUIRES_CALL_HANDLER

Discard(s) ==
    LET i == Head(task[s].todo)
    IN  /\ task[s].pc = "drain" /\ task[s].todo # <<>>
        /\ Undeliverable(s, i)
        /\ queue' = Without(Owner[s], Buckets[task[s].bucket], i)
        /\ dropped' = dropped \union {i}
        /\ task' = [task EXCEPT ![s].todo = Tail(@)]
        /\ UNCHANGED <<connections, link, sent, old, spoiled, written, raced, cancelled, presence>>

Leave(s) ==
    LET i == Head(task[s].todo)
    IN  /\ task[s].pc = "drain" /\ task[s].todo # <<>>
        /\ ~Undeliverable(s, i) /\ LeftForCalls(s, i)
        /\ task' = [task EXCEPT ![s].todo = Tail(@)]
        /\ UNCHANGED <<connections, link, frames, presence>>

\* Faulty variant: the frame is taken off the queue before it is sent.
DeliverUnqueued(s) ==
    LET i == Head(task[s].todo)
    IN  /\ task[s].pc = "drain" /\ task[s].todo # <<>>
        /\ ~Undeliverable(s, i) /\ ~LeftForCalls(s, i)
        /\ queue' = Without(Owner[s], Buckets[task[s].bucket], i)
        /\ IF link[s] = "closed"
           THEN task' = [task EXCEPT ![s] = Idle(s, FALSE)] /\ UNCHANGED written
           ELSE task' = To(s, "unqueue") /\ written' = written \union {i}
        /\ UNCHANGED <<connections, link, sent, old, spoiled, dropped, raced, cancelled, presence>>

\* A send that fails ends the drain.
Deliver(s) ==
    LET i == Head(task[s].todo)
    IN  /\ task[s].pc = "drain" /\ task[s].todo # <<>>
        /\ ~Undeliverable(s, i) /\ ~LeftForCalls(s, i)
        /\ IF link[s] = "closed"
           THEN task' = [task EXCEPT ![s] = Idle(s, FALSE)] /\ UNCHANGED written
           ELSE task' = To(s, "unqueue") /\ written' = written \union {i}
        /\ UNCHANGED <<connections, link, sent, queue, old, spoiled, dropped, raced, cancelled, presence>>

Unqueue(s) ==
    /\ task[s].pc = "unqueue"
    /\ queue' = Without(Owner[s], Buckets[task[s].bucket], Head(task[s].todo))
    /\ task' = [task EXCEPT ![s].pc = "drain", ![s].todo = Tail(@)]
    /\ UNCHANGED <<connections, link, sent, old, spoiled, written, dropped, raced, cancelled, presence>>

Drained(s) ==
    /\ task[s].pc = "drain" /\ task[s].todo = <<>>
    /\ task' = IF task[s].bucket < Len(Buckets)
               THEN [task EXCEPT ![s].pc = "fetch", ![s].bucket = @ + 1]
               ELSE [task EXCEPT ![s] = Idle(s, TRUE)]
    /\ UNCHANGED <<connections, link, frames, presence>>

\* A Redis error is logged and the drain given up.
DrainFails(s) ==
    /\ MayFail /\ task[s].pc \in {"fetch", "drain", "unqueue"}
    /\ task' = [task EXCEPT ![s] = Idle(s, FALSE)]
    /\ UNCHANGED <<connections, link, frames, presence>>

----------------------------------------------------------------------------
(* handleMessage and routeMessage *)

\* Faulty variant: the end of a call purges the recipient's queue only.
PurgesOneSided(f) ==
    IF f.type \in {"ACCEPT", "HANGUP"} THEN <<<<f.to, f.from>>>> ELSE <<>>

\* The queues to purge: whose, and of whose call signals.
Purges(f) ==
    CASE f.type = "ACCEPT" -> <<<<f.from, f.to>>>>
      [] f.type = "HANGUP" -> <<<<f.to, f.from>>, <<f.from, f.to>>>>
      [] OTHER -> <<>>

InHands(i) == \E s \in Socket : task[s].frame = i
Offers(a, b) == {i \in DOMAIN sent : /\ sent[i].type = "sdp_offer"
                                     /\ {sent[i].from, sent[i].to} = {a, b}}
Listed(i) == \E s \in Socket : /\ task[s].pc \in {"drain", "unqueue"}
                               /\ i \in ToSet(task[s].todo)

\* A frame is taken up: the socket may have been closed meanwhile, what it
\* had received is still handled.
Take(s, type, to) ==
    LET f == [type |-> type, from |-> Owner[s], to |-> to]
    IN  /\ task[s].pc = "open" /\ to # Owner[s]
        /\ Len(sent) < MaxFrames
        /\ sent' = Append(sent, f)
        /\ task' = [task EXCEPT
             ![s].frame = Len(sent'), ![s].plan = Purges(f),
             ![s].pc = IF Purges(f) = <<>> THEN "lookup" ELSE "list",
             ![s].due = IF type = "HANGUP"
                        THEN {i \in Offers(Owner[s], to) : ~InHands(i)} ELSE {}]
        /\ UNCHANGED <<connections, link, queue, old, spoiled, written, dropped, raced, cancelled, presence>>

\* purgePendingCallSignals: list a queue, then open and judge its entries one
\* by one.
ListSignals(s) ==
    /\ task[s].pc = "list"
    /\ task' = [task EXCEPT ![s].pc = "purge",
                            ![s].todo = queue[Head(task[s].plan)[1]]["message"]]
    /\ UNCHANGED <<connections, link, frames, presence>>

Purged(s, i) ==
    i \in spoiled \/ (sent[i].type \in PENDING_CALL /\ sent[i].from = Head(task[s].plan)[2])

RemoveSignal(s) ==
    LET i == Head(task[s].todo)
    IN  /\ task[s].pc = "purge" /\ task[s].todo # <<>>
        /\ Purged(s, i)
        /\ queue' = Without(Head(task[s].plan)[1], "message", i)
        /\ dropped' = dropped \union {i}
        /\ task' = [task EXCEPT ![s].todo = Tail(@)]
        /\ UNCHANGED <<connections, link, sent, old, spoiled, written, raced, cancelled, presence>>

KeepSignal(s) ==
    /\ task[s].pc = "purge" /\ task[s].todo # <<>>
    /\ ~Purged(s, Head(task[s].todo))
    /\ task' = [task EXCEPT ![s].todo = Tail(@)]
    /\ UNCHANGED <<connections, link, frames, presence>>

\* A Redis error is logged and this purge given up.
PurgeFails(s) ==
    /\ MayFail /\ task[s].pc \in {"list", "purge"}
    /\ task' = [task EXCEPT ![s].pc = "purge", ![s].todo = <<>>, ![s].clean = FALSE]
    /\ UNCHANGED <<connections, link, frames, presence>>

PurgeDone(s) ==
    LET last == Len(task[s].plan) = 1
    IN  /\ task[s].pc = "purge" /\ task[s].todo = <<>>
        /\ task' = [task EXCEPT ![s].pc = IF last THEN "lookup" ELSE "list",
                                ![s].plan = Tail(@),
                                ![s].due = IF last THEN {} ELSE @]
        /\ cancelled' = IF last /\ task[s].clean
                        THEN cancelled \union {i \in task[s].due : ~Listed(i)}
                        ELSE cancelled
        /\ UNCHANGED <<connections, link, sent, queue, old, spoiled, written, dropped, raced, presence>>

Recipient(s) == sent[task[s].frame].to
NeedsCalls(s) == sent[task[s].frame].type \in REQUIRES_CALL_HANDLER

\* Faulty variant: that the recipient has no session is found out by the send.
LookupUnchecked(s) ==
    LET r == connections[Recipient(s)]
    IN  /\ task[s].pc = "lookup"
        /\ task' = [task EXCEPT ![s].session = r,
                      ![s].pc = IF r \in MessageOnly /\ NeedsCalls(s)
                                THEN "queue" ELSE "send"]
        /\ UNCHANGED <<connections, link, frames, presence>>

\* The session and its capability are read under the mutex.
Lookup(s) ==
    LET r == connections[Recipient(s)]
    IN  /\ task[s].pc = "lookup"
        /\ task' = [task EXCEPT ![s].session = r,
                      ![s].pc = IF r = None \/ (r \in MessageOnly /\ NeedsCalls(s))
                                THEN "queue" ELSE "send"]
        /\ UNCHANGED <<connections, link, frames, presence>>

Send(s) ==
    /\ task[s].pc = "send"
    /\ IF link[task[s].session] = "closed"
       THEN task' = To(s, "queue") /\ UNCHANGED written
       ELSE task' = Finished(s) /\ written' = written \union {task[s].frame}
    /\ UNCHANGED <<connections, link, sent, queue, old, spoiled, dropped, raced, cancelled, presence>>

BucketOf(i) == IF sent[i].type = "file_transfer" THEN "file" ELSE "message"

\* enforceQueueLimits, for the number of messages.
Trimmed(q) == SubSeq(q, 1, Len(q) - OFFLINE_QUEUE_MAX_MESSAGES)
Kept(q) == SubSeq(q, Len(Trimmed(q)) + 1, Len(q))

\* queueAndNotify.
Queue(s) ==
    LET i == task[s].frame
        u == Recipient(s)
        b == BucketOf(i)
        longer == Append(queue[u][b], i)
    IN  /\ task[s].pc = "queue"
        /\ task' = Finished(s)
        /\ raced' = IF connections[u] = task[s].session THEN raced ELSE raced \union {i}
        /\ \/ /\ sent[i].type \in TRANSIENT
              /\ dropped' = dropped \union {i}
              /\ UNCHANGED queue
           \/ /\ sent[i].type \notin TRANSIENT
              /\ queue' = [queue EXCEPT ![u][b] = Kept(longer)]
              /\ dropped' = dropped \union ToSet(Trimmed(longer))
           \/ \* zadd fails, or what follows it
              /\ sent[i].type \notin TRANSIENT /\ MayFail
              /\ \/ dropped' = dropped \union {i} /\ UNCHANGED queue
                 \/ queue' = [queue EXCEPT ![u][b] = longer] /\ UNCHANGED dropped
        /\ UNCHANGED <<connections, link, sent, old, spoiled, written, cancelled, presence>>

----------------------------------------------------------------------------
(* Presence *)

Ending(u) == \E s \in Socket : Owner[s] = u /\ task[s].pc \in {"forget", "cleanup"}
Crossing(u) == IF Ending(u) THEN crossed \union {u} ELSE crossed

handlePresenceUpdate(s, isOnline) ==
    LET u == Owner[s]
    IN  /\ task[s].pc = "open"
        /\ foreground' = IF isOnline THEN foreground \union {u} ELSE foreground \ {u}
        /\ want' = [want EXCEPT ![u].online = isOnline]
        /\ crossed' = Crossing(u)
        /\ UNCHANGED <<connections, link, task, frames, subscribers>>

Members(t) == IF subscribers[t] = None THEN {} ELSE subscribers[t]
subscriptionCount(u) == Cardinality({t \in User : u \in Members(t)})

\* Operations on the set of one target that overlap: one of them has decided
\* to drop the set, another is about to add to it.
Contested(t, pc) == \E s \in Socket : task[s].pc = pc /\ task[s].target = t

\* The limit is checked and the set looked up, or created; the subscriber is
\* added to it afterwards.
Subscribe(s, t) ==
    /\ task[s].pc = "open" /\ t # Owner[s]
    /\ subscriptionCount(Owner[s]) < MAX_PRESENCE_SUBSCRIPTIONS
    /\ task' = [task EXCEPT ![s].pc = "add", ![s].target = t, ![s].attached = TRUE]
    /\ subscribers' = [subscribers EXCEPT ![t] = Members(t)]
    /\ crossed' = IF Contested(t, "dropKey") THEN crossed \union {t} ELSE crossed
    /\ UNCHANGED <<connections, link, frames, foreground, want>>

\* A set that was dropped from the map meanwhile is lost, and the addition
\* with it.
Add(s) ==
    LET u == Owner[s]
        t == task[s].target
    IN  /\ task[s].pc = "add"
        /\ subscribers' = IF task[s].attached
                          THEN [subscribers EXCEPT ![t] = @ \union {u}] ELSE subscribers
        /\ want' = [want EXCEPT ![u].targets = @ \union {t}]
        /\ crossed' = Crossing(u)
        /\ task' = Finished(s)
        /\ UNCHANGED <<connections, link, frames, foreground>>

\* unsubscribePresence: the subscriber leaves the set, if there is one, and
\* the set is found empty or not.
Unsubscribe(s, t) ==
    LET u == Owner[s]
    IN  /\ task[s].pc = "open" /\ t # u
        /\ subscribers[t] # None
        /\ subscribers' = [subscribers EXCEPT ![t] = @ \ {u}]
        /\ want' = [want EXCEPT ![u].targets = @ \ {t}]
        /\ IF subscribers'[t] = {}
           THEN /\ task' = [task EXCEPT ![s].pc = "dropKey", ![s].target = t, ![s].attached = TRUE]
                /\ crossed' = IF Contested(t, "add") THEN Crossing(u) \union {t} ELSE Crossing(u)
           ELSE /\ crossed' = Crossing(u)
                /\ UNCHANGED task
        /\ UNCHANGED <<connections, link, frames, foreground>>

\* remove(key, set) compares sets by their members: the same set goes whatever
\* it holds by now, another one if both are empty.  A handler that found the
\* set before goes on with one that is lost.
DropKey(s) ==
    LET t == task[s].target
    IN  /\ task[s].pc = "dropKey"
        /\ \/ /\ task[s].attached \/ subscribers[t] = {}
              /\ subscribers' = [subscribers EXCEPT ![t] = None]
              /\ task' = [x \in Socket |->
                   IF x = s THEN Idle(s, task[s].drained)
                   ELSE IF task[x].pc \in {"add", "dropKey"} /\ task[x].target = t
                        THEN [task[x] EXCEPT !.attached = FALSE] ELSE task[x]]
           \/ /\ ~task[s].attached
              /\ task' = Finished(s) /\ UNCHANGED subscribers
        /\ UNCHANGED <<connections, link, frames, foreground, want, crossed>>

----------------------------------------------------------------------------
(* The end of a session, and the environment *)

\* The loop over incoming frames ends: the client or the server closes the
\* socket, or it is found dead.
End(s) ==
    /\ task[s].pc = "open"
    /\ task' = To(s, "remove")
    /\ link' = [link EXCEPT ![s] = "closed"]
    /\ UNCHANGED <<connections, frames, presence>>

\* Faulty variant: whatever session is registered is removed.
RemoveAny(s) ==
    LET u == Owner[s]
    IN  /\ task[s].pc = "remove"
        /\ connections' = [connections EXCEPT ![u] = None]
        /\ want' = IF connections[u] = s
                   THEN [want EXCEPT ![u] = [online |-> FALSE, targets |-> {}]] ELSE want
        /\ task' = To(s, "forget")
        /\ UNCHANGED <<link, frames, foreground, subscribers, crossed>>

\* removeConnection: compare-and-remove under the mutex, then the clean-up
\* without it.
RemoveConnection(s) ==
    LET u == Owner[s]
    IN  /\ task[s].pc = "remove"
        /\ IF connections[u] = s
           THEN /\ connections' = [connections EXCEPT ![u] = None]
                /\ want' = [want EXCEPT ![u] = [online |-> FALSE, targets |-> {}]]
                /\ task' = To(s, "forget")
           ELSE task' = To(s, "gone") /\ UNCHANGED <<connections, want>>
        /\ UNCHANGED <<link, frames, foreground, subscribers, crossed>>

Forget(s) ==
    /\ task[s].pc = "forget"
    /\ foreground' = foreground \ {Owner[s]}
    /\ task' = To(s, "cleanup")
    /\ UNCHANGED <<connections, link, frames, subscribers, want, crossed>>

cleanupSubscriptions(s) ==
    /\ task[s].pc = "cleanup"
    /\ subscribers' = [t \in User |-> IF subscribers[t] = None THEN None
                                     ELSE subscribers[t] \ {Owner[s]}]
    /\ task' = To(s, "gone")
    /\ UNCHANGED <<connections, link, frames, foreground, want, crossed>>

\* The network fails; the server does not know yet.
Lose(s) ==
    /\ link[s] = "up" /\ task[s].pc \notin {"new", "gone"}
    /\ link' = [link EXCEPT ![s] = "dead"]
    /\ UNCHANGED <<connections, task, frames, presence>>

\* Thirty seconds pass for an offer.
Age(i) ==
    /\ i \in DOMAIN sent /\ sent[i].type = "sdp_offer" /\ i \notin old
    /\ old' = old \union {i}
    /\ UNCHANGED <<connections, link, task, sent, queue, spoiled, written, dropped, raced, cancelled, presence>>

\* A sealed frame can no longer be opened.
Spoil(i) ==
    /\ i \in DOMAIN sent /\ i \notin spoiled
    /\ i \in UNION {Queued(u) : u \in User}
    /\ spoiled' = spoiled \union {i}
    /\ UNCHANGED <<connections, link, task, sent, queue, old, written, dropped, raced, cancelled, presence>>

\* The key of a queue reaches its time to live.
Expire(u, b) ==
    /\ queue[u][b] # <<>>
    /\ queue' = [queue EXCEPT ![u][b] = <<>>]
    /\ dropped' = dropped \union ToSet(queue[u][b])
    /\ UNCHANGED <<connections, link, task, sent, old, spoiled, written, raced, cancelled, presence>>

\* The server process dies: Redis keeps its queues, everything else is gone.
Restart ==
    /\ connections' = [u \in User |-> None]
    /\ task' = [s \in Socket |-> IF task[s].pc = "new" THEN task[s]
                                 ELSE [Idle(s, FALSE) EXCEPT !.pc = "gone"]]
    /\ link' = [s \in Socket |-> IF task[s].pc = "new" THEN link[s] ELSE "closed"]
    /\ dropped' = dropped \union {i \in DOMAIN sent : InHands(i)}
    /\ foreground' = {} /\ subscribers' = [u \in User |-> None]
    /\ want' = [u \in User |-> [online |-> FALSE, targets |-> {}]]
    /\ crossed' = {}
    /\ UNCHANGED <<sent, queue, old, spoiled, written, raced, cancelled>>

Session(s) ==
    \/ Connect(s) \/ ClosePrevious(s) \/ Fetch(s) \/ Discard(s) \/ Leave(s)
    \/ Deliver(s) \/ Unqueue(s) \/ Drained(s) \/ DrainFails(s)
    \/ \E type \in Type, to \in User : Take(s, type, to)
    \/ ListSignals(s) \/ RemoveSignal(s) \/ KeepSignal(s) \/ PurgeFails(s) \/ PurgeDone(s)
    \/ Lookup(s) \/ Send(s) \/ Queue(s)
    \/ \E isOnline \in BOOLEAN : handlePresenceUpdate(s, isOnline)
    \/ \E t \in User : Subscribe(s, t) \/ Unsubscribe(s, t)
    \/ Add(s) \/ DropKey(s)
    \/ End(s) \/ RemoveConnection(s) \/ Forget(s) \/ cleanupSubscriptions(s)

Next ==
    \/ \E s \in Socket : Session(s) \/ Lose(s)
    \/ \E i \in DOMAIN sent : Age(i) \/ Spoil(i)
    \/ \E u \in User, b \in Bucket : Expire(u, b)
    \/ Restart

Spec == Init /\ [][Next]_vars

----------------------------------------------------------------------------
(* Properties *)

TypeOK ==
    /\ connections \in [User -> Socket \union {None}]
    /\ \A u \in User : connections[u] # None => Owner[connections[u]] = u
    /\ link \in [Socket -> {"up", "dead", "closed"}]
    /\ task \in [Socket -> Task]
    /\ sent \in Seq(Frame) /\ Len(sent) <= MaxFrames
    /\ queue \in [User -> [Bucket -> Seq(DOMAIN sent)]]
    /\ \A u \in User : \A i \in Queued(u) : sent[i].to = u
    /\ \A s \in Socket : task[s].frame \in {0} \union DOMAIN sent
    /\ \A s \in Socket : task[s].pc = "send" => task[s].session # None
    /\ foreground \subseteq User
    /\ subscribers \in [User -> (SUBSET User) \union {None}]
    /\ UNION {old, spoiled, written, dropped, raced, cancelled} \subseteq DOMAIN sent
    /\ want \in [User -> [online: BOOLEAN, targets: SUBSET User]]
    /\ crossed \subseteq User

\* A frame whose handler is done is in its recipient's queue, was written to
\* one of its sessions, or was given up on purpose: trimmed, expired, too old,
\* purged with its call, unreadable, transient, or lost with a Redis error or
\* the process.  Drains that stop half-way, concurrent drains of a replaced
\* and a new session and purges under a drain lose nothing else.
NothingVanishes ==
    \A i \in DOMAIN sent :
        InHands(i) \/ i \in Queued(sent[i].to) \union written \union dropped

\* A session that is up and has drained leaves in the queue only what it
\* cannot take, call frames for a message-only session, and frames whose
\* handler had looked the recipient up before the session registered.
StrandedOnlyByRace ==
    \A u \in User :
        LET s == connections[u]
        IN  s # None /\ (s # None => link[s] # "closed" /\ task[s].drained) =>
                \A i \in Queued(u) : i \in raced \/ LeftForCalls(s, i)

\* After a HANGUP, REJECT or BUSY has purged both queues, an offer of that call
\* that had been handled before is in no queue and on no drain's list, except a
\* drain that had listed it already: no session rings for it again.
CancelledStaysCancelled ==
    \A i \in cancelled : ~Listed(i) /\ i \notin Queued(sent[i].to)

\* The presence and the subscriptions of a user are what its sessions asked
\* for since it last came online, whatever sessions of it ended meanwhile,
\* unless a request was handled during the clean-up of an earlier session or
\* while another handler dropped the emptied set of the same target.
PresenceKept ==
    \A u \in User \ crossed : ~Ending(u) =>
        /\ u \in foreground <=> want[u].online
        /\ \A t \in User \ crossed :
              u \in Members(t) <=> t \in want[u].targets
=============================================================================
