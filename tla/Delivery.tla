------------------------------ MODULE Delivery ------------------------------
(***************************************************************************)
(* How ConnectionManager gets a reliable ciphertext to one recipient: the  *)
(* handlers that route frames to it (routeMessage), the sockets it opens   *)
(* one after the other (addConnection, removeConnection), the drain that   *)
(* every accepted socket runs before its own frames are read               *)
(* (deliverReliableMessages), and the ACKs it sends back.                  *)
(*                                                                         *)
(* They run concurrently and share two things: the connections map, under  *)
(* a mutex that is released before any I/O, and the Redis queue of module  *)
(* ReliableQueue, on which every command is atomic but no sequence of      *)
(* commands is.  Every suspension point and every Redis round trip is      *)
(* therefore a step boundary here.                                         *)
(*                                                                         *)
(* messageOnlySessions needs no variable: a session enters it in the       *)
(* critical section that puts it in connections and leaves it in the one   *)
(* that takes it out, so for the registered session it equals MessageOnly. *)
(***************************************************************************)
EXTENDS ReliableQueue

CONSTANTS
    Session,      \* the sockets the recipient opens, each once
    MessageOnly,  \* the ones opened with callCapable = false
    Handler,      \* coroutines of senders that may be inside routeMessage
    NoSession,    \* connections[recipient] == null
    MaxRoutes     \* bound of the model: routeMessage calls in a behaviour

ASSUME SessionAssumption == NoSession \notin Session /\ MessageOnly \subseteq Session
ASSUME RouteAssumption   == MaxRoutes \in Nat

VARIABLES
    conn,       \* connections[recipient]
    sock,       \* sock[s]: "fresh" before the dial, then "open", then "closed"
    drain,      \* drain[s]: how far addConnection(s) and its delivery have got
    handler,    \* handler[h]: the local state of a routeMessage call
    routes,     \* routeMessage calls so far
    sent,       \* sent[s]: tokens written to socket s
    persisted,  \* tokens the recipient has durably processed
    acks,       \* <<s, t>>: delivery_transport_ack frames not yet read
    unanswered  \* history: tokens stored by a script whose reply was lost, not
                \* routed again since and not listed by the registered socket

serverVars == <<conn, drain, handler, routes>>
clientVars == <<persisted, acks>>
wireVars   == <<sock, sent>>
vars == <<now, q, conn, drain, handler, routes, persisted, acks, sock, sent,
          unanswered>>

NoList   == [t \in Token |-> 0]
NoDrain  == [pc |-> "none", prev |-> NoSession, list |-> NoList, found |-> {}]
IdleCall == [pc |-> "idle", token |-> {}, to |-> NoSession]

Init ==
    /\ QueueInit
    /\ conn = NoSession
    /\ sock = [s \in Session |-> "fresh"]
    /\ drain = [s \in Session |-> NoDrain]
    /\ handler = [h \in Handler |-> IdleCall]
    /\ routes = 0
    /\ sent = [s \in Session |-> {}]
    /\ persisted = {}
    /\ acks = {}
    /\ unanswered = {}

-----------------------------------------------------------------------------
(* routeMessage for a reliable frame: queue first, look up second.         *)

\* Faulty variant: a refused enqueue is not told apart from a stored one.
RouteQueueIgnoresRefusal(h, t, size, cutoff) ==
    /\ handler[h].pc = "idle"
    /\ routes < MaxRoutes
    /\ routes' = routes + 1
    /\ Enqueue(t, size, cutoff)
    /\ handler' = [handler EXCEPT ![h] =
         [pc |-> "queued", to |-> NoSession,
          token |-> {IF EnqueueAccepts(q, t, size, cutoff) /\ t \notin Corrupt
                     THEN t ELSE NoSession}]]
    /\ unanswered' = unanswered \ {t}
    /\ UNCHANGED <<conn, drain, clientVars, wireVars>>

\* A frame is queued; the call goes on only when the script kept the token
\* and the stored envelope opens.
RouteQueue(h, t, size, cutoff) ==
    /\ handler[h].pc = "idle"
    /\ routes < MaxRoutes
    /\ routes' = routes + 1
    /\ Enqueue(t, size, cutoff)
    /\ handler' = [handler EXCEPT ![h] =
         IF EnqueueAccepts(q, t, size, cutoff) /\ t \notin Corrupt
         THEN [pc |-> "queued", token |-> {t}, to |-> NoSession]
         ELSE IdleCall]
    /\ unanswered' = IF EnqueueAccepts(q, t, size, cutoff) THEN unanswered \ {t} ELSE unanswered
    /\ UNCHANGED <<conn, drain, clientVars, wireVars>>

\* The script runs and its reply is lost: the exception is caught and the call
\* ends without a look-up.  (When Redis fails before the script runs, the call
\* ends likewise and leaves no trace: no step.  For an envelope that does not
\* open the exception comes anyway: RouteQueue.)
RouteQueueFails(h, t, size, cutoff) ==
    /\ handler[h].pc = "idle"
    /\ routes < MaxRoutes
    /\ routes' = routes + 1
    /\ t \notin Corrupt
    /\ Enqueue(t, size, cutoff)
    /\ unanswered' = IF ~Held(t) /\ Held(t)' THEN unanswered \cup {t} ELSE unanswered
    /\ UNCHANGED <<conn, drain, handler, clientVars, wireVars>>

\* connections[recipientId]: without a session only the wake-up push is left.
RouteLookup(h) ==
    /\ handler[h].pc = "queued"
    /\ handler' = [handler EXCEPT ![h] =
         IF conn = NoSession THEN IdleCall
                             ELSE [@ EXCEPT !.pc = "sending", !.to = conn]]
    /\ UNCHANGED <<queueVars, conn, drain, routes, clientVars, unanswered, wireVars>>

\* session.send: on a closed socket it throws and the push is sent instead.
RouteSend(h) ==
    /\ handler[h].pc = "sending"
    /\ sent' = IF sock[handler[h].to] = "open"
               THEN [sent EXCEPT ![handler[h].to] = @ \cup handler[h].token]
               ELSE sent
    /\ handler' = [handler EXCEPT ![h] = IdleCall]
    /\ UNCHANGED <<queueVars, conn, drain, routes, clientVars, unanswered, sock>>

-----------------------------------------------------------------------------
(* addConnection.                                                          *)

\* A message-only socket may not displace a call-capable one.
Displaces(s) == s \notin MessageOnly \/ conn \notin Session \ MessageOnly

\* Faulty variant: the previous session is read after the map was written.
ConnectReadsTooLate(s) ==
    /\ sock[s] = "fresh"
    /\ Displaces(s)
    /\ conn' = s
    /\ sock' = [sock EXCEPT ![s] = "open"]
    /\ drain' = [drain EXCEPT ![s] = [NoDrain EXCEPT !.pc = "closing", !.prev = conn']]
    /\ UNCHANGED <<queueVars, handler, routes, clientVars, unanswered, sent>>

\* The critical section admits the session and takes over the map entry.
Connect(s) ==
    /\ sock[s] = "fresh"
    /\ Displaces(s)
    /\ conn' = s
    /\ sock' = [sock EXCEPT ![s] = "open"]
    /\ drain' = [drain EXCEPT ![s] = [NoDrain EXCEPT !.pc = "closing", !.prev = conn]]
    /\ UNCHANGED <<queueVars, handler, routes, clientVars, unanswered, sent>>

\* Admission refused: a call-capable session is active, or other users fill
\* the server (possible only for a user who is not connected).
Refuse(s) ==
    /\ sock[s] = "fresh"
    /\ ~Displaces(s) \/ conn = NoSession
    /\ sock' = [sock EXCEPT ![s] = "closed"]
    /\ drain' = [drain EXCEPT ![s].pc = "removed"]
    /\ UNCHANGED <<queueVars, conn, handler, routes, clientVars, unanswered, sent>>

\* After the unlock the displaced socket is closed.
ClosePrevious(s) ==
    /\ drain[s].pc = "closing"
    /\ sock' = IF drain[s].prev \in Session
               THEN [sock EXCEPT ![drain[s].prev] = "closed"] ELSE sock
    /\ drain' = [drain EXCEPT ![s].pc = "purge"]
    /\ UNCHANGED <<queueVars, conn, handler, routes, clientVars, unanswered, sent>>

-----------------------------------------------------------------------------
(* deliverReliableMessages: three Redis commands, then one send a token.   *)

DrainPurge(s, cutoff) ==
    /\ drain[s].pc = "purge"
    /\ Purge(cutoff)
    /\ drain' = [drain EXCEPT ![s].pc = "list"]
    /\ UNCHANGED <<conn, handler, routes, clientVars, unanswered, wireVars>>

\* ZRANGE: the tokens of the index with their order.
DrainList(s) ==
    /\ drain[s].pc = "list"
    /\ drain' = [drain EXCEPT ![s].pc = "fetch", ![s].list = q.index]
    /\ unanswered' = IF conn = s THEN {} ELSE unanswered
    /\ UNCHANGED <<queueVars, conn, handler, routes, clientVars, wireVars>>

\* MGET: the payloads of the listed tokens, null for an expired one.
DrainFetch(s) ==
    /\ drain[s].pc = "fetch"
    /\ drain' = [drain EXCEPT ![s].pc = "send",
                   ![s].found = {t \in Token : drain[s].list[t] # 0 /\ Held(t)}]
    /\ UNCHANGED <<queueVars, conn, handler, routes, clientVars, unanswered, wireVars>>

\* The loop takes the listed tokens in index order.
IsHead(s, t) ==
    /\ drain[s].pc = "send"
    /\ drain[s].list[t] # 0
    /\ \A u \in Token : drain[s].list[u] # 0 => drain[s].list[t] <= drain[s].list[u]

\* A null payload: the token leaves the index, and only the index.
DrainMissing(s, t) ==
    /\ IsHead(s, t)
    /\ t \notin drain[s].found
    /\ Unlist(t)
    /\ drain' = [drain EXCEPT ![s].list[t] = 0]
    /\ UNCHANGED <<conn, handler, routes, clientVars, unanswered, wireVars>>

\* An envelope that does not open: DEL of the item; the ZREM that follows is
\* the one of DrainMissing.
DrainCorrupt(s, t) ==
    /\ IsHead(s, t)
    /\ t \in drain[s].found
    /\ Discard(t)
    /\ drain' = [drain EXCEPT ![s].found = @ \ {t}]
    /\ UNCHANGED <<conn, handler, routes, clientVars, unanswered, wireVars>>

DrainSend(s, t) ==
    /\ IsHead(s, t)
    /\ t \in drain[s].found \ Corrupt
    /\ sock[s] = "open"
    /\ sent' = [sent EXCEPT ![s] = @ \cup {t}]
    /\ drain' = [drain EXCEPT ![s].list[t] = 0]
    /\ UNCHANGED <<queueVars, conn, handler, routes, clientVars, unanswered, sock>>

\* Faulty variant: the loop may stop with tokens still listed.
DrainEndEarly(s) ==
    /\ drain[s].pc = "send"
    /\ drain' = [drain EXCEPT ![s] = [NoDrain EXCEPT !.pc = "done"]]
    /\ UNCHANGED <<queueVars, conn, handler, routes, clientVars, unanswered, wireVars>>

\* The loop ends: nothing is listed any more, or a send has thrown.
DrainEnd(s) ==
    /\ drain[s].pc = "send"
    /\ \/ drain[s].list = NoList
       \/ /\ sock[s] = "closed"
          /\ \E t \in drain[s].found \ Corrupt : IsHead(s, t)
    /\ drain' = [drain EXCEPT ![s] = [NoDrain EXCEPT !.pc = "done"]]
    /\ UNCHANGED <<queueVars, conn, handler, routes, clientVars, unanswered, wireVars>>

\* Redis fails under the drain: the exception is logged and swallowed, and
\* the session stays registered although its queue was not delivered.
DrainError(s) ==
    /\ \/ drain[s].pc \in {"purge", "list", "fetch"}
       \/ \E t \in Token : IsHead(s, t) /\ t \notin drain[s].found \ Corrupt
    /\ drain' = [drain EXCEPT ![s] = [NoDrain EXCEPT !.pc = "failed"]]
    /\ UNCHANGED <<queueVars, conn, handler, routes, clientVars, unanswered, wireVars>>

-----------------------------------------------------------------------------
(* The socket's own life, the recipient's ACKs, and time.                  *)

\* The transport goes away; nobody has noticed yet.
Disconnect(s) ==
    /\ sock[s] = "open"
    /\ sock' = [sock EXCEPT ![s] = "closed"]
    /\ UNCHANGED <<queueVars, serverVars, clientVars, unanswered, sent>>

\* Faulty variant: the entry is removed whoever owns it.
RemoveAny(s) ==
    /\ sock[s] = "closed"
    /\ drain[s].pc \in {"done", "failed"}
    /\ conn' = NoSession
    /\ drain' = [drain EXCEPT ![s].pc = "removed"]
    /\ UNCHANGED <<queueVars, handler, routes, clientVars, unanswered, wireVars>>

\* removeConnection from the session's finally block: compare-and-remove.
Remove(s) ==
    /\ sock[s] = "closed"
    /\ drain[s].pc \in {"done", "failed"}
    /\ conn' = IF conn = s THEN NoSession ELSE conn
    /\ drain' = [drain EXCEPT ![s].pc = "removed"]
    /\ UNCHANGED <<queueVars, handler, routes, clientVars, unanswered, wireVars>>

\* The recipient decrypts a frame and makes its effect durable.
Persist(t) ==
    /\ \E s \in Session : t \in sent[s]
    /\ t \notin persisted
    /\ persisted' = persisted \cup {t}
    /\ UNCHANGED <<queueVars, serverVars, wireVars, acks, unanswered>>

\* Faulty variant: the frame is acknowledged on arrival.
SendAckOnArrival(s, t) ==
    /\ sock[s] = "open"
    /\ t \in sent[s]
    /\ acks' = acks \cup {<<s, t>>}
    /\ UNCHANGED <<queueVars, serverVars, wireVars, persisted, unanswered>>

\* It acknowledges only what is durable, on a socket that showed it the token.
SendAck(s, t) ==
    /\ sock[s] = "open"
    /\ t \in persisted \cap sent[s]
    /\ acks' = acks \cup {<<s, t>>}
    /\ UNCHANGED <<queueVars, serverVars, wireVars, persisted, unanswered>>

\* delivery_transport_ack is read by the frame loop, which starts only after
\* addConnection has returned.
ServerAck(s, t) ==
    /\ <<s, t>> \in acks
    /\ drain[s].pc \in {"done", "failed"}
    /\ Ack(t)
    /\ acks' = acks \ {<<s, t>>}
    /\ UNCHANGED <<serverVars, wireVars, persisted, unanswered>>

\* A frame still in flight when its socket closes may be lost, and one that is
\* read comes to nothing when Redis fails under it.
LoseAck(s, t) ==
    /\ <<s, t>> \in acks
    /\ sock[s] = "closed" \/ drain[s].pc \in {"done", "failed"}
    /\ acks' = acks \ {<<s, t>>}
    /\ UNCHANGED <<queueVars, serverVars, wireVars, persisted, unanswered>>

TimePasses == Tick /\ UNCHANGED <<serverVars, clientVars, unanswered, wireVars>>

-----------------------------------------------------------------------------

Route(h) == RouteLookup(h) \/ RouteSend(h)

Drain(s) ==
    \/ ClosePrevious(s)
    \/ \E cutoff \in Cutoffs : DrainPurge(s, cutoff)
    \/ DrainList(s)
    \/ DrainFetch(s)
    \/ \E t \in Token : DrainMissing(s, t) \/ DrainCorrupt(s, t) \/ DrainSend(s, t)
    \/ DrainEnd(s)

Next ==
    \/ \E h \in Handler, t \in Token, size \in Sizes, cutoff \in Cutoffs :
          RouteQueue(h, t, size, cutoff) \/ RouteQueueFails(h, t, size, cutoff)
    \/ \E h \in Handler : Route(h)
    \/ \E s \in Session : Connect(s) \/ Refuse(s) \/ Disconnect(s) \/ Remove(s)
    \/ \E s \in Session : Drain(s) \/ DrainError(s)
    \/ \E t \in Token : Persist(t)
    \/ \E s \in Session, t \in Token : SendAck(s, t) \/ ServerAck(s, t) \/ LoseAck(s, t)
    \/ TimePasses

Spec == Init /\ [][Next]_vars

\* Coroutines that can run do run, and the recipient works through what it
\* has received.  Nothing is assumed of the network, of time, of when Redis
\* fails (under an enqueue, a drain or an ACK) or of when the recipient dials.
Fairness ==
    /\ \A h \in Handler : WF_vars(Route(h))
    /\ \A s \in Session : WF_vars(Drain(s)) /\ WF_vars(Remove(s))
    /\ \A t \in Token : WF_vars(Persist(t))

FairSpec == Spec /\ Fairness

-----------------------------------------------------------------------------
(* Properties.                                                             *)

DrainType ==
    [pc : {"none", "closing", "purge", "list", "fetch", "send", "done", "failed", "removed"},
     prev : Session \cup {NoSession}, list : [Token -> Nat], found : SUBSET Token]

CallType ==
    [pc : {"idle", "queued", "sending"}, token : SUBSET Token, to : Session \cup {NoSession}]

\* Every variable keeps its type.
TypeOK ==
    /\ QueueTypeOK
    /\ conn \in Session \cup {NoSession}
    /\ sock \in [Session -> {"fresh", "open", "closed"}]
    /\ drain \in [Session -> DrainType]
    /\ handler \in [Handler -> CallType]
    /\ routes \in Nat
    /\ sent \in [Session -> SUBSET Token]
    /\ persisted \in SUBSET Token
    /\ acks \in SUBSET (Session \X Token)
    /\ unanswered \in SUBSET Token

\* A handler that is still going to write t to socket s.
Underway(t, s) ==
    \E h \in Handler : /\ t \in handler[h].token
                       /\ \/ handler[h].pc = "queued"
                          \/ handler[h].pc = "sending" /\ handler[h].to = s

\* The live socket of a recipient whose queue was drained.
Serving(s) == conn = s /\ sock[s] = "open" /\ drain[s].pc = "done"

\* No wake-up is lost: whatever the interleaving of a sender that queues and
\* then looks up, and a recipient that registers and then drains, a waiting
\* ciphertext has reached the live socket or is on its way to it.  The one
\* exception is an enqueue whose reply was lost: routeMessage returns without
\* a look-up, and the token waits for the sender's retry or the next drain.
\* Indexed is not idle: a drain may take the entry of a token queued again.
NoLostWakeup ==
    \A s \in Session, t \in Token \ Corrupt :
        Serving(s) /\ Held(t) /\ Indexed(t)
        => t \in sent[s] \/ Underway(t, s) \/ t \in unanswered

\* The finally block of a replaced socket never takes the live one out of
\* the map: an entry disappears only when its own socket is closed.
LiveSessionKept ==
    [][(conn \in Session /\ conn' = NoSession) => sock[conn] = "closed"]_vars

\* No socket is forgotten: one that is open is the registered one, or a later
\* addConnection of the same user has taken its place and is about to close it.
\* The map no longer knows it then; only that coroutine's local variable does.
NoForgottenSocket ==
    \A s \in Session : sock[s] = "open" =>
        \/ conn = s
        \/ \E x \in Session \ {s} : drain[x].pc = "closing" /\ drain[x].prev = s

\* The abstract queue: custody of a ciphertext is its item key in Redis.
Custody == INSTANCE AtLeastOnce WITH held <- [t \in Token |-> q.item[t].exp]

\* Routing, draining, reconnecting and expiry together implement at-least-once
\* delivery: a ciphertext is kept as first accepted until its own deadline or
\* until an ACK for a message the recipient already has.
ImplementsAtLeastOnce == Custody!Spec

\* A connected recipient gets what is queued for it.  The exceptions are the
\* ways out the code really has: expiry or ACK, no connection, a drain that
\* Redis cut short, an envelope dropped from the index, an enqueue whose reply
\* Redis lost.
Stranded(t) ==
    \/ ~Held(t) \/ ~Indexed(t)
    \/ conn = NoSession
    \/ conn \in Session /\ drain[conn].pc = "failed"
    \/ t \in unanswered

EventuallyDelivered ==
    \A t \in Token \ Corrupt : Held(t) ~> (t \in persisted \/ Stranded(t))

=============================================================================
