--------------------------- MODULE DeliveryProofs ---------------------------
(***************************************************************************)
(* Proofs about the delivery to one recipient, for any finite set of       *)
(* tokens, any sessions, concurrent handlers, limits and clock lag.        *)
(*                                                                         *)
(* NoLostWakeup speaks of a drained socket only, so it says nothing of the *)
(* steps that lead there.  Covered extends it to the sockets still being   *)
(* drained: at every point of the drain it names what keeps a waiting      *)
(* ciphertext on its way.                                                  *)
(***************************************************************************)
EXTENDS Delivery, ReliableQueueProofs

\* What keeps ciphertext t on its way to the open, registered socket s.
Covered(s, t) ==
    \/ drain[s].pc \in {"closing", "purge", "list", "failed"}
    \/ drain[s].pc = "fetch" /\ drain[s].list[t] # 0
    \/ drain[s].pc = "send" /\ drain[s].list[t] # 0 /\ t \in drain[s].found
    \/ t \in sent[s]
    \/ Underway(t, s)
    \/ t \in unanswered

Waiting(s, t) == conn = s /\ sock[s] = "open" /\ Held(t) /\ Indexed(t)

WakeupInv == \A s \in Session, t \in Token \ Corrupt : Waiting(s, t) => Covered(s, t)

\* An ACK in flight speaks of a message that is durable.
AcksInv == \A s \in Session, t \in Token : <<s, t>> \in acks => t \in persisted

CustodyInv == now \in Nat \ {0} /\ KeptQueue(q, now)

\* The part of the type invariant that is not the queue's.
LocalTypeOK ==
    /\ conn \in Session \cup {NoSession}
    /\ sock \in [Session -> {"fresh", "open", "closed"}]
    /\ drain \in [Session -> DrainType]
    /\ handler \in [Handler -> CallType]
    /\ routes \in Nat
    /\ sent \in [Session -> SUBSET Token]
    /\ persisted \in SUBSET Token
    /\ acks \in SUBSET (Session \X Token)
    /\ unanswered \in SUBSET Token

DeliveryInv == CustodyInv /\ LocalTypeOK /\ AcksInv /\ WakeupInv

\* The steps that touch the queue, by their effect on items.
Shrinks ==
    /\ CustodyInv'
    /\ \A t \in Token : q.item'[t] \in {Absent, q.item[t]}
    /\ \A t \in Token : q.index'[t] \in {0, q.index[t]}

-----------------------------------------------------------------------------
(* The queue under the handlers.                                           *)

LEMMA PurgeShrinks ==
    ASSUME CustodyInv, NEW cutoff \in Cutoffs, Purge(cutoff)
    PROVE  Shrinks /\ q'.item = q.item
<1>1. cutoff \in Int /\ cutoff <= now - TTL /\ now \in Nat
  BY CutoffFacts DEF CustodyInv
<1>2. q' = PurgeScript(q, cutoff) /\ now' = now
  BY DEF Purge
<1>3. /\ KeptQueue(q', now) /\ q'.item = q.item
      /\ \A u \in Token : q'.index[u] \in {0, q.index[u]}
  BY <1>1, <1>2, PurgeKept DEF CustodyInv
<1> QED BY <1>2, <1>3 DEF CustodyInv, Shrinks

LEMMA AckShrinks ==
    ASSUME CustodyInv, NEW t \in Token, Ack(t)
    PROVE  Shrinks /\ q'.item = [q.item EXCEPT ![t] = Absent]
<1>1. q' = AckScript(q, t) /\ now' = now /\ now \in Nat
  BY DEF Ack, CustodyInv
<1>2. /\ KeptQueue(q', now) /\ q'.item = [q.item EXCEPT ![t] = Absent]
      /\ \A u \in Token : q'.index[u] \in {0, q.index[u]}
  BY <1>1, AckKept DEF CustodyInv
<1> QED BY <1>1, <1>2 DEF CustodyInv, Shrinks, KeptQueue, QueueType

LEMMA TickShrinks ==
    ASSUME CustodyInv, Tick
    PROVE  /\ Shrinks
           /\ now' = now + 1
           /\ q'.item = [t \in Token |-> IF q.item[t].exp <= now + 1
                                         THEN Absent ELSE q.item[t]]
<1>1. now' = now + 1 /\ q' = ExpireAt(q, now + 1) /\ now \in Nat /\ now' \in Nat \ {0}
  BY DEF Tick, CustodyInv
<1>2. /\ KeptQueue(q', now + 1)
      /\ q'.item = [t \in Token |-> IF q.item[t].exp <= now + 1
                                     THEN Absent ELSE q.item[t]]
      /\ \A u \in Token : q'.index[u] \in {0, q.index[u]}
  BY <1>1, ExpireKept DEF CustodyInv
<1> QED BY <1>1, <1>2 DEF CustodyInv, Shrinks

\* The ZREM of a null payload and the DEL of a corrupt one.
LEMMA MissingShrinks ==
    ASSUME CustodyInv, NEW t \in Token, Unlist(t)
    PROVE  Shrinks /\ q'.item = q.item /\ q'.index[t] = 0 /\ now' = now
<1>1. q' = [q EXCEPT !.index[t] = 0] /\ now' = now /\ now \in Nat
  BY DEF Unlist, CustodyInv
<1>2. KeptQueue(q', now) /\ q'.item = q.item /\ q'.index = [q.index EXCEPT ![t] = 0]
  BY <1>1, UnlistKept DEF CustodyInv
<1>3. q'.index[t] = 0 /\ \A u \in Token : q'.index[u] \in {0, q.index[u]}
  BY <1>2 DEF CustodyInv, KeptQueue, QueueType
<1> QED BY <1>1, <1>2, <1>3 DEF CustodyInv, Shrinks

LEMMA CorruptShrinks ==
    ASSUME CustodyInv, NEW t \in Token, Discard(t)
    PROVE  Shrinks /\ q'.item = [q.item EXCEPT ![t] = Absent] /\ now' = now
<1>1. PICK items : items = [u \in Token |-> IF u \in {t} THEN Absent ELSE q.item[u]]
  OBVIOUS
<1>0. q.item \in [Token -> ItemType]
  BY DEF CustodyInv, KeptQueue, QueueType
<1>2. items = [q.item EXCEPT ![t] = Absent]
  BY <1>0, <1>1
<1>3. q' = [q EXCEPT !.item = items] /\ now' = now /\ now \in Nat /\ {t} \in SUBSET Token
  BY <1>2 DEF Discard, CustodyInv
<1>4. KeptQueue(q', now) /\ q'.item = items /\ q'.index = q.index
  <2>1. KeptQueue(q, now)
    BY DEF CustodyInv
  <2>2. PICK gone \in SUBSET Token :
           items = [u \in Token |-> IF u \in gone THEN Absent ELSE q.item[u]]
    BY <1>1, <1>3
  <2>3. LET z == [q EXCEPT !.item = items]
        IN  KeptQueue(z, now) /\ z.item = items /\ z.index = q.index
    BY <1>3, <2>1, <2>2, DeleteItemsKept
  <2> QED BY <1>3, <2>3
<1>5. \A u \in Token : q'.item[u] \in {Absent, q.item[u]} /\ q'.index[u] = q.index[u]
  BY <1>1, <1>4
<1> QED BY <1>2, <1>3, <1>4, <1>5 DEF CustodyInv, Shrinks

\* Only t can start to wait by an enqueue of t, and only if it is accepted.
LEMMA EnqueueEffect ==
    ASSUME CustodyInv, NEW t \in Token, NEW size \in Sizes, NEW cutoff \in Cutoffs,
           Enqueue(t, size, cutoff)
    PROVE  /\ CustodyInv' /\ now' = now
           /\ SameOrAdded(q.item, q'.item, t, size, now + TTL)
           /\ \A u \in Token :
                 Held(u)' /\ Indexed(u)' /\ (u # t \/ ~EnqueueAccepts(q, t, size, cutoff))
                 => Held(u) /\ Indexed(u)
<1>1. cutoff \in Int /\ cutoff <= now - TTL /\ size \in Nat \ {0} /\ now \in Nat \ {0}
  BY CutoffFacts, SizesAssumption DEF CustodyInv
<1>2. q' = EnqueueScript(q, t, size, now, cutoff) /\ now' = now
  BY DEF Enqueue
<1>3. KeptQueue(q', now) /\ SameOrAdded(q.item, q'.item, t, size, now + TTL)
  BY <1>1, <1>2, EnqueueKept DEF CustodyInv
<1>4. ASSUME NEW u \in Token, u # t \/ ~EnqueueAccepts(q, t, size, cutoff)
      PROVE  q'.index[u] \in {0, q.index[u]}
  BY <1>1, <1>2, <1>4, EnqueueScores DEF CustodyInv
<1>5. ASSUME ~EnqueueAccepts(q, t, size, cutoff) PROVE q'.item = q.item
  <2>1. q' = PurgeExpired(q, cutoff)
    BY <1>2, <1>5 DEF EnqueueScript, EnqueueAccepts
  <2> QED BY <1>1, <2>1, PurgeExpiredKept DEF CustodyInv
<1>6. ASSUME NEW u \in Token, u # t PROVE q'.item[u] = q.item[u]
  BY <1>3, <1>6 DEF SameOrAdded, CustodyInv, KeptQueue, QueueType
<1>7. \A u \in Token :
         /\ q'.item[u].size # 0 /\ q'.index[u] # 0
         /\ u # t \/ ~EnqueueAccepts(q, t, size, cutoff)
         => q.item[u].size # 0 /\ q.index[u] # 0
  <2> SUFFICES ASSUME NEW u \in Token, q'.item[u].size # 0, q'.index[u] # 0,
                      u # t \/ ~EnqueueAccepts(q, t, size, cutoff)
               PROVE  q.item[u].size # 0 /\ q.index[u] # 0
    OBVIOUS
  <2>1. q'.index[u] \in {0, q.index[u]}
    BY <1>4
  <2>2. q'.item[u] = q.item[u]
    BY <1>5, <1>6
  <2> QED BY <2>1, <2>2
<1>8. CustodyInv'
  BY <1>1, <1>2, <1>3 DEF CustodyInv
<1> QED BY <1>2, <1>3, <1>7, <1>8 DEF Held, Indexed

-----------------------------------------------------------------------------
(* What the drain's record updates amount to.                              *)

LEMMA UnlistTyped ==
    ASSUME NEW d \in DrainType, NEW t \in Token
    PROVE  LET e == [d EXCEPT !.list[t] = 0]
           IN  /\ e \in DrainType
               /\ e.pc = d.pc /\ e.found = d.found /\ e.list = [d.list EXCEPT ![t] = 0]
  BY DEF DrainType

LEMMA ListTyped ==
    ASSUME NEW d \in DrainType, NEW list \in [Token -> Nat]
    PROVE  LET e == [d EXCEPT !.pc = "fetch", !.list = list]
           IN  e \in DrainType /\ e.pc = "fetch" /\ e.list = list
  BY DEF DrainType

LEMMA FetchTyped ==
    ASSUME NEW d \in DrainType, NEW found \in SUBSET Token
    PROVE  LET e == [d EXCEPT !.pc = "send", !.found = found]
           IN  e \in DrainType /\ e.pc = "send" /\ e.list = d.list /\ e.found = found
  BY DEF DrainType

LEMMA ForgetTyped ==
    ASSUME NEW d \in DrainType, NEW t \in Token
    PROVE  LET e == [d EXCEPT !.found = @ \ {t}]
           IN  /\ e \in DrainType
               /\ e.pc = d.pc /\ e.list = d.list /\ e.found = d.found \ {t}
  BY DEF DrainType

-----------------------------------------------------------------------------
(* The invariant.                                                          *)

LEMMA DeliveryInit == Init => DeliveryInv
<1> SUFFICES ASSUME Init PROVE DeliveryInv
  OBVIOUS
<1>1. CustodyInv
  BY QueueInvInit DEF Init, QueueInv, GoodQueue, CustodyInv
<1>2. LocalTypeOK
  BY DEF Init, LocalTypeOK, NoDrain, NoList, IdleCall, DrainType, CallType
<1>3. AcksInv /\ WakeupInv
  BY SessionAssumption DEF Init, AcksInv, WakeupInv, Waiting
<1> QED BY <1>1, <1>2, <1>3 DEF DeliveryInv

\* Custody survives every step.
LEMMA CustodyStep ==
    ASSUME DeliveryInv, [Next]_vars
    PROVE  CustodyInv'
<1>0. CustodyInv
  BY DEF DeliveryInv
<1>1. ASSUME UNCHANGED queueVars PROVE CustodyInv'
  BY <1>0, <1>1 DEF queueVars, CustodyInv
<1>2. ASSUME NEW h \in Handler, NEW t \in Token, NEW size \in Sizes, NEW cutoff \in Cutoffs,
             RouteQueue(h, t, size, cutoff) \/ RouteQueueFails(h, t, size, cutoff)
      PROVE  CustodyInv'
  BY <1>0, <1>2, EnqueueEffect DEF RouteQueue, RouteQueueFails
<1>3. ASSUME NEW s \in Session, Drain(s) PROVE CustodyInv'
  <2>1. ASSUME NEW cutoff \in Cutoffs, DrainPurge(s, cutoff) PROVE CustodyInv'
    BY <1>0, <2>1, PurgeShrinks DEF DrainPurge, Shrinks
  <2>2. ASSUME NEW t \in Token, DrainMissing(s, t) PROVE CustodyInv'
    BY <1>0, <2>2, MissingShrinks DEF DrainMissing, Shrinks
  <2>3. ASSUME NEW t \in Token, DrainCorrupt(s, t) PROVE CustodyInv'
    BY <1>0, <2>3, CorruptShrinks DEF DrainCorrupt, Shrinks
  <2>4. CASE ClosePrevious(s) \/ DrainList(s) \/ DrainFetch(s) \/ DrainEnd(s)
             \/ \E t \in Token : DrainSend(s, t)
    BY <1>1, <2>4 DEF ClosePrevious, DrainList, DrainFetch, DrainEnd, DrainSend
  <2> QED BY <1>3, <2>1, <2>2, <2>3, <2>4 DEF Drain
<1>4. ASSUME NEW s \in Session, NEW t \in Token, ServerAck(s, t) PROVE CustodyInv'
  BY <1>0, <1>4, AckShrinks DEF ServerAck, Shrinks
<1>5. CASE TimePasses
  BY <1>0, <1>5, TickShrinks DEF TimePasses, Shrinks
<1>6. CASE UNCHANGED vars
  BY <1>1, <1>6 DEF vars, queueVars
<1>7. CASE \E h \in Handler : Route(h)
  BY <1>1, <1>7 DEF Route, RouteLookup, RouteSend
<1>8. CASE \E s \in Session : Connect(s) \/ Refuse(s) \/ Disconnect(s) \/ Remove(s) \/ DrainError(s)
  BY <1>1, <1>8 DEF Connect, Refuse, Disconnect, Remove, DrainError
<1>9. CASE \/ \E t \in Token : Persist(t)
           \/ \E s \in Session, t \in Token : SendAck(s, t) \/ LoseAck(s, t)
  BY <1>1, <1>9 DEF Persist, SendAck, LoseAck
<1> QED BY <1>2, <1>3, <1>4, <1>5, <1>6, <1>7, <1>8, <1>9 DEF Next

\* So do the types.
LEMMA TypeStep ==
    ASSUME DeliveryInv, [Next]_vars
    PROVE  LocalTypeOK'
<1> USE DEF LocalTypeOK
<1>0. LocalTypeOK /\ q.index \in [Token -> Nat]
  BY DEF DeliveryInv, CustodyInv, KeptQueue, QueueType
<1>2. ASSUME NEW h \in Handler, NEW t \in Token, NEW size \in Sizes, NEW cutoff \in Cutoffs,
             RouteQueue(h, t, size, cutoff) \/ RouteQueueFails(h, t, size, cutoff)
      PROVE  LocalTypeOK'
  BY <1>0, <1>2 DEF RouteQueue, RouteQueueFails, IdleCall, CallType, clientVars, wireVars
<1>3. ASSUME NEW h \in Handler, Route(h) PROVE LocalTypeOK'
  <2>1. CASE RouteLookup(h)
    BY <1>0, <2>1 DEF RouteLookup, IdleCall, CallType, clientVars, wireVars
  <2>2. CASE RouteSend(h)
    BY <1>0, <2>2 DEF RouteSend, IdleCall, CallType, clientVars
  <2> QED BY <1>3, <2>1, <2>2 DEF Route
<1>4. ASSUME NEW s \in Session, Drain(s) PROVE LocalTypeOK'
  <2> USE <1>0
  <2>1. ASSUME NEW cutoff \in Cutoffs, DrainPurge(s, cutoff) PROVE LocalTypeOK'
    BY <2>1 DEF DrainPurge, DrainType, clientVars, wireVars
  <2>2. ASSUME NEW t \in Token, DrainMissing(s, t) PROVE LocalTypeOK'
    <3>1. [drain[s] EXCEPT !.list[t] = 0] \in DrainType
      BY UnlistTyped
    <3>2. drain' = [drain EXCEPT ![s] = [drain[s] EXCEPT !.list[t] = 0]]
      BY <2>2 DEF DrainMissing
    <3> QED BY <2>2, <3>1, <3>2 DEF DrainMissing, clientVars, wireVars
  <2>3. ASSUME NEW t \in Token, DrainCorrupt(s, t) PROVE LocalTypeOK'
    <3>1. [drain[s] EXCEPT !.found = @ \ {t}] \in DrainType
      BY DEF DrainType
    <3>2. drain' = [drain EXCEPT ![s] = [drain[s] EXCEPT !.found = @ \ {t}]]
      BY <2>3 DEF DrainCorrupt
    <3> QED BY <2>3, <3>1, <3>2 DEF DrainCorrupt, clientVars, wireVars
  <2>4. ASSUME NEW t \in Token, DrainSend(s, t) PROVE LocalTypeOK'
    <3>1. sent[s] \cup {t} \in SUBSET Token /\ [drain[s] EXCEPT !.list[t] = 0] \in DrainType
      BY UnlistTyped
    <3>2. /\ sent' = [sent EXCEPT ![s] = sent[s] \cup {t}]
          /\ drain' = [drain EXCEPT ![s] = [drain[s] EXCEPT !.list[t] = 0]]
      BY <2>4 DEF DrainSend
    <3> QED BY <2>4, <3>1, <3>2 DEF DrainSend, clientVars
  <2>5. CASE ClosePrevious(s)
    BY <2>5 DEF ClosePrevious, DrainType, clientVars
  <2>6. CASE DrainList(s)
    <3>1. [drain[s] EXCEPT !.pc = "fetch", !.list = q.index] \in DrainType
      BY ListTyped
    <3>2. drain' = [drain EXCEPT ![s] = [drain[s] EXCEPT !.pc = "fetch", !.list = q.index]]
      BY <2>6 DEF DrainList
    <3> QED BY <2>6, <3>1, <3>2 DEF DrainList, clientVars, wireVars
  <2>8. CASE DrainFetch(s)
    <3> DEFINE found == {t \in Token : drain[s].list[t] # 0 /\ Held(t)}
    <3>1. [drain[s] EXCEPT !.pc = "send", !.found = found] \in DrainType
      BY FetchTyped
    <3>2. drain' = [drain EXCEPT ![s] = [drain[s] EXCEPT !.pc = "send", !.found = found]]
      BY <2>8 DEF DrainFetch
    <3> HIDE DEF found
    <3> QED BY <2>8, <3>1, <3>2 DEF DrainFetch, clientVars, wireVars
  <2>7. CASE DrainEnd(s)
    BY <2>7 DEF DrainEnd, DrainType, NoDrain, NoList, clientVars, wireVars
  <2> QED BY <1>4, <2>1, <2>2, <2>3, <2>4, <2>5, <2>6, <2>7, <2>8 DEF Drain
<1>5. ASSUME NEW s \in Session, Connect(s) PROVE LocalTypeOK'
  BY <1>0, <1>5 DEF Connect, NoDrain, NoList, DrainType, clientVars
<1>6. ASSUME NEW s \in Session, Refuse(s) \/ Disconnect(s) \/ Remove(s) PROVE LocalTypeOK'
  <2> USE <1>0
  <2>0. [drain[s] EXCEPT !.pc = "removed"] \in DrainType
    BY DEF DrainType
  <2>1. CASE Refuse(s)
    BY <2>0, <2>1 DEF Refuse, clientVars
  <2>2. CASE Disconnect(s)
    BY <2>2 DEF Disconnect, serverVars, clientVars
  <2>3. CASE Remove(s)
    BY <2>0, <2>3 DEF Remove, clientVars, wireVars
  <2> QED BY <1>6, <2>1, <2>2, <2>3
<1>7. ASSUME NEW s \in Session, DrainError(s) PROVE LocalTypeOK'
  BY <1>0, <1>7 DEF DrainError, NoDrain, NoList, DrainType, clientVars, wireVars
<1>8. ASSUME NEW t \in Token, Persist(t) PROVE LocalTypeOK'
  BY <1>0, <1>8 DEF Persist, serverVars, wireVars
<1>9. ASSUME NEW s \in Session, NEW t \in Token,
             SendAck(s, t) \/ ServerAck(s, t) \/ LoseAck(s, t)
      PROVE  LocalTypeOK'
  BY <1>0, <1>9 DEF SendAck, ServerAck, LoseAck, serverVars, wireVars
<1>10. CASE TimePasses \/ UNCHANGED vars
  BY <1>0, <1>10 DEF TimePasses, vars, serverVars, clientVars, wireVars
<1> QED BY <1>2, <1>3, <1>4, <1>5, <1>6, <1>7, <1>8, <1>9, <1>10 DEF Next

\* An ACK is sent only for what is durable, and durability is for good.
LEMMA AcksStep ==
    ASSUME DeliveryInv, [Next]_vars
    PROVE  AcksInv'
<1>0. AcksInv
  BY DEF DeliveryInv
<1>1. ASSUME UNCHANGED clientVars PROVE AcksInv'
  BY <1>0, <1>1 DEF clientVars, AcksInv
<1>2. CASE \E t \in Token : Persist(t)
  BY <1>0, <1>2 DEF Persist, AcksInv
<1>3. CASE \E s \in Session, t \in Token : SendAck(s, t) \/ ServerAck(s, t) \/ LoseAck(s, t)
  BY <1>0, <1>3 DEF SendAck, ServerAck, LoseAck, AcksInv
<1>4. CASE \E s \in Session : Drain(s) \/ DrainError(s)
  BY <1>1, <1>4 DEF Drain, ClosePrevious, DrainPurge, DrainList, DrainFetch, DrainMissing,
       DrainCorrupt, DrainSend, DrainEnd, DrainError
<1>5. CASE \/ \E h \in Handler, t \in Token, size \in Sizes, cutoff \in Cutoffs :
                RouteQueue(h, t, size, cutoff) \/ RouteQueueFails(h, t, size, cutoff)
           \/ \E h \in Handler : Route(h)
  BY <1>1, <1>5 DEF RouteQueue, RouteQueueFails, Route, RouteLookup, RouteSend
<1>6. CASE \/ \E s \in Session : Connect(s) \/ Refuse(s) \/ Disconnect(s) \/ Remove(s)
           \/ TimePasses
           \/ UNCHANGED vars
  BY <1>1, <1>6 DEF Connect, Refuse, Disconnect, Remove, TimePasses, vars, clientVars
<1> QED BY <1>2, <1>3, <1>4, <1>5, <1>6 DEF Next

-----------------------------------------------------------------------------
(* No wake-up is lost.                                                     *)

\* A step that adds nothing to the queue and leaves the socket in place finds
\* waiting only what was waiting already.
LEMMA StillWaiting ==
    ASSUME DeliveryInv, Shrinks \/ UNCHANGED queueVars,
           NEW s \in Session, NEW t \in Token \ Corrupt,
           conn' = conn, sock'[s] = sock[s], Waiting(s, t)'
    PROVE  Covered(s, t)
<1>1. conn = s /\ sock[s] = "open"
  BY DEF Waiting
<1>2. q'.item[t].size # 0 /\ q'.index[t] # 0
  BY DEF Waiting, Held, Indexed
<1>3. q.item[t].size # 0 /\ q.index[t] # 0
  <2>1. CASE Shrinks
    BY <1>2, <2>1 DEF Shrinks, Absent
  <2>2. CASE UNCHANGED queueVars
    BY <1>2, <2>2 DEF queueVars
  <2> QED BY <2>1, <2>2
<1> QED BY <1>1, <1>3 DEF DeliveryInv, WakeupInv, Waiting, Held, Indexed

\* Whoever is on the way stays so while the handlers do not move.
LEMMA UnderwayKept ==
    ASSUME NEW s \in Session, NEW t \in Token, handler' = handler, Underway(t, s)
    PROVE  Underway(t, s)'
  BY DEF Underway

\* The handlers.
LEMMA WakeupRoute ==
    ASSUME DeliveryInv,
           NEW h \in Handler,
           \/ RouteLookup(h) \/ RouteSend(h)
           \/ \E t \in Token, size \in Sizes, cutoff \in Cutoffs :
                RouteQueue(h, t, size, cutoff) \/ RouteQueueFails(h, t, size, cutoff)
    PROVE  WakeupInv'
<1> SUFFICES ASSUME NEW s \in Session, NEW u \in Token \ Corrupt, Waiting(s, u)'
             PROVE  Covered(s, u)'
  BY DEF WakeupInv
<1>0. LocalTypeOK /\ CustodyInv
  BY DEF DeliveryInv
<1>1. ASSUME NEW t \in Token, NEW size \in Sizes, NEW cutoff \in Cutoffs,
             RouteQueue(h, t, size, cutoff)
      PROVE  Covered(s, u)'
  <2>1. Enqueue(t, size, cutoff) /\ conn' = conn /\ sock' = sock /\ drain' = drain /\ sent' = sent
    BY <1>1 DEF RouteQueue, wireVars
  <2>2. CASE u = t /\ EnqueueAccepts(q, t, size, cutoff)
    <3>1. handler'[h] = [pc |-> "queued", token |-> {t}, to |-> NoSession]
      BY <1>0, <1>1, <2>2 DEF RouteQueue, LocalTypeOK
    <3> QED BY <2>2, <3>1 DEF Covered, Underway
  <2>3. CASE u # t \/ ~EnqueueAccepts(q, t, size, cutoff)
    <3>1. Held(u) /\ Indexed(u)
      BY <1>0, <2>1, <2>3, EnqueueEffect DEF Waiting
    <3>2. Covered(s, u)
      BY <2>1, <3>1 DEF DeliveryInv, WakeupInv, Waiting
    <3>3. ASSUME Underway(u, s) PROVE Underway(u, s)'
      <4>1. PICK g \in Handler : /\ u \in handler[g].token
                                 /\ \/ handler[g].pc = "queued"
                                    \/ handler[g].pc = "sending" /\ handler[g].to = s
        BY <3>3 DEF Underway
      <4>2. g # h /\ handler'[g] = handler[g]
        BY <1>0, <1>1, <4>1 DEF RouteQueue, LocalTypeOK
      <4> QED BY <4>1, <4>2 DEF Underway
    <3>4. u \in unanswered => u \in unanswered'
      BY <1>1, <2>3 DEF RouteQueue
    <3> QED BY <2>1, <3>2, <3>3, <3>4 DEF Covered
  <2> QED BY <2>2, <2>3
<1>4. ASSUME NEW t \in Token, NEW size \in Sizes, NEW cutoff \in Cutoffs,
             RouteQueueFails(h, t, size, cutoff)
      PROVE  Covered(s, u)'
  <2>1. /\ Enqueue(t, size, cutoff) /\ conn' = conn /\ sock' = sock /\ drain' = drain
        /\ sent' = sent /\ handler' = handler /\ unanswered \subseteq unanswered'
    BY <1>4 DEF RouteQueueFails, wireVars
  <2>2. CASE u \in unanswered'
    BY <2>2 DEF Covered
  <2>3. CASE u \notin unanswered'
    <3>1. Held(u) /\ Indexed(u)
      <4>1. CASE u # t
        BY <1>0, <2>1, <4>1, EnqueueEffect DEF Waiting
      <4>2. CASE u = t
        <5>1. Held(t)
          BY <1>4, <2>3, <4>2 DEF RouteQueueFails, Waiting
        <5>2. q' = q
          BY <2>1, <5>1 DEF Enqueue, EnqueueScript, Held
        <5> QED BY <4>2, <5>2 DEF Waiting, Held, Indexed
      <4> QED BY <4>1, <4>2
    <3>2. Covered(s, u)
      BY <2>1, <3>1 DEF DeliveryInv, WakeupInv, Waiting
    <3> QED BY <2>1, <3>2, UnderwayKept DEF Covered
  <2> QED BY <2>2, <2>3
<1>2. CASE RouteLookup(h)
  <2>1. /\ UNCHANGED queueVars /\ conn' = conn /\ sock' = sock /\ drain' = drain
        /\ sent' = sent /\ unanswered' = unanswered
    BY <1>2 DEF RouteLookup, wireVars
  <2>2. Covered(s, u) /\ conn = s /\ conn # NoSession
    BY <2>1, StillWaiting, SessionAssumption DEF Waiting
  <2>3. ASSUME Underway(u, s) PROVE Underway(u, s)'
    <3>1. PICK g \in Handler : /\ u \in handler[g].token
                               /\ \/ handler[g].pc = "queued"
                                  \/ handler[g].pc = "sending" /\ handler[g].to = s
      BY <2>3 DEF Underway
    <3>2. handler'[h] = [handler[h] EXCEPT !.pc = "sending", !.to = conn]
      BY <1>0, <1>2, <2>2 DEF RouteLookup, LocalTypeOK
    <3>3. /\ handler'[h].pc = "sending" /\ handler'[h].to = s
          /\ handler'[h].token = handler[h].token
      BY <1>0, <2>2, <3>2 DEF LocalTypeOK, CallType
    <3>4. g # h => handler'[g] = handler[g]
      BY <1>0, <1>2 DEF RouteLookup, LocalTypeOK
    <3> QED BY <3>1, <3>3, <3>4 DEF Underway
  <2> QED BY <2>1, <2>2, <2>3 DEF Covered
<1>3. CASE RouteSend(h)
  <2>1. /\ UNCHANGED queueVars /\ conn' = conn /\ sock' = sock /\ drain' = drain
        /\ unanswered' = unanswered
    BY <1>3 DEF RouteSend
  <2>2. Covered(s, u) /\ sock[s] = "open"
    BY <2>1, StillWaiting DEF Waiting
  <2>3. sent[s] \subseteq sent'[s]
    BY <1>0, <1>3 DEF RouteSend, LocalTypeOK
  <2>4. ASSUME Underway(u, s) PROVE Underway(u, s)' \/ u \in sent'[s]
    <3>1. PICK g \in Handler : /\ u \in handler[g].token
                               /\ \/ handler[g].pc = "queued"
                                  \/ handler[g].pc = "sending" /\ handler[g].to = s
      BY <2>4 DEF Underway
    <3>2. CASE g # h
      <4>1. handler'[g] = handler[g]
        BY <1>0, <1>3, <3>2 DEF RouteSend, LocalTypeOK
      <4> QED BY <3>1, <4>1 DEF Underway
    <3>3. CASE g = h
      <4>1. handler[h].to = s
        BY <1>3, <3>1, <3>3 DEF RouteSend
      <4> QED BY <1>0, <1>3, <2>2, <3>1, <3>3, <4>1 DEF RouteSend, LocalTypeOK
    <3> QED BY <3>2, <3>3
  <2> QED BY <2>1, <2>2, <2>3, <2>4 DEF Covered
<1> QED BY <1>1, <1>2, <1>3, <1>4

\* The drain of socket s, seen from the registered socket c.
LEMMA WakeupDrain ==
    ASSUME DeliveryInv, NEW s \in Session, Drain(s) \/ DrainError(s)
    PROVE  WakeupInv'
<1> SUFFICES ASSUME NEW c \in Session, NEW u \in Token \ Corrupt, Waiting(c, u)'
             PROVE  Covered(c, u)'
  BY DEF WakeupInv
<1>0. LocalTypeOK /\ CustodyInv /\ drain[s] \in DrainType /\ drain[c] \in DrainType
  BY DEF DeliveryInv, LocalTypeOK
<1>1. conn' = conn /\ handler' = handler /\ (\A d \in Session \ {s} : drain'[d] = drain[d])
      /\ sent[c] \subseteq sent'[c] /\ sock'[c] = sock[c]
  <2>1. CASE ClosePrevious(s)
    BY <1>0, <2>1 DEF ClosePrevious, LocalTypeOK, Waiting
  <2>2. CASE \E t \in Token : DrainSend(s, t)
    BY <1>0, <2>2 DEF DrainSend, LocalTypeOK
  <2>3. CASE DrainError(s) \/ DrainList(s) \/ DrainFetch(s) \/ DrainEnd(s)
             \/ \E cutoff \in Cutoffs : DrainPurge(s, cutoff)
    BY <1>0, <2>3 DEF DrainError, DrainList, DrainFetch, DrainEnd, DrainPurge, wireVars, LocalTypeOK
  <2>4. CASE \E t \in Token : DrainMissing(s, t) \/ DrainCorrupt(s, t)
    BY <1>0, <2>4 DEF DrainMissing, DrainCorrupt, wireVars, LocalTypeOK
  <2> QED BY <2>1, <2>2, <2>3, <2>4 DEF Drain
<1>2. Shrinks \/ UNCHANGED queueVars
  <2>1. CASE \E cutoff \in Cutoffs : DrainPurge(s, cutoff)
    BY <1>0, <2>1, PurgeShrinks DEF DrainPurge
  <2>2. CASE \E t \in Token : DrainMissing(s, t)
    BY <1>0, <2>2, MissingShrinks DEF DrainMissing
  <2>3. CASE \E t \in Token : DrainCorrupt(s, t)
    BY <1>0, <2>3, CorruptShrinks DEF DrainCorrupt
  <2>4. CASE ClosePrevious(s) \/ DrainList(s) \/ DrainFetch(s) \/ DrainEnd(s) \/ DrainError(s)
             \/ \E t \in Token : DrainSend(s, t)
    BY <2>4 DEF ClosePrevious, DrainList, DrainFetch, DrainEnd, DrainError, DrainSend
  <2> QED BY <2>1, <2>2, <2>3, <2>4 DEF Drain
<1>3. Covered(c, u)
  BY <1>1, <1>2, StillWaiting
<1>4. q'.item[u].size # 0 /\ q'.index[u] # 0
  BY DEF Waiting, Held, Indexed
<1>5. q.item[u].size # 0 /\ q.index[u] # 0
  <2>1. CASE Shrinks
    BY <1>4, <2>1 DEF Shrinks, Absent
  <2>2. CASE UNCHANGED queueVars
    BY <1>4, <2>2 DEF queueVars
  <2> QED BY <1>2, <2>1, <2>2
<1>6. CASE u \in sent[c] \/ Underway(u, c)
  BY <1>1, <1>6, UnderwayKept DEF Covered
<1>9. unanswered' = unanswered \/ (DrainList(s) /\ conn = s)
  BY DEF Drain, ClosePrevious, DrainPurge, DrainList, DrainFetch, DrainMissing, DrainCorrupt,
     DrainSend, DrainEnd, DrainError
<1>7. CASE c # s
  <2>1. unanswered' = unanswered
    BY <1>1, <1>7, <1>9 DEF Waiting
  <2> QED BY <1>1, <1>3, <1>7, <2>1, UnderwayKept DEF Covered
<1>10. CASE c = s /\ DrainList(s)
  <2>1. drain'[s] = [drain[s] EXCEPT !.pc = "fetch", !.list = q.index]
    BY <1>0, <1>10 DEF DrainList, LocalTypeOK
  <2>2. q.index \in [Token -> Nat]
    BY <1>0 DEF CustodyInv, KeptQueue, QueueType
  <2>3. drain'[s].pc = "fetch" /\ drain'[s].list = q.index
    BY <1>0, <2>1 DEF DrainType
  <2> QED BY <1>5, <1>10, <2>3 DEF Covered
<1>11. CASE u \in unanswered'
  BY <1>11 DEF Covered
<1>8. ASSUME c = s, u \notin sent[c], ~Underway(u, c), u \notin unanswered
      PROVE  Covered(c, u)'
  <2>0. \/ drain[s].pc \in {"closing", "purge", "list", "failed"}
        \/ drain[s].pc = "fetch" /\ drain[s].list[u] # 0
        \/ drain[s].pc = "send" /\ drain[s].list[u] # 0 /\ u \in drain[s].found
    BY <1>3, <1>8 DEF Covered
  <2>1. CASE ClosePrevious(s)
    <3>1. drain'[s] = [drain[s] EXCEPT !.pc = "purge"]
      BY <1>0, <2>1 DEF ClosePrevious, LocalTypeOK
    <3>2. drain'[s].pc = "purge"
      BY <1>0, <3>1 DEF DrainType
    <3> QED BY <1>8, <3>2 DEF Covered
  <2>2. CASE \E cutoff \in Cutoffs : DrainPurge(s, cutoff)
    <3>1. drain'[s] = [drain[s] EXCEPT !.pc = "list"]
      BY <1>0, <2>2 DEF DrainPurge, LocalTypeOK
    <3>2. drain'[s].pc = "list"
      BY <1>0, <3>1 DEF DrainType
    <3> QED BY <1>8, <3>2 DEF Covered
  <2>3. CASE DrainList(s)
    BY <1>8, <1>10, <2>3
  <2>4. CASE DrainFetch(s)
    <3> DEFINE found == {t \in Token : drain[s].list[t] # 0 /\ Held(t)}
    <3>1. drain'[s] = [drain[s] EXCEPT !.pc = "send", !.found = found]
      BY <1>0, <2>4 DEF DrainFetch, LocalTypeOK
    <3>2. drain[s].pc = "fetch" /\ drain[s].list[u] # 0 /\ found \in SUBSET Token
      BY <2>0, <2>4 DEF DrainFetch
    <3>3. u \in found
      BY <1>5, <3>2 DEF Held
    <3> HIDE DEF found
    <3>4. drain'[s].pc = "send" /\ drain'[s].list = drain[s].list /\ drain'[s].found = found
      BY <1>0, <3>1 DEF DrainType
    <3> QED BY <1>8, <3>2, <3>3, <3>4 DEF Covered
  <2>5. ASSUME NEW t \in Token, DrainMissing(s, t) PROVE Covered(c, u)'
    <3>1. q'.index[t] = 0
      BY <1>0, <2>5, MissingShrinks DEF DrainMissing
    <3>2. u # t
      BY <1>4, <3>1
    <3>3. drain'[s] = [drain[s] EXCEPT !.list[t] = 0]
      BY <1>0, <2>5 DEF DrainMissing, LocalTypeOK
    <3>4. /\ drain'[s].pc = drain[s].pc /\ drain'[s].found = drain[s].found
          /\ drain'[s].list[u] = drain[s].list[u]
      BY <1>0, <3>2, <3>3, UnlistTyped DEF DrainType
    <3> QED BY <1>8, <2>0, <3>4 DEF Covered
  <2>6. ASSUME NEW t \in Token, DrainCorrupt(s, t) PROVE Covered(c, u)'
    <3>1. u # t
      BY <2>6 DEF DrainCorrupt, Discard
    <3>2. drain'[s] = [drain[s] EXCEPT !.found = @ \ {t}]
      BY <1>0, <2>6 DEF DrainCorrupt, LocalTypeOK
    <3>3. /\ drain'[s].pc = drain[s].pc /\ drain'[s].list = drain[s].list
          /\ drain'[s].found = drain[s].found \ {t}
      BY <1>0, <3>2, ForgetTyped
    <3> QED BY <1>8, <2>0, <3>1, <3>3 DEF Covered
  <2>7. ASSUME NEW t \in Token, DrainSend(s, t) PROVE Covered(c, u)'
    <3>1. CASE u = t
      <4>1. u \in sent'[s]
        BY <1>0, <2>7, <3>1 DEF DrainSend, LocalTypeOK
      <4> QED BY <1>8, <4>1 DEF Covered
    <3>2. CASE u # t
      <4>1. drain'[s] = [drain[s] EXCEPT !.list[t] = 0]
        BY <1>0, <2>7 DEF DrainSend, LocalTypeOK
      <4>2. /\ drain'[s].pc = drain[s].pc /\ drain'[s].found = drain[s].found
            /\ drain'[s].list[u] = drain[s].list[u]
        BY <1>0, <3>2, <4>1, UnlistTyped DEF DrainType
      <4> QED BY <1>8, <2>0, <4>2 DEF Covered
    <3> QED BY <3>1, <3>2
  <2>8. CASE DrainEnd(s)
    <3>1. drain[s].list[u] # 0
      BY <2>0, <2>8 DEF DrainEnd
    <3>2. sock[s] = "open"
      BY <1>1, <1>8 DEF Waiting
    <3> QED BY <2>8, <3>1, <3>2 DEF DrainEnd, NoList
  <2>9. CASE DrainError(s)
    <3>1. drain'[s] = [NoDrain EXCEPT !.pc = "failed"]
      BY <1>0, <2>9 DEF DrainError, LocalTypeOK
    <3>2. drain'[s].pc = "failed"
      BY <3>1 DEF NoDrain
    <3> QED BY <1>8, <3>2 DEF Covered
  <2> QED BY <2>1, <2>2, <2>3, <2>4, <2>5, <2>6, <2>7, <2>8, <2>9 DEF Drain
<1> QED BY <1>6, <1>7, <1>8, <1>9, <1>10, <1>11

\* The sockets' own life.
LEMMA WakeupSocket ==
    ASSUME DeliveryInv, NEW s \in Session,
           Connect(s) \/ Refuse(s) \/ Disconnect(s) \/ Remove(s)
    PROVE  WakeupInv'
<1> SUFFICES ASSUME NEW c \in Session, NEW u \in Token \ Corrupt, Waiting(c, u)'
             PROVE  Covered(c, u)'
  BY DEF WakeupInv
<1>0. LocalTypeOK /\ conn' = c /\ sock'[c] = "open"
  BY DEF DeliveryInv, Waiting
<1>1. UNCHANGED queueVars /\ handler' = handler /\ sent' = sent /\ unanswered' = unanswered
  BY DEF Connect, Refuse, Disconnect, Remove, serverVars, wireVars
<1>2. CASE Connect(s)
  <2>1. c = s /\ drain'[s] = [NoDrain EXCEPT !.pc = "closing", !.prev = conn]
    BY <1>0, <1>2 DEF Connect, LocalTypeOK
  <2>2. drain'[s].pc = "closing"
    BY <2>1 DEF NoDrain
  <2> QED BY <2>1, <2>2 DEF Covered
<1>3. CASE Refuse(s) \/ Disconnect(s) \/ Remove(s)
  <2>1. c # s
    BY <1>0, <1>3, SessionAssumption DEF Refuse, Disconnect, Remove, LocalTypeOK, wireVars
  <2>2. conn' = conn
    BY <1>0, <1>3, SessionAssumption DEF Refuse, Disconnect, Remove, serverVars
  <2>3. sock'[c] = sock[c] /\ drain'[c] = drain[c]
    BY <1>0, <1>3, <2>1 DEF Refuse, Disconnect, Remove, LocalTypeOK, serverVars, wireVars
  <2>4. Covered(c, u)
    BY <1>1, <2>2, <2>3, StillWaiting
  <2> QED BY <1>1, <2>3, <2>4, UnderwayKept DEF Covered
<1> QED BY <1>2, <1>3

LEMMA WakeupStep ==
    ASSUME DeliveryInv, [Next]_vars
    PROVE  WakeupInv'
<1>1. CASE \/ \E h \in Handler, t \in Token, size \in Sizes, cutoff \in Cutoffs :
                RouteQueue(h, t, size, cutoff) \/ RouteQueueFails(h, t, size, cutoff)
           \/ \E h \in Handler : Route(h)
  BY <1>1, WakeupRoute DEF Route
<1>2. CASE \E s \in Session : Connect(s) \/ Refuse(s) \/ Disconnect(s) \/ Remove(s)
  BY <1>2, WakeupSocket
<1>3. CASE \E s \in Session : Drain(s) \/ DrainError(s)
  BY <1>3, WakeupDrain
<1>4. ASSUME Shrinks \/ UNCHANGED queueVars, UNCHANGED <<serverVars, wireVars, unanswered>>
      PROVE  WakeupInv'
  <2> SUFFICES ASSUME NEW c \in Session, NEW u \in Token \ Corrupt, Waiting(c, u)'
               PROVE  Covered(c, u)'
    BY DEF WakeupInv
  <2>1. /\ conn' = conn /\ handler' = handler /\ sent' = sent /\ sock' = sock /\ drain' = drain
        /\ unanswered' = unanswered
    BY <1>4 DEF serverVars, wireVars
  <2>2. Covered(c, u)
    BY <1>4, <2>1, StillWaiting
  <2> QED BY <2>1, <2>2, UnderwayKept DEF Covered
<1>5. CASE \/ \E t \in Token : Persist(t)
           \/ \E s \in Session, t \in Token : SendAck(s, t) \/ LoseAck(s, t)
           \/ UNCHANGED vars
  BY <1>4, <1>5 DEF Persist, SendAck, LoseAck, vars, queueVars, serverVars, wireVars
<1>6. CASE \E s \in Session, t \in Token : ServerAck(s, t)
  BY <1>4, <1>6, AckShrinks DEF ServerAck, DeliveryInv
<1>7. CASE TimePasses
  BY <1>4, <1>7, TickShrinks DEF TimePasses, DeliveryInv
<1> QED BY <1>1, <1>2, <1>3, <1>5, <1>6, <1>7 DEF Next

LEMMA DeliveryStep == DeliveryInv /\ [Next]_vars => DeliveryInv'
  BY CustodyStep, TypeStep, AcksStep, WakeupStep DEF DeliveryInv

LEMMA DeliveryAlways == Spec => []DeliveryInv
  BY DeliveryInit, DeliveryStep, PTL DEF Spec

\* routeMessage, addConnection, removeConnection, the drain and the ACKs keep
\* every variable in its type.
THEOREM DeliveryTypes == Spec => []TypeOK
<1>1. DeliveryInv => TypeOK
  BY DEF DeliveryInv, CustodyInv, LocalTypeOK, KeptQueue, TypeOK, QueueTypeOK
<1> QED BY <1>1, DeliveryAlways, PTL

\* However many handlers route, whichever replies Redis loses and however often
\* the recipient reconnects, a waiting ciphertext has reached the live, drained
\* socket, is on its way, or was stored by an enqueue whose reply was lost.
THEOREM WakeupSafe == Spec => []NoLostWakeup
<1>1. DeliveryInv => NoLostWakeup
  BY DEF DeliveryInv, WakeupInv, Waiting, Covered, NoLostWakeup, Serving
<1> QED BY <1>1, DeliveryAlways, PTL

-----------------------------------------------------------------------------
(* Who may take over the map entry.                                        *)

LEMMA ConnectionSteps ==
    ASSUME [Next]_vars, conn' # conn
    PROVE  \E s \in Session : \/ Connect(s)
                              \/ Remove(s) /\ conn = s /\ conn' = NoSession
<1>1. CASE \E s \in Session : Drain(s) \/ DrainError(s)
  BY <1>1 DEF Drain, ClosePrevious, DrainPurge, DrainList, DrainFetch, DrainMissing,
       DrainCorrupt, DrainSend, DrainEnd, DrainError
<1>2. CASE \/ \E h \in Handler, t \in Token, size \in Sizes, cutoff \in Cutoffs :
                RouteQueue(h, t, size, cutoff) \/ RouteQueueFails(h, t, size, cutoff)
           \/ \E h \in Handler : Route(h)
  BY <1>2 DEF RouteQueue, RouteQueueFails, Route, RouteLookup, RouteSend
<1>3. CASE \E s \in Session : Connect(s) \/ Refuse(s) \/ Disconnect(s) \/ Remove(s)
  BY <1>3 DEF Refuse, Disconnect, Remove, serverVars
<1>4. CASE \/ \E t \in Token : Persist(t)
           \/ \E s \in Session, t \in Token : SendAck(s, t) \/ ServerAck(s, t) \/ LoseAck(s, t)
           \/ TimePasses
           \/ UNCHANGED vars
  BY <1>4 DEF Persist, SendAck, ServerAck, LoseAck, TimePasses, serverVars, vars
<1> QED BY <1>1, <1>2, <1>3, <1>4 DEF Next

\* removeConnection takes an entry out only when that very socket is closed.
THEOREM LiveSessionSafe == Spec => LiveSessionKept
<1>1. [Next]_vars => [(conn \in Session /\ conn' = NoSession) => sock[conn] = "closed"]_vars
  BY ConnectionSteps, SessionAssumption DEF Connect, Remove
<1> QED BY <1>1, PTL DEF Spec, LiveSessionKept

\* A socket that was not dialled yet displaces nobody.
FreshInv == \A s \in Session : sock[s] = "fresh" => drain[s].pc = "none"

SocketInv == FreshInv /\ NoForgottenSocket

\* A step that leaves the sockets alone and moves one drain that is past
\* closing forgets nobody, even when it takes its own closed socket out.
LEMMA DrainForgetsNone ==
    ASSUME SocketInv, LocalTypeOK, NEW s \in Session, sock' = sock,
           \A d \in Session \ {s} : drain'[d] = drain[d],
           drain[s].pc \notin {"none", "closing"},
           conn' = conn \/ (conn = s /\ sock[s] = "closed")
    PROVE  SocketInv'
<1>1. FreshInv'
  BY DEF SocketInv, FreshInv
<1>2. NoForgottenSocket'
  <2> SUFFICES ASSUME NEW c \in Session, sock[c] = "open", conn' # c
               PROVE  \E x \in Session \ {c} : drain'[x].pc = "closing" /\ drain'[x].prev = c
    BY DEF NoForgottenSocket
  <2>1. conn # c
    OBVIOUS
  <2>2. PICK x \in Session \ {c} : drain[x].pc = "closing" /\ drain[x].prev = c
    BY <2>1 DEF SocketInv, NoForgottenSocket
  <2>3. drain'[x] = drain[x]
    BY <2>2
  <2> QED BY <2>2, <2>3
<1> QED BY <1>1, <1>2 DEF SocketInv

\* A socket leaves the map closed, or remembered by the one that took its
\* place; and whoever remembers it closes it before doing anything else.
LEMMA SocketStep ==
    ASSUME LocalTypeOK, SocketInv, [Next]_vars
    PROVE  SocketInv'
<1>0. FreshInv /\ NoForgottenSocket
  BY DEF SocketInv
<1>1. ASSUME NEW s \in Session, Connect(s) PROVE SocketInv'
  <2>1. /\ sock[s] = "fresh" /\ conn' = s /\ sock' = [sock EXCEPT ![s] = "open"]
        /\ drain' = [drain EXCEPT ![s] = [NoDrain EXCEPT !.pc = "closing", !.prev = conn]]
    BY <1>1 DEF Connect
  <2>2. /\ drain'[s].pc = "closing" /\ drain'[s].prev = conn /\ sock'[s] = "open"
        /\ \A d \in Session \ {s} : drain'[d] = drain[d] /\ sock'[d] = sock[d]
    BY <2>1 DEF LocalTypeOK, NoDrain
  <2>3. FreshInv'
    BY <1>0, <2>2 DEF FreshInv
  <2>4. ASSUME NEW c \in Session, sock'[c] = "open", c # s
        PROVE  \E x \in Session \ {c} : drain'[x].pc = "closing" /\ drain'[x].prev = c
    <3>1. CASE conn = c
      BY <2>2, <2>4, <3>1
    <3>2. CASE conn # c
      <4>1. PICK x \in Session \ {c} : drain[x].pc = "closing" /\ drain[x].prev = c
        BY <1>0, <2>2, <2>4, <3>2 DEF NoForgottenSocket
      <4>2. x # s
        BY <1>0, <2>1, <4>1 DEF FreshInv
      <4> QED BY <2>2, <4>1, <4>2
    <3> QED BY <3>1, <3>2
  <2>5. NoForgottenSocket'
    BY <2>1, <2>4 DEF NoForgottenSocket
  <2> QED BY <2>3, <2>5 DEF SocketInv
<1>2. ASSUME NEW s \in Session, Refuse(s) PROVE SocketInv'
  <2>1. /\ sock[s] = "fresh" /\ conn' = conn /\ sock' = [sock EXCEPT ![s] = "closed"]
        /\ drain' = [drain EXCEPT ![s].pc = "removed"]
    BY <1>2 DEF Refuse
  <2>2. /\ sock'[s] = "closed" /\ drain[s].pc = "none"
        /\ \A d \in Session \ {s} : drain'[d] = drain[d] /\ sock'[d] = sock[d]
    BY <1>0, <2>1 DEF LocalTypeOK, FreshInv
  <2>3. FreshInv'
    BY <1>0, <2>2 DEF FreshInv
  <2>4. NoForgottenSocket'
    <3> SUFFICES ASSUME NEW c \in Session, sock'[c] = "open", conn' # c
                 PROVE  \E x \in Session \ {c} : drain'[x].pc = "closing" /\ drain'[x].prev = c
      BY DEF NoForgottenSocket
    <3>1. PICK x \in Session \ {c} : drain[x].pc = "closing" /\ drain[x].prev = c
      BY <1>0, <2>1, <2>2 DEF NoForgottenSocket
    <3> QED BY <2>2, <3>1
  <2> QED BY <2>3, <2>4 DEF SocketInv
<1>3. ASSUME NEW s \in Session, Disconnect(s) PROVE SocketInv'
  <2>1. /\ conn' = conn /\ drain' = drain
        /\ \A c \in Session : sock'[c] \in {"closed", sock[c]}
    BY <1>3 DEF Disconnect, serverVars, LocalTypeOK
  <2> QED BY <1>0, <2>1 DEF SocketInv, FreshInv, NoForgottenSocket
<1>4. ASSUME NEW s \in Session, ClosePrevious(s) PROVE SocketInv'
  <2>1. /\ conn' = conn /\ drain[s].pc = "closing"
        /\ \A d \in Session \ {s} : drain'[d] = drain[d]
        /\ \A c \in Session : sock'[c] = IF c = drain[s].prev THEN "closed" ELSE sock[c]
    BY <1>4 DEF ClosePrevious, LocalTypeOK
  <2>2. FreshInv'
    BY <1>0, <2>1 DEF FreshInv
  <2>3. NoForgottenSocket'
    <3> SUFFICES ASSUME NEW c \in Session, sock'[c] = "open", conn' # c
                 PROVE  \E x \in Session \ {c} : drain'[x].pc = "closing" /\ drain'[x].prev = c
      BY DEF NoForgottenSocket
    <3>1. PICK x \in Session \ {c} : drain[x].pc = "closing" /\ drain[x].prev = c
      BY <1>0, <2>1 DEF NoForgottenSocket
    <3>2. x # s
      BY <2>1, <3>1
    <3> QED BY <2>1, <3>1, <3>2
  <2> QED BY <2>2, <2>3 DEF SocketInv
<1>5. ASSUME NEW s \in Session, Remove(s) PROVE SocketInv'
  <2>1. /\ sock' = sock /\ sock[s] = "closed" /\ drain[s].pc \notin {"none", "closing"}
        /\ \A d \in Session \ {s} : drain'[d] = drain[d]
        /\ conn' = conn \/ conn = s
    BY <1>5 DEF Remove, wireVars, LocalTypeOK
  <2> QED BY <2>1, DrainForgetsNone
<1>6. ASSUME NEW s \in Session, Drain(s) \/ DrainError(s), ~ClosePrevious(s)
      PROVE  SocketInv'
  <2>1. /\ sock' = sock /\ conn' = conn /\ drain[s].pc \notin {"none", "closing"}
        /\ \A d \in Session \ {s} : drain'[d] = drain[d]
    <3>1. CASE \E t \in Token : DrainMissing(s, t) \/ DrainCorrupt(s, t) \/ DrainSend(s, t)
      BY <3>1 DEF DrainMissing, DrainCorrupt, DrainSend, IsHead, wireVars, LocalTypeOK
    <3>2. CASE DrainList(s) \/ DrainFetch(s) \/ DrainEnd(s) \/ \E cutoff \in Cutoffs : DrainPurge(s, cutoff)
      BY <3>2 DEF DrainList, DrainFetch, DrainEnd, DrainPurge, wireVars, LocalTypeOK
    <3>3. CASE DrainError(s)
      BY <3>3 DEF DrainError, IsHead, wireVars, LocalTypeOK
    <3> QED BY <1>6, <3>1, <3>2, <3>3 DEF Drain
  <2> QED BY <2>1, DrainForgetsNone
<1>7. ASSUME sock' = sock, conn' = conn, drain' = drain PROVE SocketInv'
  BY <1>0, <1>7 DEF SocketInv, FreshInv, NoForgottenSocket
<1>8. CASE \/ \E h \in Handler, t \in Token, size \in Sizes, cutoff \in Cutoffs :
                RouteQueue(h, t, size, cutoff) \/ RouteQueueFails(h, t, size, cutoff)
           \/ \E h \in Handler : Route(h)
  BY <1>7, <1>8 DEF RouteQueue, RouteQueueFails, Route, RouteLookup, RouteSend, wireVars
<1>9. CASE \/ \E t \in Token : Persist(t)
           \/ \E s \in Session, t \in Token : SendAck(s, t) \/ ServerAck(s, t) \/ LoseAck(s, t)
           \/ TimePasses
           \/ UNCHANGED vars
  BY <1>7, <1>9 DEF Persist, SendAck, ServerAck, LoseAck, TimePasses, serverVars, wireVars, vars
<1> QED BY <1>1, <1>2, <1>3, <1>4, <1>5, <1>6, <1>8, <1>9 DEF Next

\* However many sockets the recipient dials and whenever each addConnection
\* goes on after its critical section, none stays open beside the registered
\* one without a coroutine that is about to close it.
THEOREM ForgottenSafe == Spec => []NoForgottenSocket
<1>1. Init => SocketInv
  BY DEF Init, SocketInv, FreshInv, NoForgottenSocket, NoDrain
<1>2. DeliveryInv /\ SocketInv /\ [Next]_vars => SocketInv'
  BY SocketStep DEF DeliveryInv
<1>3. SocketInv => NoForgottenSocket
  BY DEF SocketInv
<1> QED BY <1>1, <1>2, <1>3, DeliveryAlways, PTL DEF Spec

-----------------------------------------------------------------------------
(* Delivery implements AtLeastOnce.                                        *)

\* Steps that leave items, clock and durable messages alone are invisible.
LEMMA CustodyStutter ==
    ASSUME q'.item = q.item, now' = now, persisted' = persisted
    PROVE  UNCHANGED Custody!vars
  BY DEF Custody!vars

\* Replacing one item replaces one deadline.
LEMMA DeadlineUpdate ==
    ASSUME NEW a \in [Token -> ItemType], NEW b, NEW t \in Token, NEW i,
           b = [a EXCEPT ![t] = i]
    PROVE  [u \in Token |-> b[u].exp] = [[u \in Token |-> a[u].exp] EXCEPT ![t] = i.exp]
<1> DEFINE f == [u \in Token |-> a[u].exp]
           g == [u \in Token |-> b[u].exp]
<1>1. \A u \in Token : g[u] = IF u = t THEN i.exp ELSE f[u]
  OBVIOUS
<1>2. f = [u \in Token |-> f[u]] /\ g = [u \in Token |-> g[u]]
  OBVIOUS
<1> HIDE DEF f, g
<1>3. g = [f EXCEPT ![t] = i.exp]
  BY <1>1, <1>2
<1> QED BY <1>3 DEF f, g

\* Every step of the detailed specification is one of the abstract or none.
LEMMA CustodyRefines ==
    ASSUME DeliveryInv, [Next]_vars
    PROVE  [Custody!Next]_(Custody!vars)
<1>0. CustodyInv /\ q \in QueueType
  BY DEF DeliveryInv, CustodyInv, KeptQueue
<1>1. ASSUME NEW h \in Handler, NEW t \in Token, NEW size \in Sizes, NEW cutoff \in Cutoffs,
             RouteQueue(h, t, size, cutoff) \/ RouteQueueFails(h, t, size, cutoff)
      PROVE  [Custody!Next]_(Custody!vars)
  <2>1. /\ SameOrAdded(q.item, q'.item, t, size, now + TTL)
        /\ now' = now /\ persisted' = persisted
    BY <1>0, <1>1, EnqueueEffect DEF RouteQueue, RouteQueueFails, clientVars
  <2>2. CASE q'.item = q.item
    BY <2>1, <2>2, CustodyStutter
  <2>3. CASE /\ q.item[t] = Absent
             /\ q'.item = [q.item EXCEPT ![t] = [size |-> size, exp |-> now + TTL]]
    <3> DEFINE i == [size |-> size, exp |-> now + TTL]
    <3>0. q.item \in [Token -> ItemType] /\ i.exp = now + TTL /\ q.item[t].exp = 0
      BY <1>0, <2>3 DEF Absent, QueueType
    <3>1. [u \in Token |-> q'.item[u].exp] =
            [[u \in Token |-> q.item[u].exp] EXCEPT ![t] = now + TTL]
      <4>1. q'.item = [q.item EXCEPT ![t] = i]
        BY <2>3
      <4> HIDE DEF i
      <4> QED BY <3>0, <4>1, DeadlineUpdate
    <3>2. Custody!Accept(t)
      BY <2>1, <3>0, <3>1 DEF Custody!Accept
    <3> QED BY <3>2 DEF Custody!Next
  <2> QED BY <2>1, <2>2, <2>3 DEF SameOrAdded
<1>2. ASSUME NEW t \in Token, t \in persisted \cup Corrupt,
             q'.item = [q.item EXCEPT ![t] = Absent], now' = now, persisted' = persisted
      PROVE  [Custody!Next]_(Custody!vars)
  <2>1. [u \in Token |-> q'.item[u].exp] = [[u \in Token |-> q.item[u].exp] EXCEPT ![t] = 0]
    <3>1. q.item \in [Token -> ItemType] /\ Absent.exp = 0
      BY <1>0 DEF Absent, QueueType
    <3> QED BY <1>2, <3>1, DeadlineUpdate
  <2>2. Custody!Release(t)
    BY <1>2, <2>1 DEF Custody!Release
  <2> QED BY <2>2 DEF Custody!Next
<1>3. ASSUME NEW s \in Session, NEW t \in Token, DrainCorrupt(s, t)
      PROVE  [Custody!Next]_(Custody!vars)
  <2>1. t \in Corrupt /\ now' = now /\ persisted' = persisted
    BY <1>3 DEF DrainCorrupt, Discard, clientVars
  <2>2. q'.item = [q.item EXCEPT ![t] = Absent]
    BY <1>0, <1>3, CorruptShrinks DEF DrainCorrupt
  <2> QED BY <1>2, <2>1, <2>2
<1>4. ASSUME NEW s \in Session, NEW t \in Token, ServerAck(s, t)
      PROVE  [Custody!Next]_(Custody!vars)
  <2>1. t \in persisted /\ Ack(t) /\ persisted' = persisted
    BY <1>4 DEF ServerAck, DeliveryInv, AcksInv
  <2>2. q'.item = [q.item EXCEPT ![t] = Absent] /\ now' = now
    BY <1>0, <2>1, AckShrinks DEF Ack
  <2> QED BY <1>2, <2>1, <2>2
<1>5. CASE TimePasses
  <2>1. /\ now' = now + 1 /\ persisted' = persisted
        /\ q'.item = [t \in Token |-> IF q.item[t].exp <= now + 1 THEN Absent ELSE q.item[t]]
    BY <1>0, <1>5, TickShrinks DEF TimePasses, clientVars
  <2>2. \A t \in Token : q'.item[t].exp = IF q.item[t].exp <= now' THEN 0 ELSE q.item[t].exp
    BY <2>1 DEF Absent
  <2>3. Custody!Tick
    BY <2>1, <2>2 DEF Custody!Tick
  <2> QED BY <2>3 DEF Custody!Next
<1>6. ASSUME NEW t \in Token, Persist(t)
      PROVE  [Custody!Next]_(Custody!vars)
  <2>1. q' = q /\ now' = now /\ persisted' = persisted \cup {t}
    BY <1>6 DEF Persist, queueVars
  <2>2. Custody!Persist(t)
    BY <2>1 DEF Custody!Persist
  <2> QED BY <2>2 DEF Custody!Next
<1>7. ASSUME NEW s \in Session, Drain(s) \/ DrainError(s), \A t \in Token : ~DrainCorrupt(s, t)
      PROVE  [Custody!Next]_(Custody!vars)
  <2>1. CASE \E cutoff \in Cutoffs : DrainPurge(s, cutoff)
    BY <1>0, <2>1, PurgeShrinks, CustodyStutter DEF DrainPurge, Purge, clientVars
  <2>2. CASE \E t \in Token : DrainMissing(s, t)
    BY <1>0, <2>2, MissingShrinks, CustodyStutter DEF DrainMissing, clientVars
  <2>3. CASE ClosePrevious(s) \/ DrainList(s) \/ DrainFetch(s) \/ DrainEnd(s) \/ DrainError(s)
             \/ \E t \in Token : DrainSend(s, t)
    BY <2>3, CustodyStutter DEF ClosePrevious, DrainList, DrainFetch, DrainEnd, DrainError,
         DrainSend, queueVars, clientVars
  <2> QED BY <1>7, <2>1, <2>2, <2>3 DEF Drain
<1>8. CASE \/ \E h \in Handler : Route(h)
           \/ \E s \in Session : Connect(s) \/ Refuse(s) \/ Disconnect(s) \/ Remove(s)
           \/ \E s \in Session, t \in Token : SendAck(s, t) \/ LoseAck(s, t)
           \/ UNCHANGED vars
  <2>1. q' = q /\ now' = now /\ persisted' = persisted
    BY <1>8 DEF Route, RouteLookup, RouteSend, Connect, Refuse, Disconnect, Remove, SendAck,
         LoseAck, vars, queueVars, clientVars
  <2> QED BY <2>1, CustodyStutter
<1> QED BY <1>1, <1>3, <1>4, <1>5, <1>6, <1>7, <1>8 DEF Next

\* The delivery path keeps what AtLeastOnce promises, for every instance: a
\* ciphertext is held as first accepted until its deadline or until an ACK
\* for a message the recipient has made durable.
THEOREM DeliveryImplements == Spec => ImplementsAtLeastOnce
<1>1. Init => Custody!Init
  BY DEF Init, QueueInit, EmptyQueue, Absent, Custody!Init
<1>2. DeliveryInv /\ [Next]_vars => [Custody!Next]_(Custody!vars)
  BY CustodyRefines
<1> QED BY <1>1, <1>2, DeliveryAlways, PTL DEF Spec, ImplementsAtLeastOnce, Custody!Spec

=============================================================================
