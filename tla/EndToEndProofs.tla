--------------------------- MODULE EndToEndProofs ---------------------------
(***************************************************************************)
(* Proofs about EndToEnd for any messages, recipients and circumstances:   *)
(* types, honest ticks, monotone statuses, no silent loss, rows freed by   *)
(* receipts, and answers for frames whose key is spent.                    *)
(***************************************************************************)
EXTENDS EndToEnd, TLAPS

allVars == <<env, vars>>

\* Someone has f: a row, a running send, the server or its recipient.
Seen(f) ==
    \/ outbox[f].st # "none"
    \/ f \in job.cur \cup flush.todo \cup flush.cur
    \/ Queued(f)
    \/ f \in rx[f.to].frames
    \/ processed[f] # "none"
    \/ f \in ratchet
    \/ f.kind = "content" /\ <<f.msg, f.to>> \in stored

\* A frame that is not yet written is nowhere, and no other than the frames of
\* a message are ever anywhere.
Fresh == \A f \in Frame : status[f.msg] = "none" \/ f \in job.todo => ~Seen(f)
Genuine == \A f \in Frame : Seen(f) \/ f \in job.todo => f \in Frames(f.msg)

\* The use case works on one message, keys first; it gives up before it has
\* written a content frame.
JobShape ==
    /\ \A f \in job.todo \cup job.cur : f.msg \in job.msg
    /\ \A m, n \in job.msg : m = n
    /\ job.pc = "idle" => job.msg = {}
    /\ \A m \in job.msg :
          /\ status[m] # "none"
          /\ status[m] \in {"sending", "failed"} \/ \E p \in To[m] : p \in deliveredTo[m]
          /\ job.pc = "abort" => \A p \in To[m] : Content(m, p) \in job.todo
          /\ (\E p \in To[m] : Content(m, p) \notin job.todo) =>
                \A g \in job.todo : g.kind = "content"
FlushShape == \A f, g \in flush.cur : f = g

\* A handler has one frame at a time, of its own.
RxShape ==
    \A p \in Peer : /\ \A f \in rx[p].frames : f.to = p
                    /\ \A f, g \in rx[p].frames : f = g
                    /\ rx[p].pc = "idle" => rx[p].frames = {}

\* Rows age only after the use case, and only where they may.
Aged ==
    /\ \A f \in Frame : outbox[f].old \/ f \in flush.old =>
          MayAge /\ f.msg \notin job.msg /\ status[f.msg] # "none"
    /\ flush.pc = "fail" => MayAge

\* Every receipt, on its way, to be sent again or recorded, is for a message
\* that is stored; one is recorded at a time.
Backed ==
    /\ \A r \in receipts : <<r[2], r[3]>> \in stored
    /\ \A f \in Frame : processed[f] = "receipt" => <<f.msg, f.to>> \in stored
    /\ \A p \in Peer : \A f \in rx[p].frames :
          rx[p].pc = "receipt" \/ (rx[p].pc = "remember" /\ rx[p].receipt)
             => <<f.msg, f.to>> \in stored
    /\ \A m \in Msg : readBy[m] \subseteq deliveredTo[m]
    /\ \A m \in Msg, p \in Peer : <<m, p>> \in confirm => p \in deliveredTo[m]
    /\ \A c, d \in confirm : c = d
Shown ==
    \A m \in Msg : /\ status[m] = "delivered" => To[m] \subseteq deliveredTo[m]
                   /\ status[m] = "read" => To[m] \subseteq readBy[m]

\* The sender no longer retries f.
Dead(f) == outbox[f].st = "none" \/ outbox[f].old
Answered(f) == Dead(f) \/ processed[f] # "none"
Covered ==
    \A f \in Frame : f.to \notin PeerCrashes \cup Crowded /\ f.msg \notin Grouped \cup Pointer =>
        /\ f \in ratchet => Answered(f) \/ f \in rx[f.to].frames
        /\ f \in ratchet /\ At(f, "lookup") => Answered(f)
        /\ f \in ratchet /\ At(f, "decrypt") => Dead(f)
        /\ At(f, "receipt") \/ At(f, "ack") => Answered(f)

\* Where a message cannot be lost silently: its rows do not age while the
\* sender may die, and if it has several recipients neither happens.
OneRecipient(m) == \E p \in Peer : To[m] = {p}
Tame(m) == /\ ~MayAge \/ ~SenderCrashes
           /\ ~OneRecipient(m) => ~MayAge /\ ~SenderCrashes
Kept(m, p) ==
    \/ outbox[Content(m, p)].st # "none"
    \/ p \in deliveredTo[m]
    \/ flush.pc = "fail" /\ Content(m, p) \in flush.cur
Accounted(m) ==
    IF m \in job.msg
    THEN /\ OneRecipient(m) => status[m] # "sent"
         /\ \A p \in To[m] : \/ Content(m, p) \in job.todo
                             \/ outbox[Content(m, p)].st # "none"
                             \/ p \in deliveredTo[m]
    ELSE IF OneRecipient(m)
    THEN status[m] = "sent" => \A p \in To[m] : Kept(m, p)
    ELSE status[m] # "none" =>
            \/ \A p \in To[m] : Kept(m, p)
            \/ status[m] = "failed" /\ \A p \in To[m] : ~Seen(Content(m, p))
NoneLost == \A m \in Msg : Tame(m) => Accounted(m)

Inv == /\ TypeOK /\ Fresh /\ Genuine /\ JobShape /\ FlushShape /\ RxShape
       /\ Aged /\ Backed /\ DeliveredIsStored /\ Shown

-----------------------------------------------------------------------------
(* Which steps touch what.                                                 *)

SenderStep ==
    \/ \E m \in Msg : Compose(m) \/ PrepareFails(m) \/ Finish(m) \/ RecoverStuck(m) \/ Age(m)
    \/ \E f \in Frame : UseCase(f) \/ FlushStep(f) \/ BackoffOver(f)
    \/ FlushStart \/ FlushEnd \/ SenderCrash
    \/ \E m \in Msg, p \in Peer : Receive(m, p)
PeerStep ==
    \/ \E r \in receipts : LoseReceipt(r)
    \/ \E f \in Frame : ServerLoses(f) \/ Deliver(f) \/ Handle(f) \/ PruneProcessed(f)
    \/ \E m \in Msg, p \in Peer, ok \in BOOLEAN : ReadMessage(m, p, ok)
    \/ \E p \in Peer : Reconnect(p) \/ ToggleBlock(p) \/ PeerCrash(p)

LEMMA RecordLeaves ==
    ASSUME NEW kind, NEW m, NEW p, NEW asRead, RecordReceipt(kind, m, p, asRead)
    PROVE  UNCHANGED <<outbox, job, flush, server, peerVars>> /\ receipts' \subseteq receipts
BY DEF RecordReceipt

\* A step of the sender leaves the recipients alone, and the other way round.
LEMMA Sides ==
    Step => (SenderStep /\ UNCHANGED handlerVars) \/ (PeerStep /\ UNCHANGED senderVars)
<1>1. ASSUME \E m \in Msg : Compose(m) \/ PrepareFails(m) \/ Finish(m) \/ RecoverStuck(m) \/ Age(m) PROVE UNCHANGED handlerVars
  BY <1>1 DEF Compose, PrepareFails, Finish, RecoverStuck, Age, handlerVars, peerVars, storeVars
<1>2. ASSUME \E f \in Frame : UseCase(f) PROVE UNCHANGED handlerVars
  BY <1>2 DEF UseCase, PutOutbox, MarkFirst, SendFirst, handlerVars, peerVars, storeVars
<1>3. ASSUME \E f \in Frame : FlushStep(f) PROVE UNCHANGED handlerVars
  BY <1>3 DEF FlushStep, FlushExpire, FlushFail, FlushSkip, FlushMark, FlushSend, handlerVars,
         peerVars, storeVars
<1>4. ASSUME \E f \in Frame : BackoffOver(f) PROVE UNCHANGED handlerVars
  BY <1>4 DEF BackoffOver, handlerVars, peerVars, storeVars
<1>5. ASSUME FlushStart \/ FlushEnd \/ SenderCrash PROVE UNCHANGED handlerVars
  BY <1>5 DEF FlushStart, FlushEnd, SenderCrash, handlerVars, peerVars, storeVars
<1>6. ASSUME \E m \in Msg, p \in Peer : Receive(m, p) PROVE UNCHANGED handlerVars
  BY RecordLeaves, <1>6 DEF Receive, DeleteDelivered, handlerVars, peerVars, storeVars
<1>7. ASSUME \/ \E r \in receipts : LoseReceipt(r)
             \/ \E f \in Frame : ServerLoses(f) \/ Deliver(f) \/ PruneProcessed(f)
      PROVE UNCHANGED senderVars
  BY <1>7 DEF LoseReceipt, ServerLoses, Deliver, PruneProcessed, senderVars
<1>8. ASSUME \E f \in Frame : Handle(f) PROVE UNCHANGED senderVars
  BY <1>8 DEF Handle, Lookup, Decrypt, DecryptUnusable, OpenRejected, DropBlocked, InstallKey, Store,
         RefusePointer, Remember, SendReceipt, SendAck, senderVars
<1>9. ASSUME \/ \E m \in Msg, p \in Peer, ok \in BOOLEAN : ReadMessage(m, p, ok)
             \/ \E p \in Peer : Reconnect(p) \/ ToggleBlock(p) \/ PeerCrash(p)
      PROVE UNCHANGED senderVars
  BY <1>9 DEF ReadMessage, Reconnect, ToggleBlock, PeerCrash, senderVars
<1> QED BY <1>1, <1>2, <1>3, <1>4, <1>5, <1>6, <1>7, <1>8, <1>9 DEF Step, SenderStep, PeerStep

LEMMA StatusChanges ==
    ASSUME Step
    PROVE  \/ UNCHANGED messageVars
           \/ \E m \in Msg : Compose(m) \/ Finish(m) \/ RecoverStuck(m)
           \/ \E f \in Frame : FlushFail(f)
           \/ \E m \in Msg, p \in Peer, kind \in {"delivered", "read"}, asRead \in BOOLEAN :
                 RecordReceipt(kind, m, p, asRead)
<1>1. CASE \E m \in Msg : Compose(m) \/ PrepareFails(m) \/ Finish(m) \/ RecoverStuck(m) \/ Age(m)
  BY <1>1 DEF PrepareFails, Age, messageVars
<1>2. CASE \E f \in Frame : UseCase(f)
  BY <1>2 DEF UseCase, PutOutbox, MarkFirst, SendFirst, messageVars
<1>3. CASE \E f \in Frame : FlushStep(f)
  BY <1>3 DEF FlushStep, FlushExpire, FlushSkip, FlushMark, FlushSend, messageVars
<1>4. CASE \E f \in Frame : BackoffOver(f)
  BY <1>4 DEF BackoffOver, messageVars
<1>5. CASE FlushStart \/ FlushEnd \/ SenderCrash
  BY <1>5 DEF FlushStart, FlushEnd, SenderCrash, messageVars
<1>6. CASE \E m \in Msg, p \in Peer : Receive(m, p)
  BY <1>6 DEF Receive, DeleteDelivered, messageVars
<1>7. CASE UNCHANGED senderVars
  BY <1>7 DEF senderVars, messageVars
<1> QED BY <1>1, <1>2, <1>3, <1>4, <1>5, <1>6, <1>7, Sides DEF SenderStep

LEMMA OutboxChanges ==
    ASSUME Step
    PROVE  \/ UNCHANGED outbox
           \/ \E m \in Msg : PrepareFails(m) \/ Age(m)
           \/ \E f \in Frame : \/ PutOutbox(f) \/ MarkFirst(f) \/ FlushExpire(f) \/ FlushMark(f)
                               \/ BackoffOver(f)
           \/ \E m \in Msg, p \in Peer : DeleteDelivered(m, p)
<1>1. CASE \E m \in Msg : Compose(m) \/ PrepareFails(m) \/ Finish(m) \/ RecoverStuck(m) \/ Age(m)
  BY <1>1 DEF Compose, Finish, RecoverStuck
<1>2. CASE \E f \in Frame : UseCase(f)
  BY <1>2 DEF UseCase, SendFirst
<1>3. CASE \E f \in Frame : FlushStep(f)
  BY <1>3 DEF FlushStep, FlushFail, FlushSkip, FlushSend
<1>4. CASE \E f \in Frame : BackoffOver(f)
  BY <1>4
<1>5. CASE FlushStart \/ FlushEnd \/ SenderCrash
  BY <1>5 DEF FlushStart, FlushEnd, SenderCrash
<1>6. CASE \E m \in Msg, p \in Peer : Receive(m, p)
  BY RecordLeaves, <1>6 DEF Receive
<1>7. CASE UNCHANGED senderVars
  BY <1>7 DEF senderVars
<1> QED BY <1>1, <1>2, <1>3, <1>4, <1>5, <1>6, <1>7, Sides DEF SenderStep

LEMMA JobChanges ==
    ASSUME Step
    PROVE  \/ UNCHANGED job
           \/ \E m \in Msg : Compose(m) \/ PrepareFails(m) \/ Finish(m)
           \/ \E f \in Frame : UseCase(f)
           \/ SenderCrash
<1>1. CASE \E m \in Msg : Compose(m) \/ PrepareFails(m) \/ Finish(m) \/ RecoverStuck(m) \/ Age(m)
  BY <1>1 DEF RecoverStuck, Age
<1>2. CASE \E f \in Frame : UseCase(f)
  BY <1>2
<1>3. CASE \E f \in Frame : FlushStep(f)
  BY <1>3 DEF FlushStep, FlushExpire, FlushFail, FlushSkip, FlushMark, FlushSend
<1>4. CASE \E f \in Frame : BackoffOver(f)
  BY <1>4 DEF BackoffOver
<1>5. CASE FlushStart \/ FlushEnd \/ SenderCrash
  BY <1>5 DEF FlushStart, FlushEnd
<1>6. CASE \E m \in Msg, p \in Peer : Receive(m, p)
  BY RecordLeaves, <1>6 DEF Receive, DeleteDelivered
<1>7. CASE UNCHANGED senderVars
  BY <1>7 DEF senderVars
<1> QED BY <1>1, <1>2, <1>3, <1>4, <1>5, <1>6, <1>7, Sides DEF SenderStep

LEMMA FlushChanges ==
    ASSUME Step
    PROVE  \/ UNCHANGED flush
           \/ \E f \in Frame : FlushStep(f)
           \/ FlushStart \/ FlushEnd \/ SenderCrash
<1>1. CASE \E m \in Msg : Compose(m) \/ PrepareFails(m) \/ Finish(m) \/ RecoverStuck(m) \/ Age(m)
  BY <1>1 DEF Compose, PrepareFails, Finish, RecoverStuck, Age
<1>2. CASE \E f \in Frame : UseCase(f)
  BY <1>2 DEF UseCase, PutOutbox, MarkFirst, SendFirst
<1>3. CASE \E f \in Frame : FlushStep(f)
  BY <1>3
<1>4. CASE \E f \in Frame : BackoffOver(f)
  BY <1>4 DEF BackoffOver
<1>5. CASE FlushStart \/ FlushEnd \/ SenderCrash
  BY <1>5
<1>6. CASE \E m \in Msg, p \in Peer : Receive(m, p)
  BY RecordLeaves, <1>6 DEF Receive, DeleteDelivered
<1>7. CASE UNCHANGED senderVars
  BY <1>7 DEF senderVars
<1> QED BY <1>1, <1>2, <1>3, <1>4, <1>5, <1>6, <1>7, Sides DEF SenderStep

LEMMA ConfirmChanges ==
    ASSUME Step
    PROVE  UNCHANGED confirm \/ (\E m \in Msg, p \in Peer : Receive(m, p)) \/ SenderCrash
<1>1. CASE \E m \in Msg : Compose(m) \/ PrepareFails(m) \/ Finish(m) \/ RecoverStuck(m) \/ Age(m)
  BY <1>1 DEF Compose, PrepareFails, Finish, RecoverStuck, Age
<1>2. CASE \E f \in Frame : UseCase(f)
  BY <1>2 DEF UseCase, PutOutbox, MarkFirst, SendFirst
<1>3. CASE \E f \in Frame : FlushStep(f)
  BY <1>3 DEF FlushStep, FlushExpire, FlushFail, FlushSkip, FlushMark, FlushSend
<1>4. CASE \E f \in Frame : BackoffOver(f)
  BY <1>4 DEF BackoffOver
<1>5. CASE FlushStart \/ FlushEnd \/ SenderCrash
  BY <1>5 DEF FlushStart, FlushEnd
<1>6. CASE \E m \in Msg, p \in Peer : Receive(m, p)
  BY <1>6
<1>7. CASE UNCHANGED senderVars
  BY <1>7 DEF senderVars
<1> QED BY <1>1, <1>2, <1>3, <1>4, <1>5, <1>6, <1>7, Sides DEF SenderStep

LEMMA ServerChanges ==
    ASSUME Step
    PROVE  \/ UNCHANGED server
           \/ \E f \in Frame, ok \in BOOLEAN :
                 SendFirst(f, ok) \/ FlushSend(f, ok) \/ SendAck(f, ok)
           \/ \E f \in Frame : ServerLoses(f)
<1>1. CASE \E m \in Msg : Compose(m) \/ PrepareFails(m) \/ Finish(m) \/ RecoverStuck(m) \/ Age(m)
  BY <1>1 DEF Compose, PrepareFails, Finish, RecoverStuck, Age
<1>2. CASE \E f \in Frame : UseCase(f)
  BY <1>2 DEF UseCase, PutOutbox, MarkFirst
<1>3. CASE \E f \in Frame : FlushStep(f)
  BY <1>3 DEF FlushStep, FlushExpire, FlushFail, FlushSkip, FlushMark
<1>4. CASE \E f \in Frame : BackoffOver(f)
  BY <1>4 DEF BackoffOver
<1>5. CASE FlushStart \/ FlushEnd \/ SenderCrash
  BY <1>5 DEF FlushStart, FlushEnd, SenderCrash
<1>6. CASE \E m \in Msg, p \in Peer : Receive(m, p)
  BY RecordLeaves, <1>6 DEF Receive, DeleteDelivered
<1>7. CASE \/ \E r \in receipts : LoseReceipt(r)
         \/ \E f \in Frame : ServerLoses(f) \/ Deliver(f) \/ PruneProcessed(f)
  BY <1>7 DEF LoseReceipt, Deliver, PruneProcessed
<1>8. CASE \E f \in Frame : Handle(f)
  BY <1>8 DEF Handle, Lookup, Decrypt, DecryptUnusable, OpenRejected, DropBlocked, InstallKey, Store,
         RefusePointer, Remember, SendReceipt
<1>9. CASE \/ \E m \in Msg, p \in Peer, ok \in BOOLEAN : ReadMessage(m, p, ok)
         \/ \E p \in Peer : Reconnect(p) \/ ToggleBlock(p) \/ PeerCrash(p)
  BY <1>9 DEF ReadMessage, Reconnect, ToggleBlock, PeerCrash
<1> QED BY <1>1, <1>2, <1>3, <1>4, <1>5, <1>6, <1>7, <1>8, <1>9, Sides DEF SenderStep, PeerStep

LEMMA HandlerChanges ==
    ASSUME Step
    PROVE  \/ UNCHANGED <<rx, ratchet>>
           \/ \E f \in Frame : Deliver(f) \/ Handle(f)
           \/ \E p \in Peer : PeerCrash(p)
<1>1. CASE \/ \E r \in receipts : LoseReceipt(r)
         \/ \E f \in Frame : ServerLoses(f) \/ Deliver(f) \/ PruneProcessed(f)
  BY <1>1 DEF LoseReceipt, ServerLoses, PruneProcessed, peerVars
<1>2. CASE \E f \in Frame : Handle(f)
  BY <1>2
<1>3. CASE \/ \E m \in Msg, p \in Peer, ok \in BOOLEAN : ReadMessage(m, p, ok)
         \/ \E p \in Peer : Reconnect(p) \/ ToggleBlock(p) \/ PeerCrash(p)
  BY <1>3 DEF ReadMessage, Reconnect, ToggleBlock, peerVars
<1>4. CASE UNCHANGED handlerVars
  BY <1>4 DEF handlerVars
<1> QED BY <1>1, <1>2, <1>3, <1>4, Sides DEF PeerStep

LEMMA StoreChanges ==
    ASSUME Step
    PROVE  \/ UNCHANGED <<stored, processed>>
           \/ \E f \in Frame : Store(f) \/ Remember(f) \/ PruneProcessed(f)
<1>1. CASE \/ \E r \in receipts : LoseReceipt(r)
         \/ \E f \in Frame : ServerLoses(f) \/ Deliver(f) \/ PruneProcessed(f)
  BY <1>1 DEF LoseReceipt, ServerLoses, Deliver, peerVars, storeVars
<1>2. CASE \E f \in Frame : Handle(f)
  BY <1>2 DEF Handle, Lookup, Decrypt, DecryptUnusable, OpenRejected, DropBlocked, InstallKey,
         RefusePointer, SendReceipt, SendAck, peerVars, storeVars
<1>3. CASE \/ \E m \in Msg, p \in Peer, ok \in BOOLEAN : ReadMessage(m, p, ok)
         \/ \E p \in Peer : Reconnect(p) \/ ToggleBlock(p) \/ PeerCrash(p)
  BY <1>3 DEF ReadMessage, Reconnect, ToggleBlock, PeerCrash, peerVars, storeVars
<1>4. CASE UNCHANGED handlerVars
  BY <1>4 DEF handlerVars, storeVars
<1> QED BY <1>1, <1>2, <1>3, <1>4, Sides DEF PeerStep

LEMMA ReceiptChanges ==
    ASSUME Step
    PROVE  \/ receipts' \subseteq receipts
           \/ \E f \in Frame, ok \in BOOLEAN : SendReceipt(f, ok)
           \/ \E m \in Msg, p \in Peer, ok \in BOOLEAN : ReadMessage(m, p, ok)
<1>1. CASE \E m \in Msg : Compose(m) \/ PrepareFails(m) \/ Finish(m) \/ RecoverStuck(m) \/ Age(m)
  BY <1>1 DEF Compose, PrepareFails, Finish, RecoverStuck, Age
<1>2. CASE \E f \in Frame : UseCase(f)
  BY <1>2 DEF UseCase, PutOutbox, MarkFirst, SendFirst
<1>3. CASE \E f \in Frame : FlushStep(f)
  BY <1>3 DEF FlushStep, FlushExpire, FlushFail, FlushSkip, FlushMark, FlushSend
<1>4. CASE \E f \in Frame : BackoffOver(f)
  BY <1>4 DEF BackoffOver
<1>5. CASE FlushStart \/ FlushEnd \/ SenderCrash
  BY <1>5 DEF FlushStart, FlushEnd, SenderCrash
<1>6. CASE \E m \in Msg, p \in Peer : Receive(m, p)
  BY RecordLeaves, <1>6 DEF Receive, DeleteDelivered
<1>7. CASE \/ \E r \in receipts : LoseReceipt(r)
         \/ \E f \in Frame : ServerLoses(f) \/ Deliver(f) \/ PruneProcessed(f)
  BY <1>7 DEF LoseReceipt, ServerLoses, Deliver, PruneProcessed
<1>8. CASE \E f \in Frame : Handle(f)
  BY <1>8 DEF Handle, Lookup, Decrypt, DecryptUnusable, OpenRejected, DropBlocked, InstallKey, Store,
         RefusePointer, Remember, SendAck
<1>9. CASE \/ \E m \in Msg, p \in Peer, ok \in BOOLEAN : ReadMessage(m, p, ok)
         \/ \E p \in Peer : Reconnect(p) \/ ToggleBlock(p) \/ PeerCrash(p)
  BY <1>9 DEF Reconnect, ToggleBlock, PeerCrash
<1> QED BY <1>1, <1>2, <1>3, <1>4, <1>5, <1>6, <1>7, <1>8, <1>9, Sides DEF SenderStep, PeerStep

-----------------------------------------------------------------------------
(* The operators.                                                          *)

LEMMA Recipients ==
    ASSUME TypeOK, NEW m \in Msg
    PROVE  To[m] \subseteq Peer /\ To[m] # {}
<1>1. env \in Circumstance
  BY EndToEndAssumption DEF TypeOK
<1>2. env.to \in [Msg -> (SUBSET Peer) \ {{}}]
  BY <1>1 DEF Circumstance
<1> QED BY <1>2 DEF To

LEMMA FramesTyped ==
    ASSUME TypeOK, NEW m \in Msg
    PROVE  /\ Frames(m) \subseteq Frame
           /\ \A f \in Frames(m) : f.msg = m /\ f.to \in To[m]
           /\ \A p \in To[m] : Content(m, p) \in Frames(m)
           /\ \A f \in Frames(m) : f.kind = "content" => f = Content(m, f.to)
BY Recipients DEF Frames, Frame, Content, Key

LEMMA ContentTyped ==
    ASSUME NEW m \in Msg, NEW p \in Peer
    PROVE  /\ Content(m, p) \in Frame
           /\ Content(m, p).msg = m /\ Content(m, p).to = p /\ Content(m, p).kind = "content"
BY DEF Content, Frame

LEMMA FrameParts ==
    ASSUME NEW f \in Frame PROVE f.msg \in Msg /\ f.to \in Peer /\ f.kind \in {"key", "content"}
BY DEF Frame

\* A send adds its frame to the queue at most, a removal adds nothing.
LEMMA ArriveAdds ==
    ASSUME NEW f \in Frame, server \in Seq(Frame), server' = Arrive(f)
    PROVE  server' \in Seq(Frame) /\ \A g \in Frame : Queued(g)' => Queued(g) \/ g = f
<1>1. CASE Queued(f)
  BY <1>1 DEF Arrive, Queued
<1>2. CASE ~Queued(f)
  BY <1>2 DEF Arrive, Queued
<1> QED BY <1>1, <1>2

LEMMA WithoutRemoves ==
    ASSUME NEW f, server \in Seq(Frame), server' = Without(server, f)
    PROVE  server' \in Seq(Frame) /\ \A g \in Frame : Queued(g)' => Queued(g)
<1>1. CASE \E i \in 1..Len(server) : server[i] = f
  <2> DEFINE i == CHOOSE i \in 1..Len(server) : server[i] = f
             left == SubSeq(server, 1, i - 1)
             right == SubSeq(server, i + 1, Len(server))
  <2>1. server' = left \o right
    BY <1>1 DEF Without
  <2>2. i \in 1..Len(server) /\ Len(server) \in Nat
    BY <1>1
  <2> HIDE DEF i
  <2>3. left \in Seq(Frame) /\ Len(left) = i - 1 /\ \A k \in 1..Len(left) : left[k] = server[k]
    BY <2>2
  <2>4. right \in Seq(Frame) /\ Len(right) = Len(server) - i
        /\ \A k \in 1..Len(right) : right[k] = server[i + k]
    BY <2>2
  <2> HIDE DEF left, right
  <2>5. server' \in Seq(Frame) /\ Len(server') = Len(left) + Len(right)
    <3>1. ASSUME NEW s \in Seq(Frame), NEW t \in Seq(Frame)
          PROVE  s \o t \in Seq(Frame) /\ Len(s \o t) = Len(s) + Len(t)
      OBVIOUS
    <3> QED BY <3>1, <2>1, <2>3, <2>4
  <2>6. ASSUME NEW k \in 1..Len(server') PROVE \E j \in 1..Len(server) : server'[k] = server[j]
    <3>1. CASE k <= Len(left)
      BY <3>1, <2>1, <2>2, <2>3, <2>4, <2>5
    <3>2. CASE k > Len(left)
      <4>1. server'[k] = right[k - Len(left)] /\ k - Len(left) \in 1..Len(right)
        BY <3>2, <2>1, <2>2, <2>3, <2>4, <2>5
      <4>2. i + (k - Len(left)) \in 1..Len(server)
            /\ server'[k] = server[i + (k - Len(left))]
        BY <4>1, <2>2, <2>3, <2>4
      <4> QED BY <4>2
    <3> QED BY <3>1, <3>2, <2>2, <2>3
  <2> QED BY <2>5, <2>6 DEF Queued
<1>2. CASE ~\E i \in 1..Len(server) : server[i] = f
  BY <1>2 DEF Without, Queued
<1> QED BY <1>1, <1>2

LEMMA SendAdds ==
    ASSUME TypeOK, NEW f \in Frame, NEW ok \in BOOLEAN, SendOutcome(f, ok)
    PROVE  /\ server' \in Seq(Frame) /\ \A g \in Frame : Queued(g)' => Queued(g) \/ g = f
           /\ got' \in [Peer -> SUBSET Frame]
<1>1. CASE Reach(f)
  BY <1>1, ArriveAdds, FrameParts DEF Reach, TypeOK
<1>2. CASE UNCHANGED <<server, got>>
  BY <1>2 DEF TypeOK, Queued
<1> QED BY <1>1, <1>2 DEF SendOutcome

Row == [st : {"none", "new", "due", "wait"}, old : BOOLEAN]
LEMMA MarkedRow ==
    ASSUME NEW row \in Row, NEW ok \in BOOLEAN
    PROVE  /\ Marked(row, ok) \in Row /\ Marked(row, ok).old = row.old
           /\ Marked(row, ok).st = "none" <=> row.st = "none"
BY DEF Marked, Row

LEMMA Rows == NoRow \in Row /\ NoRow.st = "none" /\ NewRow \in Row /\ NewRow.st = "new"
              /\ ~NoRow.old /\ ~NewRow.old
BY DEF NoRow, NewRow, Row

-----------------------------------------------------------------------------
(* Types.                                                                  *)

LEMMA InitTyped == Init => TypeOK
<1> SUFFICES ASSUME Init PROVE TypeOK
  OBVIOUS
<1>1. NoRow \in Row /\ NoRx \in [pc : {"idle", "lookup", "decrypt", "open", "remember", "receipt",
                                       "ack"}, frames : SUBSET Frame, receipt : BOOLEAN]
  BY Rows DEF NoRx
<1> QED BY <1>1 DEF Init, TypeOK, NoJob, NoFlush, Row

LEMMA OutboxTyped ==
    ASSUME TypeOK, Step PROVE outbox' \in [Frame -> Row]
<1>0. outbox \in [Frame -> Row]
  BY DEF TypeOK, Row
<1>1. CASE \E m \in Msg : PrepareFails(m)
  BY <1>0, <1>1, Rows DEF PrepareFails
<1>5. CASE \E m \in Msg : Age(m)
  <2>1. \A f \in Frame : [outbox[f] EXCEPT !.old = TRUE] \in Row
    BY <1>0 DEF Row
  <2> QED BY <1>0, <1>5, <2>1 DEF Age
<1>2. CASE \E f \in Frame : PutOutbox(f) \/ FlushExpire(f) \/ BackoffOver(f)
  BY <1>0, <1>2, Rows DEF PutOutbox, FlushExpire, BackoffOver, Row
<1>3. CASE \E f \in Frame : MarkFirst(f) \/ FlushMark(f)
  <2>1. \E f \in Frame, ok \in BOOLEAN : outbox' = [outbox EXCEPT ![f] = Marked(outbox[f], ok)]
    BY <1>0, <1>3 DEF MarkFirst, FlushMark
  <2> QED BY <1>0, <2>1, MarkedRow
<1>4. CASE \E m \in Msg, p \in Peer : DeleteDelivered(m, p)
  BY <1>0, <1>4, Rows DEF DeleteDelivered
<1> QED BY <1>0, <1>1, <1>5, <1>2, <1>3, <1>4, OutboxChanges

LEMMA StatusTyped ==
    ASSUME TypeOK, Step
    PROVE  /\ status' \in [Msg -> {"none", "sending", "sent", "delivered", "read", "failed"}]
           /\ deliveredTo' \in [Msg -> SUBSET Peer] /\ readBy' \in [Msg -> SUBSET Peer]
<1>1. CASE \E m \in Msg : Compose(m) \/ Finish(m) \/ RecoverStuck(m)
  BY <1>1 DEF Compose, Finish, RecoverStuck, IfSending, TypeOK
<1>2. CASE \E f \in Frame : FlushFail(f)
  BY <1>2, FrameParts DEF FlushFail, TypeOK
<1>3. ASSUME NEW m \in Msg, NEW p \in Peer, NEW kind \in {"delivered", "read"},
             NEW asRead \in BOOLEAN, RecordReceipt(kind, m, p, asRead)
      PROVE  /\ status' \in [Msg -> {"none", "sending", "sent", "delivered", "read", "failed"}]
             /\ deliveredTo' \in [Msg -> SUBSET Peer] /\ readBy' \in [Msg -> SUBSET Peer]
  <2> DEFINE read == readBy[m] \cup (IF asRead THEN {p} ELSE {})
             delivered == deliveredTo[m] \cup {p} \cup read
  <2>1. read \in SUBSET Peer /\ delivered \in SUBSET Peer
    BY DEF TypeOK
  <2>2. Aggregate(m, delivered, read) \in {"sent", "delivered", "read"}
    BY DEF Aggregate
  <2>3. /\ status' = [status EXCEPT ![m] = Aggregate(m, delivered, read)]
        /\ readBy' = [readBy EXCEPT ![m] = read]
        /\ deliveredTo' = [deliveredTo EXCEPT ![m] = delivered]
    BY <1>3 DEF RecordReceipt
  <2> HIDE DEF read, delivered
  <2> QED BY <2>1, <2>2, <2>3 DEF TypeOK
<1>4. CASE UNCHANGED messageVars
  BY <1>4 DEF messageVars, TypeOK
<1> QED BY <1>1, <1>2, <1>3, <1>4, StatusChanges

LEMMA JobTyped ==
    ASSUME TypeOK, Step
    PROVE  job' \in [pc : {"idle", "put", "send", "sent", "unsent", "abort"},
                     msg : SUBSET Msg, todo : SUBSET Frame, cur : SUBSET Frame]
<1>0. job \in [pc : {"idle", "put", "send", "sent", "unsent", "abort"},
              msg : SUBSET Msg, todo : SUBSET Frame, cur : SUBSET Frame]
  BY DEF TypeOK
<1>1. CASE \E m \in Msg : Compose(m)
  BY <1>0, <1>1, FramesTyped DEF Compose
<1>2. CASE \E m \in Msg : PrepareFails(m)
  BY <1>0, <1>2 DEF PrepareFails
<1>3. CASE \E f \in Frame : PutOutbox(f)
  <2>1. \E f \in Frame : job' = [pc |-> "send", msg |-> job.msg, todo |-> job.todo \ {f},
                                 cur |-> {f}]
    BY <1>0, <1>3 DEF PutOutbox
  <2> QED BY <1>0, <2>1
<1>4. CASE \E f \in Frame, ok \in BOOLEAN : SendFirst(f, ok)
  BY <1>0, <1>4 DEF SendFirst
<1>5. CASE \E f \in Frame : MarkFirst(f)
  BY <1>0, <1>5 DEF MarkFirst
<1>6. CASE SenderCrash \/ \E m \in Msg : Finish(m)
  BY <1>0, <1>6 DEF SenderCrash, Finish, NoJob
<1> QED BY <1>0, <1>1, <1>2, <1>3, <1>4, <1>5, <1>6, JobChanges DEF UseCase

LEMMA FlushTyped ==
    ASSUME TypeOK, Step
    PROVE  flush' \in [pc : {"idle", "scan", "sent", "unsent", "fail"}, todo : SUBSET Frame,
                       cur : SUBSET Frame, due : SUBSET Frame, old : SUBSET Frame]
<1>0. flush \in [pc : {"idle", "scan", "sent", "unsent", "fail"}, todo : SUBSET Frame,
                cur : SUBSET Frame, due : SUBSET Frame, old : SUBSET Frame]
  BY DEF TypeOK
<1>1. CASE \E f \in Frame : FlushExpire(f)
  <2>1. \E f \in Frame : flush' = [pc |-> "fail", todo |-> flush.todo \ {f}, cur |-> {f},
                                   due |-> flush.due, old |-> flush.old]
    BY <1>0, <1>1 DEF FlushExpire
  <2> QED BY <1>0, <2>1
<1>2. CASE \E f \in Frame : FlushFail(f)
  BY <1>0, <1>2 DEF FlushFail
<1>3. CASE \E f \in Frame : FlushSkip(f)
  BY <1>0, <1>3 DEF FlushSkip
<1>4. CASE \E f \in Frame : FlushMark(f)
  <2>1. flush' = NoFlush \/ flush' = [flush EXCEPT !.pc = "scan", !.cur = {}]
    BY <1>4 DEF FlushMark
  <2>3. CASE flush' = NoFlush
    BY <2>3 DEF NoFlush
  <2>4. CASE flush' # NoFlush
    BY <1>0, <2>1, <2>4
  <2> QED BY <2>3, <2>4
<1>5. CASE \E f \in Frame, ok \in BOOLEAN : FlushSend(f, ok)
  <2>1. \E f \in Frame, pc \in {"sent", "unsent"} :
           flush' = [pc |-> pc, todo |-> flush.todo \ {f}, cur |-> {f},
                     due |-> flush.due, old |-> flush.old]
    <3>1. PICK f \in Frame, ok \in BOOLEAN : FlushSend(f, ok)
      BY <1>5
    <3>2. flush' = [pc |-> IF ok THEN "sent" ELSE "unsent", todo |-> flush.todo \ {f}, cur |-> {f},
                    due |-> flush.due, old |-> flush.old]
      BY <1>0, <3>1 DEF FlushSend
    <3> QED BY <3>2
  <2> QED BY <1>0, <2>1
<1>6. CASE FlushStart \/ FlushEnd \/ SenderCrash
  BY <1>0, <1>6 DEF FlushStart, FlushEnd, SenderCrash, NoFlush
<1> QED BY <1>0, <1>1, <1>2, <1>3, <1>4, <1>5, <1>6, FlushChanges DEF FlushStep

LEMMA ServerTyped ==
    ASSUME TypeOK, Step
    PROVE  /\ server' \in Seq(Frame)
           /\ \A g \in Frame : Queued(g)' => \/ Queued(g)
                                             \/ job.pc = "send" /\ g \in job.cur
                                             \/ g \in flush.todo
<1> USE DEF TypeOK
<1>1. ASSUME NEW f \in Frame, NEW ok \in BOOLEAN, SendFirst(f, ok) \/ FlushSend(f, ok)
      PROVE  /\ server' \in Seq(Frame) /\ \A g \in Frame : Queued(g)' => Queued(g) \/ g = f
             /\ f \in flush.todo \/ (job.pc = "send" /\ f \in job.cur)
  <2>1. SendOutcome(f, ok)
    BY <1>1 DEF SendFirst, FlushSend
  <2>2. f \in flush.todo \/ (job.pc = "send" /\ f \in job.cur)
    BY <1>1 DEF SendFirst, FlushSend, First
  <2> QED BY <2>1, <2>2, SendAdds
<1>2. ASSUME NEW f \in Frame, NEW ok \in BOOLEAN, SendAck(f, ok) \/ ServerLoses(f)
      PROVE  server' \in Seq(Frame) /\ \A g \in Frame : Queued(g)' => Queued(g)
  <2>1. server' = server \/ server' = Without(server, f)
    BY <1>2 DEF SendAck, ServerLoses
  <2> QED BY <2>1, WithoutRemoves DEF Queued
<1>3. CASE UNCHANGED server
  BY <1>3 DEF Queued
<1> QED BY <1>1, <1>2, <1>3, ServerChanges

RxRow == [pc : {"idle", "lookup", "decrypt", "open", "remember", "receipt", "ack"},
          frames : SUBSET Frame, receipt : BOOLEAN]

\* A step of a handler is about the frame it holds, which it keeps or gives up.
LEMMA HandleRx ==
    ASSUME TypeOK, NEW f \in Frame, Handle(f)
    PROVE  /\ f \in rx[f.to].frames
           /\ \E x \in RxRow : /\ rx' = [rx EXCEPT ![f.to] = x]
                               /\ (x.frames = rx[f.to].frames /\ x.pc # "idle") \/ x = NoRx
<1>0. rx \in [Peer -> RxRow] /\ rx[f.to] \in RxRow
  BY FrameParts DEF TypeOK, RxRow
<1>1. NoRx \in RxRow
  BY DEF NoRx, RxRow
<1>2. ASSUME NEW pc \in {"lookup", "decrypt", "open", "remember", "receipt", "ack"}, Goto(f, pc)
      PROVE  \E x \in RxRow : /\ rx' = [rx EXCEPT ![f.to] = x]
                              /\ x.frames = rx[f.to].frames /\ x.pc # "idle"
  <2>1. [rx[f.to] EXCEPT !.pc = pc] \in RxRow
        /\ [rx[f.to] EXCEPT !.pc = pc].frames = rx[f.to].frames
        /\ [rx[f.to] EXCEPT !.pc = pc].pc # "idle"
    BY <1>0 DEF RxRow
  <2>2. rx' = [rx EXCEPT ![f.to] = [rx[f.to] EXCEPT !.pc = pc]]
    BY <1>0, <1>2 DEF Goto
  <2> QED BY <2>1, <2>2
<1>3. ASSUME NEW r \in BOOLEAN, Processed(f, r)
      PROVE  \E x \in RxRow : /\ rx' = [rx EXCEPT ![f.to] = x]
                              /\ x.frames = rx[f.to].frames /\ x.pc # "idle"
  <2> DEFINE x == [rx[f.to] EXCEPT !.pc = "remember", !.receipt = r]
  <2>1. x \in RxRow /\ x.frames = rx[f.to].frames /\ x.pc # "idle"
    BY <1>0 DEF RxRow
  <2>2. rx' = [rx EXCEPT ![f.to] = x]
    BY <1>0, <1>3 DEF Processed
  <2> QED BY <2>1, <2>2
<1>4. ASSUME Return(f) PROVE rx' = [rx EXCEPT ![f.to] = NoRx]
  BY <1>4 DEF Return
<1>5. CASE Lookup(f)
  <2>1. processed[f] \in {"none", "silent", "receipt"}
    BY DEF TypeOK
  <2>2. \E pc \in {"decrypt", "ack", "receipt"} : Goto(f, pc)
    BY <1>5, <2>1 DEF Lookup, Goto
  <2> QED BY <1>2, <1>5, <2>2 DEF Lookup, At
<1>6. CASE Decrypt(f) \/ DecryptUnusable(f) \/ OpenRejected(f)
  BY <1>1, <1>2, <1>3, <1>4, <1>6 DEF Decrypt, DecryptUnusable, OpenRejected, At
<1>7. CASE DropBlocked(f) \/ InstallKey(f) \/ Store(f) \/ RefusePointer(f)
  BY <1>1, <1>2, <1>3, <1>4, <1>7
     DEF DropBlocked, InstallKey, Store, RefusePointer, Opens, At
<1>8. CASE Remember(f) \/ \E ok \in BOOLEAN : SendReceipt(f, ok) \/ SendAck(f, ok)
  BY <1>1, <1>2, <1>3, <1>4, <1>8 DEF Remember, SendReceipt, SendAck, At
<1> QED BY <1>5, <1>6, <1>7, <1>8 DEF Handle

LEMMA HandlerTyped ==
    ASSUME TypeOK, Step
    PROVE  rx' \in [Peer -> RxRow] /\ ratchet' \in SUBSET Frame
<1>0. rx \in [Peer -> RxRow] /\ NoRx \in RxRow
  BY DEF TypeOK, RxRow, NoRx
<1>1. CASE \E f \in Frame : Deliver(f)
  BY <1>0, <1>1, FrameParts DEF Deliver, RxRow, TypeOK
<1>2. CASE \E f \in Frame : Handle(f)
  <2>1. rx' \in [Peer -> RxRow]
    BY <1>0, <1>2, HandleRx
  <2>2. ratchet' \in SUBSET Frame
    BY <1>2 DEF TypeOK, Handle, Lookup, Decrypt, DecryptUnusable, OpenRejected, DropBlocked,
                InstallKey, Store, RefusePointer, Remember, SendReceipt, SendAck
  <2> QED BY <2>1, <2>2
<1>3. CASE \E p \in Peer : PeerCrash(p)
  BY <1>0, <1>3 DEF PeerCrash, TypeOK
<1> QED BY <1>0, <1>1, <1>2, <1>3, HandlerChanges DEF TypeOK

LEMMA StoreTyped ==
    ASSUME TypeOK, Step
    PROVE  /\ stored' \in SUBSET (Msg \X Peer)
           /\ processed' \in [Frame -> {"none", "silent", "receipt"}]
<1>1. CASE \E f \in Frame : Store(f)
  BY <1>1, FrameParts DEF Store, TypeOK
<1>2. CASE \E f \in Frame : Remember(f) \/ PruneProcessed(f)
  BY <1>2 DEF Remember, PruneProcessed, TypeOK
<1> QED BY <1>1, <1>2, StoreChanges DEF TypeOK

LEMMA ReceiptsTyped ==
    ASSUME TypeOK, Step PROVE receipts' \in SUBSET ({"delivered", "read"} \X Msg \X Peer)
<1>1. CASE \E f \in Frame, ok \in BOOLEAN : SendReceipt(f, ok)
  BY <1>1, FrameParts DEF SendReceipt, TypeOK
<1>2. CASE \E m \in Msg, p \in Peer, ok \in BOOLEAN : ReadMessage(m, p, ok)
  BY <1>2 DEF ReadMessage, TypeOK
<1> QED BY <1>1, <1>2, ReceiptChanges DEF TypeOK

LEMMA RestTyped ==
    ASSUME TypeOK, Step
    PROVE  /\ confirm' \in SUBSET (Msg \X Peer) /\ got' \in [Peer -> SUBSET Frame]
           /\ keys' \in SUBSET Frame
           /\ blocked' \in SUBSET Peer /\ opened' \in SUBSET (Msg \X Peer)
<1> USE DEF TypeOK
<1>1. confirm' \in SUBSET (Msg \X Peer)
  <2>1. CASE \E m \in Msg, p \in Peer : DeleteDelivered(m, p)
    BY <2>1 DEF DeleteDelivered
  <2>2. CASE \E m \in Msg, p \in Peer, kind \in {"delivered", "read"}, asRead \in BOOLEAN :
                RecordReceipt(kind, m, p, asRead)
    BY <2>2 DEF RecordReceipt
  <2>3. CASE SenderCrash
    BY <2>3 DEF SenderCrash
  <2> QED BY <2>1, <2>2, <2>3, ConfirmChanges DEF Receive
<1>2. CASE SenderStep /\ UNCHANGED handlerVars
  <2>1. got' \in [Peer -> SUBSET Frame]
    <3>1. CASE \E f \in Frame, ok \in BOOLEAN : SendFirst(f, ok) \/ FlushSend(f, ok)
      BY <3>1, SendAdds DEF SendFirst, FlushSend
    <3>2. CASE \E m \in Msg : Compose(m) \/ PrepareFails(m) \/ Finish(m) \/ RecoverStuck(m) \/ Age(m)
      BY <3>2 DEF Compose, PrepareFails, Finish, RecoverStuck, Age, peerVars
    <3>3. CASE \E f \in Frame : \/ PutOutbox(f) \/ MarkFirst(f) \/ FlushExpire(f) \/ FlushFail(f)
                                \/ FlushSkip(f) \/ FlushMark(f) \/ BackoffOver(f)
      BY <3>3 DEF PutOutbox, MarkFirst, FlushExpire, FlushFail, FlushSkip, FlushMark, BackoffOver,
                  peerVars
    <3>4. CASE FlushStart \/ FlushEnd \/ SenderCrash
      BY <3>4 DEF FlushStart, FlushEnd, SenderCrash, peerVars
    <3>5. CASE \E m \in Msg, p \in Peer : Receive(m, p)
      BY <3>5, RecordLeaves DEF Receive, DeleteDelivered, peerVars
    <3> QED BY <1>2, <3>1, <3>2, <3>3, <3>4, <3>5 DEF SenderStep, UseCase, FlushStep
  <2> QED BY <1>1, <1>2, <2>1 DEF handlerVars, storeVars
<1>3. CASE PeerStep
  <2>1. CASE \E f \in Frame : ServerLoses(f) \/ Deliver(f) \/ PruneProcessed(f)
    <3>1. CASE \E f \in Frame : ServerLoses(f) \/ Deliver(f)
      BY <1>1, <2>1, <3>1, FrameParts DEF ServerLoses, Deliver, peerVars, storeVars
    <3>2. CASE \E f \in Frame : PruneProcessed(f)
      BY <1>1, <3>2 DEF PruneProcessed
    <3> QED BY <2>1, <3>1, <3>2
  <2>2. CASE \E f \in Frame : Handle(f)
    BY <1>1, <2>2 DEF Handle, Lookup, Decrypt, DecryptUnusable, OpenRejected, DropBlocked,
       InstallKey, Store, RefusePointer, Remember, SendReceipt, SendAck, peerVars, storeVars
  <2>3. CASE \E m \in Msg, p \in Peer, ok \in BOOLEAN : ReadMessage(m, p, ok)
    BY <1>1, <2>3 DEF ReadMessage
  <2>4. CASE \/ \E p \in Peer : Reconnect(p) \/ ToggleBlock(p) \/ PeerCrash(p)
             \/ \E r \in receipts : LoseReceipt(r)
    BY <1>1, <2>4 DEF Reconnect, ToggleBlock, PeerCrash, LoseReceipt, peerVars, storeVars
  <2> QED BY <1>3, <2>1, <2>2, <2>3, <2>4 DEF PeerStep
<1> QED BY <1>2, <1>3, Sides

LEMMA TypeStep == TypeOK /\ Next => TypeOK'
<1> SUFFICES ASSUME TypeOK, Next PROVE TypeOK'
  OBVIOUS
<1>1. Step /\ env' \in Circumstances
  BY DEF Next, TypeOK
<1> QED BY <1>1, OutboxTyped, StatusTyped, JobTyped, FlushTyped, ServerTyped, HandlerTyped,
           StoreTyped, ReceiptsTyped, RestTyped DEF TypeOK, Row, RxRow

LEMMA TypeStutter == TypeOK /\ UNCHANGED allVars => TypeOK'
BY DEF TypeOK, allVars, vars

\* Every variable keeps its type, through every interleaving of the clients and
\* the server.
THEOREM TypeCorrect == Spec => []TypeOK
<1>1. TypeOK /\ [Next]_allVars => TypeOK'
  BY TypeStep, TypeStutter
<1> QED BY InitTyped, <1>1, PTL DEF Spec, allVars

-----------------------------------------------------------------------------
(* What a step can do to a frame.                                          *)

\* Only the handler of a frame, or the end of its process, moves the frame.
LEMMA RxStep ==
    ASSUME TypeOK, RxShape, Step, NEW f \in Frame
    PROVE  /\ f \in rx'[f.to].frames => rx'[f.to] = rx[f.to] \/ Deliver(f) \/ Handle(f)
           /\ f \in rx[f.to].frames => f \in rx'[f.to].frames \/ Handle(f) \/ PeerCrash(f.to)
<1>0. rx \in [Peer -> RxRow] /\ f.to \in Peer
  BY FrameParts DEF TypeOK, RxRow
<1>1. ASSUME NEW g \in Frame, g # f, Handle(g)
      PROVE  /\ f \in rx'[f.to].frames => rx'[f.to] = rx[f.to]
             /\ f \in rx[f.to].frames => f \in rx'[f.to].frames
  <2>1. PICK x \in RxRow : /\ rx' = [rx EXCEPT ![g.to] = x]
                           /\ x.frames = rx[g.to].frames \/ x = NoRx
    BY <1>1, HandleRx
  <2>2. g \in rx[g.to].frames /\ g.to \in Peer
    BY <1>1, HandleRx, FrameParts
  <2>3. CASE g.to = f.to
    <3>1. f \notin rx[f.to].frames
      BY <1>0, <1>1, <2>2, <2>3 DEF RxShape
    <3>2. f \notin x.frames
      BY <2>1, <2>3, <3>1 DEF NoRx
    <3> QED BY <1>0, <2>1, <2>3, <3>1, <3>2
  <2>4. CASE g.to # f.to
    BY <1>0, <2>1, <2>2, <2>4
  <2> QED BY <2>3, <2>4
<1>2. ASSUME NEW g \in Frame, g # f, Deliver(g)
      PROVE  /\ f \in rx'[f.to].frames => rx'[f.to] = rx[f.to]
             /\ f \in rx[f.to].frames => f \in rx'[f.to].frames
  BY <1>0, <1>2, FrameParts DEF Deliver, RxShape
<1>3. ASSUME NEW p \in Peer, PeerCrash(p)
      PROVE  /\ f \in rx'[f.to].frames => rx'[f.to] = rx[f.to]
             /\ f \in rx[f.to].frames => f \in rx'[f.to].frames \/ PeerCrash(f.to)
  BY <1>0, <1>3 DEF PeerCrash, NoRx
<1>4. Deliver(f) => (f \in rx[f.to].frames => f \in rx'[f.to].frames)
  BY <1>0 DEF Deliver, RxShape
<1> QED BY <1>1, <1>2, <1>3, <1>4, HandlerChanges

LEMMA RxShapeStep ==
    ASSUME TypeOK, RxShape, Step PROVE RxShape'
<1>0. rx \in [Peer -> RxRow]
  BY DEF TypeOK, RxRow
<1>1. CASE \E f \in Frame : Handle(f)
  <2>1. PICK f \in Frame : Handle(f)
    BY <1>1
  <2>2. PICK x \in RxRow : /\ rx' = [rx EXCEPT ![f.to] = x]
                           /\ (x.frames = rx[f.to].frames /\ x.pc # "idle") \/ x = NoRx
    BY <2>1, HandleRx
  <2>3. NoRx.frames = {}
    BY DEF NoRx
  <2> QED BY <1>0, <2>2, <2>3, FrameParts DEF RxShape
<1>2. CASE \E f \in Frame : Deliver(f)
  BY <1>0, <1>2, FrameParts DEF Deliver, RxShape
<1>3. CASE \E p \in Peer : PeerCrash(p)
  BY <1>0, <1>3 DEF PeerCrash, RxShape, NoRx
<1>4. CASE UNCHANGED rx
  BY <1>4 DEF RxShape
<1> QED BY <1>1, <1>2, <1>3, <1>4, HandlerChanges

\* Only the use case adds a row; a row that stays keeps its age.
LEMMA RowStep ==
    ASSUME TypeOK, Step, NEW f \in Frame
    PROVE  /\ outbox'[f].st # "none" => outbox[f].st # "none" \/ PutOutbox(f)
           /\ outbox[f].old => outbox'[f].st = "none" \/ outbox'[f].old \/ PutOutbox(f)
           /\ outbox'[f].old => \/ outbox[f].old
                                \/ MayAge /\ f.msg \notin job'.msg /\ outbox[f].st # "none"
<1>0. outbox \in [Frame -> Row]
  BY DEF TypeOK, Row
<1>1. CASE \E m \in Msg : PrepareFails(m)
  BY <1>0, <1>1, Rows DEF PrepareFails
<1>2. CASE \E m \in Msg : Age(m)
  BY <1>0, <1>2 DEF Age, Row
<1>3. CASE \E g \in Frame : PutOutbox(g)
  BY <1>0, <1>3, Rows DEF PutOutbox
<1>4. CASE \E g \in Frame : FlushExpire(g)
  BY <1>0, <1>4, Rows DEF FlushExpire
<1>5. CASE \E g \in Frame : BackoffOver(g)
  BY <1>0, <1>5 DEF BackoffOver, Row
<1>6. CASE \E g \in Frame : MarkFirst(g) \/ FlushMark(g)
  <2>1. \E g \in Frame, ok \in BOOLEAN : outbox' = [outbox EXCEPT ![g] = Marked(outbox[g], ok)]
    BY <1>0, <1>6 DEF MarkFirst, FlushMark
  <2> QED BY <1>0, <2>1, MarkedRow
<1>7. CASE \E m \in Msg, p \in Peer : DeleteDelivered(m, p)
  BY <1>0, <1>7, Rows DEF DeleteDelivered
<1> QED BY <1>1, <1>2, <1>3, <1>4, <1>5, <1>6, <1>7, OutboxChanges

LEMMA TodoStep ==
    ASSUME TypeOK, Step, NEW f \in Frame
    PROVE  /\ f \in job'.cur => f \in job.cur \/ PutOutbox(f)
           /\ f \in job'.todo => f \in job.todo \/ (Compose(f.msg) /\ f \in Frames(f.msg))
           /\ PutOutbox(f) => f \notin job'.todo
<1>0. job \in [pc : {"idle", "put", "send", "sent", "unsent", "abort"},
               msg : SUBSET Msg, todo : SUBSET Frame, cur : SUBSET Frame]
  BY DEF TypeOK
<1>1. CASE \E m \in Msg : Compose(m)
  <2>1. PICK m \in Msg : Compose(m)
    BY <1>1
  <2>2. job' = [pc |-> "put", msg |-> {m}, todo |-> Frames(m), cur |-> {}] /\ job.pc = "idle"
    BY <2>1 DEF Compose
  <2> QED BY <2>1, <2>2, FramesTyped DEF PutOutbox
<1>2. PutOutbox(f) => f \notin job'.todo
  BY <1>0 DEF PutOutbox
<1>3. CASE \E m \in Msg : PrepareFails(m) \/ Finish(m)
  <2>1. job'.todo \subseteq job.todo /\ job'.cur \subseteq job.cur
    BY <1>0, <1>3 DEF PrepareFails, Finish, NoJob
  <2> QED BY <1>2, <2>1
<1>4. CASE \E g \in Frame : PutOutbox(g)
  <2>1. PICK g \in Frame : PutOutbox(g)
    BY <1>4
  <2>2. job'.todo = job.todo \ {g} /\ job'.cur = {g}
    BY <1>0, <2>1 DEF PutOutbox
  <2> QED BY <1>2, <2>1, <2>2
<1>5. CASE \E g \in Frame : MarkFirst(g) \/ \E ok \in BOOLEAN : SendFirst(g, ok)
  <2>1. job'.todo \subseteq job.todo /\ job'.cur \subseteq job.cur
    BY <1>0, <1>5 DEF SendFirst, MarkFirst
  <2> QED BY <1>2, <2>1
<1>6. CASE SenderCrash
  BY <1>2, <1>6 DEF SenderCrash, NoJob
<1>7. CASE UNCHANGED job
  BY <1>2, <1>7
<1> QED BY <1>1, <1>3, <1>4, <1>5, <1>6, <1>7, JobChanges DEF UseCase

LEMMA FlushedStep ==
    ASSUME TypeOK, Step, NEW f \in Frame, f \in flush'.todo \cup flush'.cur
    PROVE  f \in flush.todo \cup flush.cur \/ outbox[f].st # "none"
<1>0. flush \in [pc : {"idle", "scan", "sent", "unsent", "fail"}, todo : SUBSET Frame,
                 cur : SUBSET Frame, due : SUBSET Frame, old : SUBSET Frame]
  BY DEF TypeOK
<1>1. CASE \E g \in Frame : FlushExpire(g)
  <2>1. \E g \in Frame : g \in flush.todo /\ flush'.todo = flush.todo \ {g} /\ flush'.cur = {g}
    BY <1>0, <1>1 DEF FlushExpire, First
  <2> QED BY <2>1
<1>2. CASE \E g \in Frame : FlushFail(g) \/ FlushSkip(g)
  <2>1. \E g \in Frame : flush'.todo \subseteq flush.todo /\ flush'.cur \subseteq flush.cur
    BY <1>0, <1>2 DEF FlushFail, FlushSkip
  <2> QED BY <2>1
<1>3. CASE \E g \in Frame : FlushMark(g)
  BY <1>0, <1>3 DEF FlushMark, NoFlush
<1>4. CASE \E g \in Frame, ok \in BOOLEAN : FlushSend(g, ok)
  BY <1>0, <1>4 DEF FlushSend, First
<1>5. CASE FlushStart
  BY <1>5 DEF FlushStart
<1>6. CASE FlushEnd \/ SenderCrash
  BY <1>6 DEF FlushEnd, SenderCrash, NoFlush
<1> QED BY <1>1, <1>2, <1>3, <1>4, <1>5, <1>6, FlushChanges DEF FlushStep

\* Only the use case puts a frame into the world.
LEMMA SeenStep ==
    ASSUME TypeOK, RxShape, Step, NEW f \in Frame, Seen(f)'
    PROVE  Seen(f) \/ PutOutbox(f)
<1>1. CASE outbox'[f].st # "none"
  BY <1>1, RowStep DEF Seen
<1>2. CASE f \in job'.cur \cup flush'.todo \cup flush'.cur
  BY <1>2, TodoStep, FlushedStep DEF Seen
<1>3. CASE Queued(f)'
  BY <1>3, ServerTyped DEF Seen
<1>4. CASE f \in rx'[f.to].frames
  <2>1. Handle(f) => f \in rx[f.to].frames
    BY HandleRx
  <2>2. Deliver(f) => Queued(f)
    BY DEF Deliver, Queued
  <2> QED BY <1>4, <2>1, <2>2, RxStep DEF Seen
<1>5. CASE processed'[f] # "none"
  <2>1. CASE \E g \in Frame : Remember(g)
    BY <1>5, <2>1 DEF Remember, At, Seen, TypeOK
  <2>2. CASE \E g \in Frame : PruneProcessed(g)
    BY <1>5, <2>2 DEF PruneProcessed, Seen, TypeOK
  <2> QED BY <1>5, <2>1, <2>2, StoreChanges DEF Seen, Store
<1>6. CASE f \in ratchet'
  <2>1. CASE \E g \in Frame : Handle(g)
    BY <1>6, <2>1 DEF Handle, Lookup, Decrypt, DecryptUnusable, OpenRejected, DropBlocked,
       InstallKey, Store, RefusePointer, Remember, SendReceipt, SendAck, At, Seen
  <2>2. CASE (\E g \in Frame : Deliver(g)) \/ \E p \in Peer : PeerCrash(p)
    BY <1>6, <2>2 DEF Deliver, PeerCrash, Seen
  <2> QED BY <1>6, <2>1, <2>2, HandlerChanges DEF Seen
<1>7. CASE f.kind = "content" /\ <<f.msg, f.to>> \in stored'
  <2>1. ASSUME NEW g \in Frame, Store(g), <<f.msg, f.to>> = <<g.msg, g.to>> PROVE Seen(f)
    <3>1. f = g
      BY <1>7, <2>1 DEF Store, Frame
    <3> QED BY <2>1, <3>1 DEF Store, Opens, At, Seen
  <2> QED BY <1>7, <2>1, StoreChanges DEF Seen, Store, Remember, PruneProcessed
<1> QED BY <1>1, <1>2, <1>3, <1>4, <1>5, <1>6, <1>7 DEF Seen

-----------------------------------------------------------------------------
(* Statuses and receipts.                                                  *)

LEMMA RecordFacts ==
    ASSUME TypeOK, NEW kind, NEW m \in Msg, NEW p \in Peer, NEW asRead,
           RecordReceipt(kind, m, p, asRead)
    PROVE  /\ <<kind, m, p>> \in receipts /\ confirm = {} /\ confirm' = {<<m, p>>}
           /\ \A q \in readBy[m] : q \in readBy'[m]
           /\ \A q \in readBy'[m] : q \in readBy[m] \/ q = p
           /\ \A q : q \in deliveredTo'[m] <=> q \in deliveredTo[m] \/ q = p \/ q \in readBy'[m]
           /\ status'[m] = Aggregate(m, deliveredTo'[m], readBy'[m])
           /\ \A n \in Msg : n # m => /\ readBy'[n] = readBy[n] /\ status'[n] = status[n]
                                      /\ deliveredTo'[n] = deliveredTo[n]
<1> DEFINE read == readBy[m] \cup (IF asRead THEN {p} ELSE {})
           delivered == deliveredTo[m] \cup {p} \cup read
<1>1. /\ status' = [status EXCEPT ![m] = Aggregate(m, delivered, read)]
      /\ readBy' = [readBy EXCEPT ![m] = read]
      /\ deliveredTo' = [deliveredTo EXCEPT ![m] = delivered]
      /\ <<kind, m, p>> \in receipts /\ confirm = {} /\ confirm' = {<<m, p>>}
  BY DEF RecordReceipt
<1>2. read = readBy[m] \/ read = readBy[m] \cup {p}
  BY DEF TypeOK
<1>3. delivered = deliveredTo[m] \cup {p} \cup read
  OBVIOUS
<1> HIDE DEF read, delivered
<1> QED BY <1>1, <1>2, <1>3 DEF TypeOK

\* Marks of receipt are kept, and a message that is written stays written.
LEMMA StatusStep ==
    ASSUME TypeOK, Step, NEW m \in Msg
    PROVE  /\ deliveredTo[m] \subseteq deliveredTo'[m] /\ readBy[m] \subseteq readBy'[m]
           /\ status[m] # "none" => status'[m] # "none"
<1>1. CASE \E n \in Msg : Compose(n) \/ Finish(n) \/ RecoverStuck(n)
  BY <1>1 DEF Compose, Finish, RecoverStuck, IfSending, TypeOK
<1>2. CASE \E f \in Frame : FlushFail(f)
  BY <1>2, FrameParts DEF FlushFail, TypeOK
<1>3. CASE \E n \in Msg, p \in Peer, kind \in {"delivered", "read"}, asRead \in BOOLEAN :
              RecordReceipt(kind, n, p, asRead)
  <2>1. PICK n \in Msg, p \in Peer, kind \in {"delivered", "read"}, asRead \in BOOLEAN :
                RecordReceipt(kind, n, p, asRead)
    BY <1>3
  <2>2. Aggregate(n, deliveredTo'[n], readBy'[n]) # "none"
    BY DEF Aggregate
  <2>3. CASE m = n
    BY <2>1, <2>2, <2>3, RecordFacts
  <2>4. CASE m # n
    BY <2>1, <2>4, RecordFacts
  <2> QED BY <2>3, <2>4
<1>4. CASE UNCHANGED messageVars
  BY <1>4 DEF messageVars
<1> QED BY <1>1, <1>2, <1>3, <1>4, StatusChanges

LEMMA StoredGrows ==
    ASSUME Step PROVE stored \subseteq stored'
<1>1. CASE \E f \in Frame : Store(f) \/ Remember(f) \/ PruneProcessed(f)
  BY <1>1 DEF Store, Remember, PruneProcessed
<1> QED BY <1>1, StoreChanges

LEMMA StoredIsSeen ==
    ASSUME Inv, NEW m \in Msg, NEW p \in Peer, <<m, p>> \in stored
    PROVE  Seen(Content(m, p)) /\ p \in To[m]
<1>1. Seen(Content(m, p))
  BY ContentTyped DEF Seen
<1>2. Content(m, p) \in Frames(m)
  BY <1>1, ContentTyped DEF Inv, Genuine
<1> QED BY <1>1, <1>2, FramesTyped, ContentTyped DEF Inv

\* A receipt is for a recipient of the message, who has it.
LEMMA ReceiptIsBacked ==
    ASSUME Inv, NEW kind, NEW m \in Msg, NEW p \in Peer, <<kind, m, p>> \in receipts
    PROVE  <<m, p>> \in stored /\ p \in To[m]
<1>1. <<m, p>> \in stored
  BY DEF Inv, Backed
<1> QED BY <1>1, StoredIsSeen

-----------------------------------------------------------------------------
(* The inductive invariant.                                                *)

LEMMA InitInv == Init => Inv
<1> SUFFICES ASSUME Init PROVE Inv
  OBVIOUS
<1>1. TypeOK
  BY InitTyped
<1>2. \A f \in Frame : ~Seen(f) /\ f \notin job.todo /\ ~outbox[f].old
  BY FrameParts DEF Init, Seen, NoRow, NoJob, NoFlush, NoRx, Queued
<1>3. JobShape /\ FlushShape /\ RxShape
  BY DEF Init, NoJob, NoFlush, NoRx, JobShape, FlushShape, RxShape
<1>4. Fresh /\ Genuine
  BY <1>2 DEF Fresh, Genuine
<1>5. Aged
  BY <1>2 DEF Aged, Init, NoFlush
<1>6. Backed /\ DeliveredIsStored /\ Shown
  BY DEF Init, NoRx, Backed, DeliveredIsStored, Shown
<1> QED BY <1>1, <1>3, <1>4, <1>5, <1>6 DEF Inv

LEMMA EnvKept ==
    ASSUME Next
    PROVE  /\ To' = To /\ MayAge' = MayAge /\ SenderCrashes' = SenderCrashes
           /\ PeerCrashes' = PeerCrashes /\ Grouped' = Grouped /\ Pointer' = Pointer
           /\ Crowded' = Crowded
           /\ \A m \in Msg : Frames(m)' = Frames(m)
BY DEF Next, To, MayAge, SenderCrashes, PeerCrashes, Crowded, Grouped, Pointer, Frames

LEMMA FreshStep ==
    ASSUME Inv, Next PROVE Fresh'
<1>1. Step
  BY DEF Next
<1> SUFFICES ASSUME NEW f \in Frame, status'[f.msg] = "none" \/ f \in job'.todo, Seen(f)'
             PROVE  FALSE
  BY DEF Fresh
<1>2. Seen(f) \/ PutOutbox(f)
  BY <1>1, SeenStep DEF Inv
<1>3. CASE status'[f.msg] = "none"
  <2>1. status[f.msg] = "none"
    BY <1>1, <1>3, StatusStep, FrameParts DEF Inv
  <2>2. f \notin job.todo
    BY <2>1 DEF Inv, JobShape
  <2> QED BY <1>2, <2>1, <2>2 DEF Inv, Fresh, PutOutbox, First
<1>4. CASE f \in job'.todo
  <2>1. ~PutOutbox(f) /\ (f \in job.todo \/ Compose(f.msg))
    BY <1>1, <1>4, TodoStep DEF Inv
  <2>2. f \in job.todo \/ status[f.msg] = "none"
    BY <2>1 DEF Compose
  <2> QED BY <1>2, <2>1, <2>2 DEF Inv, Fresh
<1> QED BY <1>3, <1>4

LEMMA GenuineStep ==
    ASSUME Inv, Next PROVE Genuine'
<1>1. Step
  BY DEF Next
<1> SUFFICES ASSUME NEW f \in Frame, Seen(f)' \/ f \in job'.todo PROVE f \in Frames(f.msg)
  BY EnvKept, FrameParts DEF Genuine
<1>2. Seen(f)' => Seen(f) \/ f \in job.todo
  BY <1>1, SeenStep DEF Inv, PutOutbox, First
<1>3. f \in job'.todo => f \in job.todo \/ f \in Frames(f.msg)
  BY <1>1, TodoStep DEF Inv
<1> QED BY <1>2, <1>3 DEF Inv, Genuine

LEMMA FlushMarkEnds ==
    ASSUME TypeOK, NEW f \in Frame, FlushMark(f)
    PROVE  flush'.pc \in {"scan", "idle"} /\ flush'.cur = {} /\ flush'.old \subseteq flush.old
<1>1. flush \in [pc : {"idle", "scan", "sent", "unsent", "fail"}, todo : SUBSET Frame,
                 cur : SUBSET Frame, due : SUBSET Frame, old : SUBSET Frame]
  BY DEF TypeOK
<1>2. CASE flush.pc = "sent"
  BY <1>1, <1>2 DEF FlushMark
<1>3. CASE flush.pc # "sent"
  BY <1>3 DEF FlushMark, NoFlush
<1> QED BY <1>2, <1>3

LEMMA FlushShapeStep ==
    ASSUME Inv, Next PROVE FlushShape'
<1>0. flush \in [pc : {"idle", "scan", "sent", "unsent", "fail"}, todo : SUBSET Frame,
                 cur : SUBSET Frame, due : SUBSET Frame, old : SUBSET Frame]
      /\ FlushShape /\ Step
  BY DEF TypeOK, Inv, Next
<1>1. CASE \E f \in Frame : FlushExpire(f) \/ \E ok \in BOOLEAN : FlushSend(f, ok)
  <2>1. \E f \in Frame : flush'.cur = {f}
    BY <1>0, <1>1 DEF FlushExpire, FlushSend
  <2> QED BY <2>1 DEF FlushShape
<1>2. CASE \E f \in Frame : FlushFail(f) \/ FlushSkip(f) \/ FlushMark(f)
  <2>1. flush'.cur \subseteq flush.cur
    <3>1. CASE \E f \in Frame : FlushMark(f)
      BY <3>1, FlushMarkEnds DEF Inv
    <3> QED BY <1>0, <1>2, <3>1 DEF FlushFail, FlushSkip
  <2> QED BY <1>0, <2>1 DEF FlushShape
<1>3. CASE FlushStart \/ FlushEnd \/ SenderCrash
  BY <1>3 DEF FlushStart, FlushEnd, SenderCrash, NoFlush, FlushShape
<1>4. CASE UNCHANGED flush
  BY <1>0, <1>4 DEF FlushShape
<1> QED BY <1>0, <1>1, <1>2, <1>3, <1>4, FlushChanges DEF FlushStep

LEMMA AgedStep ==
    ASSUME Inv, Next PROVE Aged'
<1>0. Step /\ TypeOK /\ Aged /\ Fresh
  BY DEF Next, Inv
<1>1. flush \in [pc : {"idle", "scan", "sent", "unsent", "fail"}, todo : SUBSET Frame,
                 cur : SUBSET Frame, due : SUBSET Frame, old : SUBSET Frame]
  BY <1>0 DEF TypeOK
<1>2. ASSUME NEW m \in Msg, m \notin job.msg, m \in job'.msg PROVE status[m] = "none"
  <2>0. job \in [pc : {"idle", "put", "send", "sent", "unsent", "abort"},
                 msg : SUBSET Msg, todo : SUBSET Frame, cur : SUBSET Frame]
    BY <1>0 DEF TypeOK
  <2>1. CASE \E n \in Msg : Compose(n)
    BY <1>2, <2>1 DEF Compose
  <2>2. CASE \E n \in Msg : PrepareFails(n) \/ Finish(n)
    BY <1>2, <2>0, <2>2 DEF PrepareFails, Finish, NoJob
  <2>3. CASE \E f \in Frame : PutOutbox(f) \/ MarkFirst(f) \/ \E ok \in BOOLEAN : SendFirst(f, ok)
    BY <1>2, <2>0, <2>3 DEF PutOutbox, MarkFirst, SendFirst
  <2>4. CASE SenderCrash
    BY <1>2, <2>4 DEF SenderCrash, NoJob
  <2> QED BY <1>0, <1>2, <2>1, <2>2, <2>3, <2>4, JobChanges DEF UseCase
<1>3. flush'.old \subseteq flush.old \/ flush'.old = {f \in Frame : outbox[f].old}
  <2>1. CASE \E f \in Frame : FlushExpire(f) \/ FlushFail(f) \/ FlushSkip(f)
    BY <1>1, <2>1 DEF FlushExpire, FlushFail, FlushSkip
  <2>4. CASE \E f \in Frame : FlushMark(f)
    BY <1>0, <2>4, FlushMarkEnds
  <2>2. CASE \E f \in Frame, ok \in BOOLEAN : FlushSend(f, ok)
    BY <1>1, <2>2 DEF FlushSend
  <2>3. CASE FlushStart \/ FlushEnd \/ SenderCrash
    BY <2>3 DEF FlushStart, FlushEnd, SenderCrash, NoFlush
  <2> QED BY <1>0, <2>1, <2>2, <2>3, <2>4, FlushChanges DEF FlushStep
<1>4. flush'.pc = "fail" => flush.pc = "fail" \/ \E f \in Frame : f \in flush.old
  <2>1. CASE \E f \in Frame : FlushExpire(f) \/ FlushFail(f) \/ FlushSkip(f)
    BY <1>1, <2>1 DEF FlushExpire, FlushFail, FlushSkip
  <2>4. CASE \E f \in Frame : FlushMark(f)
    BY <1>0, <2>4, FlushMarkEnds
  <2>2. CASE \E f \in Frame, ok \in BOOLEAN : FlushSend(f, ok)
    BY <1>1, <2>2 DEF FlushSend
  <2>3. CASE FlushStart \/ FlushEnd \/ SenderCrash
    BY <2>3 DEF FlushStart, FlushEnd, SenderCrash, NoFlush
  <2> QED BY <1>0, <2>1, <2>2, <2>3, <2>4, FlushChanges DEF FlushStep
<1>5. ASSUME NEW f \in Frame, outbox'[f].old \/ f \in flush'.old
      PROVE  MayAge /\ f.msg \notin job'.msg /\ status'[f.msg] # "none"
  <2>1. \/ outbox[f].old \/ f \in flush.old
        \/ MayAge /\ f.msg \notin job'.msg /\ outbox[f].st # "none"
    BY <1>0, <1>3, <1>5, RowStep
  <2>2. outbox[f].st # "none" => status[f.msg] # "none"
    BY <1>0 DEF Fresh, Seen
  <2>3. MayAge /\ f.msg \notin job'.msg /\ status[f.msg] # "none"
    BY <1>0, <1>2, <2>1, <2>2, FrameParts DEF Aged
  <2> QED BY <1>0, <2>3, StatusStep, FrameParts
<1> QED BY <1>0, <1>4, <1>5, EnvKept DEF Aged

\* While the use case runs, its message is not yet shown as sent: a receipt
\* may be in before it ends, and then someone has the message.
LEMMA JobStatusStep ==
    ASSUME Inv, Next, NEW m \in job.msg, m \in job'.msg
    PROVE  /\ status'[m] # "none"
           /\ status'[m] \in {"sending", "failed"} \/ \E p \in To[m] : p \in deliveredTo'[m]
<1>0. Step /\ TypeOK /\ m \in Msg
  BY DEF Next, Inv, TypeOK
<1>1. /\ status[m] # "none"
      /\ status[m] \in {"sending", "failed"} \/ \E p \in To[m] : p \in deliveredTo[m]
  BY DEF Inv, JobShape
<1>2. status'[m] # "none"
  BY <1>0, <1>1, StatusStep
<1>3. CASE \E n \in Msg : Compose(n) \/ Finish(n) \/ RecoverStuck(n)
  BY <1>0, <1>1, <1>2, <1>3 DEF Compose, Finish, RecoverStuck, NoJob, TypeOK, Inv, JobShape
<1>4. CASE \E f \in Frame : FlushFail(f)
  BY <1>0, <1>1, <1>2, <1>4, FrameParts DEF FlushFail, TypeOK
<1>5. CASE \E n \in Msg, p \in Peer, kind \in {"delivered", "read"}, asRead \in BOOLEAN :
              RecordReceipt(kind, n, p, asRead)
  <2>1. PICK n \in Msg, p \in Peer, kind \in {"delivered", "read"}, asRead \in BOOLEAN :
                RecordReceipt(kind, n, p, asRead)
    BY <1>5
  <2>2. CASE m = n
    <3>1. <<kind, n, p>> \in receipts /\ p \in deliveredTo'[n]
      BY <1>0, <2>1, RecordFacts
    <3>2. p \in To[n]
      BY <3>1, ReceiptIsBacked
    <3> QED BY <1>2, <2>2, <3>1, <3>2
  <2>3. CASE m # n
    BY <1>0, <1>1, <2>1, <2>3, RecordFacts
  <2> QED BY <2>2, <2>3
<1>6. CASE UNCHANGED messageVars
  BY <1>1, <1>6 DEF messageVars
<1> QED BY <1>0, <1>3, <1>4, <1>5, <1>6, StatusChanges

Job == [pc : {"idle", "put", "send", "sent", "unsent", "abort"},
        msg : SUBSET Msg, todo : SUBSET Frame, cur : SUBSET Frame]

\* The parts of JobShape that are about the use case alone.
JobOnly ==
    /\ \A f \in job.todo \cup job.cur : f.msg \in job.msg
    /\ \A m, n \in job.msg : m = n
    /\ job.pc = "idle" => job.msg = {}
    /\ job.pc = "abort" => \A m \in job.msg : \A p \in To[m] : Content(m, p) \in job.todo
    /\ \A m \in job.msg : (\E p \in To[m] : Content(m, p) \notin job.todo) =>
          \A g \in job.todo : g.kind = "content"

LEMMA JobOnlyStep ==
    ASSUME Inv, Next PROVE JobOnly'
<1>0. Step /\ TypeOK /\ job \in Job
  BY DEF Next, Inv, TypeOK, Job
<1>1. JobOnly
  BY DEF Inv, JobShape, JobOnly
<1>2. ASSUME NEW m \in Msg, Compose(m) PROVE JobOnly'
  <2>1. job' = [pc |-> "put", msg |-> {m}, todo |-> Frames(m), cur |-> {}]
    BY <1>2 DEF Compose
  <2>2. \A p \in To[m] : Content(m, p) \in Frames(m)
    BY <1>0, FramesTyped
  <2>3. \A f \in Frames(m) : f.msg = m
    BY <1>0, FramesTyped
  <2> QED BY <2>1, <2>2, <2>3, EnvKept DEF JobOnly, Content
<1>3. ASSUME NEW m \in Msg, PrepareFails(m) PROVE JobOnly'
  <2>1. /\ job'.pc = "abort" /\ job'.msg = job.msg /\ job'.todo = job.todo /\ job'.cur = job.cur
        /\ m \in job.msg /\ \A p \in To[m] : Content(m, p) \in job.todo
    BY <1>0, <1>3 DEF PrepareFails, Job
  <2> QED BY <1>1, <2>1, EnvKept DEF JobOnly, Content
<1>4. ASSUME NEW f \in Frame, PutOutbox(f) PROVE JobOnly'
  <2>1. /\ job'.pc = "send" /\ job'.msg = job.msg /\ job'.todo = job.todo \ {f}
        /\ job'.cur = {f} /\ First(f, job.todo)
    BY <1>0, <1>4 DEF PutOutbox, Job
  <2>2. ASSUME NEW m \in job.msg, NEW p \in To[m], Content(m, p) \notin job'.todo
        PROVE  \A g \in job'.todo : g.kind = "content"
    <3>1. CASE Content(m, p) \notin job.todo
      BY <1>1, <2>1, <3>1 DEF JobOnly
    <3>2. CASE Content(m, p) = f
      <4>1. f.kind = "content"
        BY <3>2 DEF Content
      <4> QED BY <1>1, <2>1, <4>1 DEF JobOnly, First
    <3> QED BY <2>1, <2>2, <3>1, <3>2
  <2>3. \A g \in job'.todo \cup job'.cur : g.msg \in job'.msg
    BY <1>1, <2>1 DEF JobOnly, First
  <2> QED BY <1>1, <2>1, <2>2, <2>3, EnvKept DEF JobOnly, Content
<1>5. ASSUME NEW f \in Frame, MarkFirst(f) \/ \E ok \in BOOLEAN : SendFirst(f, ok) PROVE JobOnly'
  <2>1. /\ job'.pc \in {"put", "sent", "unsent"} /\ job'.msg = job.msg /\ job'.todo = job.todo
        /\ job'.cur \subseteq job.cur
    BY <1>0, <1>5 DEF MarkFirst, SendFirst, Job
  <2> QED BY <1>1, <2>1, EnvKept DEF JobOnly, Content
<1>6. ASSUME SenderCrash \/ \E m \in Msg : Finish(m) PROVE JobOnly'
  BY <1>6 DEF SenderCrash, Finish, NoJob, JobOnly
<1>7. ASSUME UNCHANGED job PROVE JobOnly'
  BY <1>1, <1>7, EnvKept DEF JobOnly, Content
<1> QED BY <1>0, <1>2, <1>3, <1>4, <1>5, <1>6, <1>7, JobChanges DEF UseCase

LEMMA JobShapeStep ==
    ASSUME Inv, Next PROVE JobShape'
<1>1. JobOnly'
  BY JobOnlyStep
<1>2. ASSUME NEW m \in job'.msg, m \notin job.msg PROVE status'[m] = "sending" /\ m \in Msg
  <2>0. job \in Job /\ status \in [Msg -> {"none", "sending", "sent", "delivered", "read", "failed"}]
    BY DEF Inv, TypeOK, Job
  <2>1. CASE \E n \in Msg : Compose(n)
    BY <1>2, <2>0, <2>1 DEF Compose
  <2>2. CASE \E n \in Msg : PrepareFails(n) \/ Finish(n)
    BY <1>2, <2>0, <2>2 DEF PrepareFails, Finish, NoJob, Job
  <2>3. CASE \E f \in Frame : PutOutbox(f) \/ MarkFirst(f) \/ \E ok \in BOOLEAN : SendFirst(f, ok)
    BY <1>2, <2>0, <2>3 DEF PutOutbox, MarkFirst, SendFirst, Job
  <2>4. CASE SenderCrash
    BY <1>2, <2>4 DEF SenderCrash, NoJob
  <2> QED BY <1>2, <2>1, <2>2, <2>3, <2>4, JobChanges DEF UseCase, Next
<1>3. ASSUME NEW m \in job'.msg
      PROVE  /\ status'[m] # "none"
             /\ status'[m] \in {"sending", "failed"} \/ \E p \in To[m] : p \in deliveredTo'[m]
  BY <1>2, <1>3, JobStatusStep
<1> QED BY <1>1, <1>3, EnvKept DEF JobOnly, JobShape

-----------------------------------------------------------------------------
(* Receipts are honest.                                                    *)

LEMMA BackedStep ==
    ASSUME Inv, Next PROVE Backed'
<1>0. Step /\ TypeOK /\ Backed /\ RxShape
  BY DEF Next, Inv
<1>1. stored \subseteq stored'
  BY <1>0, StoredGrows
<1>2. ASSUME NEW f \in Frame, f \in rx'[f.to].frames,
             \/ rx'[f.to].pc = "receipt"
             \/ rx'[f.to].pc = "remember" /\ rx'[f.to].receipt
      PROVE  <<f.msg, f.to>> \in stored'
  <2>0. f.to \in Peer /\ rx \in [Peer -> RxRow]
    BY <1>0, FrameParts DEF TypeOK, RxRow
  <2>1. CASE rx'[f.to] = rx[f.to]
    BY <1>0, <1>1, <1>2, <2>0, <2>1 DEF Backed
  <2>2. CASE Deliver(f)
    BY <1>2, <2>0, <2>2 DEF Deliver
  <2>3. CASE Lookup(f)
    BY <1>0, <1>1, <1>2, <2>0, <2>3 DEF Lookup, Backed, TypeOK, RxRow
  <2>4. CASE Decrypt(f) \/ DecryptUnusable(f) \/ OpenRejected(f)
    BY <1>2, <2>0, <2>4 DEF Decrypt, DecryptUnusable, OpenRejected, Return, Goto, Processed, NoRx,
                            RxRow
  <2>5. CASE DropBlocked(f) \/ InstallKey(f) \/ RefusePointer(f)
    BY <1>2, <2>0, <2>5 DEF DropBlocked, InstallKey, RefusePointer, Return, Processed, NoRx, RxRow
  <2>6. CASE Store(f)
    BY <2>6 DEF Store
  <2>7. CASE Remember(f)
    BY <1>0, <1>1, <1>2, <2>0, <2>7 DEF Remember, At, Goto, Backed, RxRow
  <2>8. CASE \E ok \in BOOLEAN : SendReceipt(f, ok) \/ SendAck(f, ok)
    BY <1>2, <2>0, <2>8 DEF SendReceipt, SendAck, Return, Goto, NoRx, RxRow
  <2> QED BY <1>0, <1>2, <2>1, <2>2, <2>3, <2>4, <2>5, <2>6, <2>7, <2>8, RxStep DEF Handle
<1>3. ASSUME NEW p \in Peer, NEW f \in rx'[p].frames,
             rx'[p].pc = "receipt" \/ (rx'[p].pc = "remember" /\ rx'[p].receipt)
      PROVE  <<f.msg, f.to>> \in stored'
  <2>1. RxShape' /\ rx' \in [Peer -> RxRow]
    BY <1>0, RxShapeStep, HandlerTyped
  <2>2. f.to = p /\ f \in Frame
    BY <1>3, <2>1 DEF RxShape, RxRow
  <2> QED BY <1>2, <1>3, <2>2
<1>4. ASSUME NEW r \in receipts' PROVE <<r[2], r[3]>> \in stored'
  <2>1. CASE \E f \in Frame, ok \in BOOLEAN : SendReceipt(f, ok)
    <3>1. PICK f \in Frame, ok \in BOOLEAN : SendReceipt(f, ok)
      BY <2>1
    <3>2. <<f.msg, f.to>> \in stored
      BY <1>0, <3>1, FrameParts DEF SendReceipt, At, Backed
    <3>3. r \in receipts \/ r = <<"delivered", f.msg, f.to>>
      BY <1>4, <3>1 DEF SendReceipt
    <3> QED BY <1>0, <1>1, <3>2, <3>3 DEF Backed
  <2>2. CASE \E m \in Msg, p \in Peer, ok \in BOOLEAN : ReadMessage(m, p, ok)
    <3>1. PICK m \in Msg, p \in Peer, ok \in BOOLEAN : ReadMessage(m, p, ok)
      BY <2>2
    <3>2. <<m, p>> \in stored /\ (r \in receipts \/ r = <<"read", m, p>>)
      BY <1>4, <3>1 DEF ReadMessage
    <3> QED BY <1>0, <1>1, <3>2 DEF Backed
  <2> QED BY <1>0, <1>1, <1>4, <2>1, <2>2, ReceiptChanges DEF Backed
<1>5. ASSUME NEW f \in Frame, processed'[f] = "receipt" PROVE <<f.msg, f.to>> \in stored'
  <2>1. CASE \E g \in Frame : Remember(g)
    <3>1. PICK g \in Frame : Remember(g)
      BY <2>1
    <3>2. CASE g = f /\ rx[f.to].receipt
      BY <1>0, <1>1, <3>1, <3>2, FrameParts DEF Remember, At, Backed
    <3>3. CASE ~(g = f /\ rx[f.to].receipt)
      BY <1>0, <1>1, <1>5, <3>1, <3>3 DEF Remember, Backed, TypeOK
    <3> QED BY <3>2, <3>3
  <2>2. CASE \E g \in Frame : PruneProcessed(g)
    BY <1>0, <1>1, <1>5, <2>2 DEF PruneProcessed, Backed, TypeOK
  <2> QED BY <1>0, <1>1, <1>5, <2>1, <2>2, StoreChanges DEF Backed, Store
<1>6. ASSUME NEW m \in Msg PROVE readBy'[m] \subseteq deliveredTo'[m]
  <2>1. CASE \E n \in Msg, p \in Peer, kind \in {"delivered", "read"}, asRead \in BOOLEAN :
                RecordReceipt(kind, n, p, asRead)
    <3>1. PICK n \in Msg, p \in Peer, kind \in {"delivered", "read"}, asRead \in BOOLEAN :
                RecordReceipt(kind, n, p, asRead)
      BY <2>1
    <3>2. CASE m = n
      BY <1>0, <3>1, <3>2, RecordFacts
    <3>3. CASE m # n
      BY <1>0, <3>1, <3>3, RecordFacts DEF Backed
    <3> QED BY <3>2, <3>3
  <2>2. CASE UNCHANGED <<deliveredTo, readBy>>
    BY <1>0, <2>2 DEF Backed
  <2> QED BY <1>0, <2>1, <2>2, StatusChanges
          DEF Compose, Finish, RecoverStuck, FlushFail, messageVars
<1>7. ASSUME NEW m \in Msg, NEW p \in Peer, <<m, p>> \in confirm' PROVE p \in deliveredTo'[m]
  <2>1. CASE \E n \in Msg, q \in Peer, kind \in {"delivered", "read"}, asRead \in BOOLEAN :
                RecordReceipt(kind, n, q, asRead)
    <3>1. PICK n \in Msg, q \in Peer, kind \in {"delivered", "read"}, asRead \in BOOLEAN :
                RecordReceipt(kind, n, q, asRead)
      BY <2>1
    <3>2. confirm' = {<<n, q>>} /\ q \in deliveredTo'[n]
      BY <1>0, <3>1, RecordFacts
    <3> QED BY <1>7, <3>2
  <2>2. CASE \E n \in Msg, q \in Peer : DeleteDelivered(n, q)
    BY <1>7, <2>2 DEF DeleteDelivered
  <2>3. CASE SenderCrash
    BY <1>7, <2>3 DEF SenderCrash
  <2>4. CASE UNCHANGED confirm
    BY <1>0, <1>7, <2>4, StatusStep DEF Backed
  <2> QED BY <1>0, <2>1, <2>2, <2>3, <2>4, ConfirmChanges DEF Receive
<1>8. ASSUME NEW c \in confirm', NEW d \in confirm' PROVE c = d
  <2>1. CASE \E n \in Msg, q \in Peer, kind \in {"delivered", "read"}, asRead \in BOOLEAN :
                RecordReceipt(kind, n, q, asRead)
    <3>1. PICK n \in Msg, q \in Peer, kind \in {"delivered", "read"}, asRead \in BOOLEAN :
                RecordReceipt(kind, n, q, asRead)
      BY <2>1
    <3>2. confirm' = {<<n, q>>}
      BY <1>0, <3>1, RecordFacts
    <3> QED BY <1>8, <3>2
  <2>2. CASE \E n \in Msg, q \in Peer : DeleteDelivered(n, q)
    BY <1>8, <2>2 DEF DeleteDelivered
  <2>3. CASE SenderCrash
    BY <1>8, <2>3 DEF SenderCrash
  <2> QED BY <1>0, <1>8, <2>1, <2>2, <2>3, ConfirmChanges DEF Receive, Backed
<1> QED BY <1>3, <1>4, <1>5, <1>6, <1>7, <1>8 DEF Backed

LEMMA DeliveredStep ==
    ASSUME Inv, Next PROVE DeliveredIsStored'
<1>0. Step /\ TypeOK /\ DeliveredIsStored /\ Backed
  BY DEF Next, Inv
<1>1. stored \subseteq stored'
  BY <1>0, StoredGrows
<1>2. CASE \E n \in Msg, p \in Peer, kind \in {"delivered", "read"}, asRead \in BOOLEAN :
              RecordReceipt(kind, n, p, asRead)
  <2>1. PICK n \in Msg, p \in Peer, kind \in {"delivered", "read"}, asRead \in BOOLEAN :
              RecordReceipt(kind, n, p, asRead)
    BY <1>2
  <2>2. <<kind, n, p>> \in receipts
    BY <1>0, <2>1, RecordFacts
  <2>3. <<n, p>> \in stored
    BY <2>2, ReceiptIsBacked
  <2>4. \A q \in Peer : q \in deliveredTo'[n] => q \in deliveredTo[n] \/ q = p
    BY <1>0, <2>1, RecordFacts DEF Backed
  <2>5. \A m \in Msg : m # n => deliveredTo'[m] = deliveredTo[m]
    BY <1>0, <2>1, RecordFacts
  <2> QED BY <1>0, <1>1, <2>3, <2>4, <2>5 DEF DeliveredIsStored
<1>3. CASE UNCHANGED deliveredTo
  BY <1>0, <1>1, <1>3 DEF DeliveredIsStored
<1> QED BY <1>0, <1>2, <1>3, StatusChanges
        DEF Compose, Finish, RecoverStuck, FlushFail, messageVars

\* How the status of a message may change.
LEMMA StatusMoves ==
    ASSUME TypeOK, Step, NEW m \in Msg, status'[m] # status[m]
    PROVE  \/ status[m] = "none" /\ Compose(m)
           \/ status[m] = "sending" /\ status'[m] = "failed"
           \/ status[m] = "sending" /\ status'[m] = "sent" /\ Finish(m)
           \/ status[m] = "sent" /\ status'[m] = "failed"
           \/ \E p \in Peer, kind \in {"delivered", "read"}, asRead \in BOOLEAN :
                 RecordReceipt(kind, m, p, asRead)
<1>1. CASE \E n \in Msg : Compose(n)
  BY <1>1 DEF Compose, TypeOK
<1>2. CASE \E n \in Msg : Finish(n)
  <2>1. PICK n \in Msg : Finish(n)
    BY <1>2
  <2>2. status' = [status EXCEPT ![n] = IfSending(n, IF job.pc = "abort" THEN "failed" ELSE "sent")]
    BY <2>1 DEF Finish
  <2>3. n = m /\ status'[m] = IfSending(m, IF job.pc = "abort" THEN "failed" ELSE "sent")
    BY <2>2 DEF TypeOK
  <2> QED BY <2>1, <2>3 DEF IfSending
<1>3. CASE \E n \in Msg : RecoverStuck(n)
  BY <1>3 DEF RecoverStuck, TypeOK
<1>4. CASE \E f \in Frame : FlushFail(f)
  BY <1>4, FrameParts DEF FlushFail, TypeOK
<1>5. ASSUME NEW n \in Msg, NEW p \in Peer, NEW kind \in {"delivered", "read"},
             NEW asRead \in BOOLEAN, RecordReceipt(kind, n, p, asRead)
      PROVE  n = m
  BY <1>5, RecordFacts
<1> QED BY <1>1, <1>2, <1>3, <1>4, <1>5, StatusChanges DEF messageVars

LEMMA ShownStep ==
    ASSUME Inv, Next PROVE Shown'
<1>0. Step /\ TypeOK /\ Shown
  BY DEF Next, Inv
<1> SUFFICES ASSUME NEW m \in Msg
             PROVE  /\ status'[m] = "delivered" => To[m] \subseteq deliveredTo'[m]
                    /\ status'[m] = "read" => To[m] \subseteq readBy'[m]
  BY EnvKept DEF Shown
<1>1. CASE status'[m] = status[m]
  BY <1>0, <1>1, StatusStep DEF Shown
<1>2. ASSUME NEW p \in Peer, NEW kind \in {"delivered", "read"}, NEW asRead \in BOOLEAN,
             RecordReceipt(kind, m, p, asRead)
      PROVE  /\ status'[m] = "delivered" => To[m] \subseteq deliveredTo'[m]
             /\ status'[m] = "read" => To[m] \subseteq readBy'[m]
  <2>1. status'[m] = Aggregate(m, deliveredTo'[m], readBy'[m])
    BY <1>0, <1>2, RecordFacts
  <2> QED BY <2>1 DEF Aggregate
<1> QED BY <1>0, <1>1, <1>2, StatusMoves DEF Compose, TypeOK

LEMMA InvStep == Inv /\ [Next]_allVars => Inv'
<1>1. ASSUME Inv, Next PROVE Inv'
  <2>1. Step
    BY <1>1 DEF Next
  <2>2. TypeOK' /\ RxShape'
    BY <1>1, <2>1, TypeStep, RxShapeStep DEF Inv
  <2> QED BY <1>1, <2>2, FreshStep, GenuineStep, JobShapeStep, FlushShapeStep, AgedStep,
             BackedStep, DeliveredStep, ShownStep DEF Inv
<1>2. ASSUME Inv, UNCHANGED allVars PROVE Inv'
  <2>1. UNCHANGED <<env, status, deliveredTo, readBy, outbox, job, flush, confirm, server, got, rx,
                    ratchet, keys, stored, processed, receipts, blocked, opened>>
    BY <1>2 DEF allVars, vars
  <2>2. \A m \in Msg : Frames(m)' = Frames(m)
    BY <2>1 DEF Frames, To, Grouped
  <2>3. \A f \in Frame : Seen(f)' = Seen(f)
    BY <2>1 DEF Seen, Queued
  <2>4. TypeOK'
    BY <1>2, TypeStutter DEF Inv
  <2>5. Fresh' /\ Genuine'
    BY <1>2, <2>1, <2>2, <2>3, FrameParts DEF Inv, Fresh, Genuine
  <2>6. JobShape' /\ FlushShape' /\ RxShape'
    BY <1>2, <2>1 DEF Inv, JobShape, FlushShape, RxShape, To, Content
  <2>7. Aged' /\ Backed' /\ DeliveredIsStored' /\ Shown'
    BY <1>2, <2>1 DEF Inv, Aged, Backed, DeliveredIsStored, Shown, MayAge, To
  <2> QED BY <2>4, <2>5, <2>6, <2>7 DEF Inv
<1> QED BY <1>1, <1>2

LEMMA Invariance == Spec => []Inv
BY InitInv, InvStep, PTL DEF Spec, allVars

\* A tick is honest: whoever recordDeliveryReceipt counts as having received a
\* message has written it to durable storage before the receipt was sent.
THEOREM HonestTicks == Spec => []DeliveredIsStored
<1>1. Inv => DeliveredIsStored
  BY DEF Inv
<1> QED BY Invariance, <1>1, PTL

\* No late receipt, retention sweep, recovery of stuck messages or finishing
\* use case takes a delivered or a read message down.
THEOREM StatusNeverFalls == Spec => ReceiptsMonotone
<1>1. ASSUME Inv, [Next]_allVars
      PROVE  [\A m \in Msg : /\ status[m] = "delivered" => status'[m] \in {"delivered", "read"}
                             /\ status[m] = "read" => status'[m] = "read"]_vars
  <2>1. ASSUME Step, NEW m \in Msg, status[m] \in {"delivered", "read"}, status'[m] # status[m]
        PROVE  status[m] = "delivered" /\ status'[m] = "read"
    <3>1. PICK p \in Peer, kind \in {"delivered", "read"}, asRead \in BOOLEAN :
                  RecordReceipt(kind, m, p, asRead)
      BY <1>1, <2>1, StatusMoves DEF Inv
    <3>2. status'[m] = Aggregate(m, deliveredTo'[m], readBy'[m])
      BY <1>1, <3>1, RecordFacts DEF Inv
    <3>3. deliveredTo[m] \subseteq deliveredTo'[m] /\ readBy[m] \subseteq readBy'[m]
      BY <1>1, <2>1, StatusStep DEF Inv
    <3>4. CASE status[m] = "delivered"
      BY <1>1, <2>1, <3>2, <3>3, <3>4 DEF Inv, Shown, Aggregate
    <3>5. CASE status[m] = "read"
      BY <1>1, <2>1, <3>2, <3>3, <3>5 DEF Inv, Shown, Aggregate
    <3> QED BY <2>1, <3>4, <3>5
  <2>2. CASE Next
    BY <2>1, <2>2 DEF Next
  <2>3. CASE UNCHANGED allVars
    BY <2>3 DEF allVars
  <2> QED BY <1>1, <2>2, <2>3
<1> QED BY Invariance, <1>1, PTL DEF Spec, allVars, ReceiptsMonotone

-----------------------------------------------------------------------------
(* A receipt frees the rows.                                               *)

\* The use case cannot write a row for a recipient that has confirmed: its
\* content is out, so the use case is past all its key frames.
LEMMA NoRowAfterReceipt ==
    ASSUME Inv, NEW f \in Frame, f.to \in deliveredTo[f.msg] PROVE ~PutOutbox(f)
<1> SUFFICES ASSUME PutOutbox(f) PROVE FALSE
  OBVIOUS
<1>0. f \in job.todo /\ f.msg \in Msg /\ f.to \in Peer
  BY FrameParts DEF PutOutbox, First
<1>1. <<f.msg, f.to>> \in stored
  BY <1>0 DEF Inv, DeliveredIsStored
<1>2. Seen(Content(f.msg, f.to)) /\ f.to \in To[f.msg]
  BY <1>0, <1>1, StoredIsSeen
<1>3. Content(f.msg, f.to) \notin job.todo
  BY <1>0, <1>2, ContentTyped DEF Inv, Fresh
<1>4. f.kind = "content"
  BY <1>0, <1>2, <1>3 DEF Inv, JobShape
<1>5. f = Content(f.msg, f.to)
  BY <1>4 DEF Frame, Content
<1> QED BY <1>0, <1>3, <1>5

LEMMA RecordConfirms ==
    ASSUME Inv, NEW kind, NEW n \in Msg, NEW q \in Peer, NEW asRead,
           RecordReceipt(kind, n, q, asRead)
    PROVE  \A k \in Msg, r \in Peer : r \in deliveredTo'[k] /\ r \notin deliveredTo[k] =>
              <<k, r>> \in confirm'
<1>0. TypeOK
  BY DEF Inv
<1>1. \A k \in Msg : k # n => deliveredTo'[k] = deliveredTo[k]
  BY <1>0, RecordFacts
<1>2. \A r : r \in deliveredTo'[n] => r \in deliveredTo[n] \/ r = q \/ r \in readBy'[n]
  BY <1>0, RecordFacts
<1>3. \A r \in readBy'[n] : r \in readBy[n] \/ r = q
  BY <1>0, RecordFacts
<1>4. readBy[n] \subseteq deliveredTo[n]
  BY DEF Inv, Backed
<1>5. confirm' = {<<n, q>>}
  BY <1>0, RecordFacts
<1> QED BY <1>1, <1>2, <1>3, <1>4, <1>5

LEMMA FreesStep ==
    ASSUME Inv, ReceiptFreesRows, Next PROVE ReceiptFreesRows'
<1>0. Step /\ TypeOK
  BY DEF Next, Inv
<1> SUFFICES ASSUME NEW m \in Msg, NEW p \in Peer, ~SenderCrashes, p \in deliveredTo'[m],
                    <<m, p>> \notin confirm', NEW f \in Frames(m), f.to = p
             PROVE  outbox'[f].st = "none"
  BY EnvKept DEF ReceiptFreesRows
<1>1. f \in Frame /\ f.msg = m
  BY <1>0, FramesTyped
<1>2. CASE \E n \in Msg, q \in Peer : DeleteDelivered(n, q) /\ <<n, q>> = <<m, p>>
  BY <1>1, <1>2, Rows DEF DeleteDelivered
<1>3. CASE p \in deliveredTo[m] /\ <<m, p>> \notin confirm
  <2>1. outbox[f].st = "none"
    BY <1>3 DEF ReceiptFreesRows
  <2> QED BY <1>0, <1>1, <1>3, <2>1, RowStep, NoRowAfterReceipt
<1>4. CASE p \notin deliveredTo[m]
  <2>1. CASE \E n \in Msg, q \in Peer, kind \in {"delivered", "read"}, asRead \in BOOLEAN :
                RecordReceipt(kind, n, q, asRead)
    <3>1. PICK n \in Msg, q \in Peer, kind \in {"delivered", "read"}, asRead \in BOOLEAN :
                RecordReceipt(kind, n, q, asRead)
      BY <2>1
    <3>2. \A k \in Msg, r \in Peer : r \in deliveredTo'[k] /\ r \notin deliveredTo[k] =>
             <<k, r>> \in confirm'
      BY <3>1, RecordConfirms
    <3> QED BY <1>4, <3>2
  <2>2. deliveredTo' # deliveredTo
    BY <1>4
  <2> QED BY <1>0, <2>1, <2>2, StatusChanges
          DEF Compose, Finish, RecoverStuck, FlushFail, messageVars
<1>5. CASE <<m, p>> \in confirm
  <2>1. CASE \E n \in Msg, q \in Peer : DeleteDelivered(n, q)
    <3>1. PICK n \in Msg, q \in Peer : DeleteDelivered(n, q)
      BY <2>1
    <3>2. CASE <<n, q>> = <<m, p>>
      BY <1>2, <3>1, <3>2
    <3>3. CASE <<n, q>> # <<m, p>>
      BY <1>5, <3>1, <3>3 DEF DeleteDelivered, Inv, Backed
    <3> QED BY <3>2, <3>3
  <2>2. CASE \E n \in Msg, q \in Peer, kind \in {"delivered", "read"}, asRead \in BOOLEAN :
                RecordReceipt(kind, n, q, asRead)
    BY <1>0, <1>5, <2>2, RecordFacts
  <2>3. CASE SenderCrash
    BY <2>3 DEF SenderCrash
  <2> QED BY <1>0, <1>5, <2>1, <2>2, <2>3, ConfirmChanges DEF Receive
<1> QED BY <1>3, <1>4, <1>5

\* A recorded receipt frees every row of the message for its recipient, the key
\* frames too, and neither the use case nor a running flush brings one back,
\* unless the sender dies between the two writes of a receipt.
THEOREM RowsAreFreed == Spec => []ReceiptFreesRows
<1>1. Init => ReceiptFreesRows
  BY DEF Init, ReceiptFreesRows
<1>2. ASSUME Inv, ReceiptFreesRows, [Next]_allVars PROVE ReceiptFreesRows'
  <2>1. CASE UNCHANGED allVars
    BY <1>2, <2>1 DEF ReceiptFreesRows, allVars, vars, SenderCrashes, Frames, To, Grouped
  <2> QED BY <1>2, <2>1, FreesStep
<1> QED BY Invariance, <1>1, <1>2, PTL DEF Spec, allVars

-----------------------------------------------------------------------------
(* A spent key can be answered for.                                        *)

\* A frame that the sender has given up stays given up.
LEMMA DeadStays ==
    ASSUME Inv, Next, NEW f \in Frame, Seen(f) PROVE Dead(f) => Dead(f)'
<1>1. ~PutOutbox(f)
  BY DEF Inv, Fresh, PutOutbox, First
<1> QED BY <1>1, RowStep DEF Next, Inv, Dead

LEMMA AnsweredStays ==
    ASSUME Inv, Next, NEW f \in Frame, Seen(f), f.to \notin Crowded
    PROVE  Answered(f) => Answered(f)'
<1>0. Step /\ TypeOK
  BY DEF Next, Inv
<1>1. CASE Dead(f)
  BY <1>1, DeadStays DEF Answered
<1>2. ASSUME processed[f] # "none", processed'[f] = "none" PROVE Dead(f)
  <2>1. CASE \E g \in Frame : Remember(g)
    BY <1>0, <1>2, <2>1 DEF Remember, TypeOK
  <2>2. CASE \E g \in Frame : PruneProcessed(g)
    BY <1>0, <1>2, <2>2 DEF PruneProcessed, TypeOK, Dead
  <2> QED BY <1>0, <1>2, <2>1, <2>2, StoreChanges DEF Store
<1> QED BY <1>1, <1>2 DEF Answered

LEMMA CoveredStep ==
    ASSUME Inv, Covered, Next PROVE Covered'
<1>0. Step /\ TypeOK /\ RxShape
  BY DEF Next, Inv
<1> SUFFICES ASSUME NEW f \in Frame, f.to \notin PeerCrashes \cup Crowded, f.msg \notin Grouped \cup Pointer
             PROVE  /\ f \in ratchet' => Answered(f)' \/ f \in rx'[f.to].frames
                    /\ f \in ratchet' /\ At(f, "lookup")' => Answered(f)'
                    /\ f \in ratchet' /\ At(f, "decrypt")' => Dead(f)'
                    /\ At(f, "receipt")' \/ At(f, "ack")' => Answered(f)'
  BY EnvKept DEF Covered
<1>1. /\ f \in ratchet => Answered(f) \/ f \in rx[f.to].frames
      /\ f \in ratchet /\ At(f, "lookup") => Answered(f)
      /\ f \in ratchet /\ At(f, "decrypt") => Dead(f)
      /\ At(f, "receipt") \/ At(f, "ack") => Answered(f)
  BY DEF Covered
<1>2. f \in ratchet \/ f \in rx[f.to].frames => (Dead(f) => Dead(f)') /\ (Answered(f) => Answered(f)')
  BY DeadStays, AnsweredStays DEF Seen
<1>3. rx \in [Peer -> RxRow] /\ f.to \in Peer /\ processed[f] \in {"none", "silent", "receipt"}
  BY <1>0, FrameParts DEF TypeOK, RxRow
<1>4. f \in ratchet' => f \in ratchet \/ (Decrypt(f) /\ f \in rx'[f.to].frames)
  <2>1. CASE \E g \in Frame : Decrypt(g)
    <3>1. PICK g \in Frame : Decrypt(g)
      BY <2>1
    <3>2. CASE g = f
      BY <1>3, <3>1, <3>2 DEF Decrypt, At, Goto, RxRow
    <3>3. CASE g # f
      BY <3>1, <3>3 DEF Decrypt
    <3> QED BY <3>2, <3>3
  <2>2. CASE \E g \in Frame : Handle(g) /\ ~Decrypt(g)
    BY <2>2 DEF Handle, Lookup, DecryptUnusable, OpenRejected, DropBlocked, InstallKey, Store,
       RefusePointer, Remember, SendReceipt, SendAck
  <2>3. CASE (\E g \in Frame : Deliver(g)) \/ \E p \in Peer : PeerCrash(p)
    BY <2>3 DEF Deliver, PeerCrash
  <2> QED BY <1>0, <2>1, <2>2, <2>3, HandlerChanges
<1>5. f \in ratchet' => Answered(f)' \/ f \in rx'[f.to].frames
  <2> SUFFICES ASSUME f \in ratchet, ~Answered(f), f \in rx[f.to].frames, f \notin rx'[f.to].frames
               PROVE  FALSE
    BY <1>1, <1>2, <1>4
  <2>1. Handle(f)
    BY <1>0, RxStep DEF PeerCrash
  <2>2. ~Dead(f)
    BY DEF Answered
  <2>3. CASE Lookup(f) \/ Remember(f)
    BY <1>3, <2>3 DEF Lookup, Remember, Goto, RxRow
  <2>4. CASE Decrypt(f)
    BY <1>1, <2>2, <2>4 DEF Decrypt
  <2>5. CASE OpenRejected(f) \/ RefusePointer(f)
    BY <2>5 DEF OpenRejected, RefusePointer
  <2>6. CASE DecryptUnusable(f) \/ DropBlocked(f) \/ InstallKey(f) \/ Store(f)
    BY <1>3, <2>6 DEF DecryptUnusable, DropBlocked, InstallKey, Store, Processed, RxRow
  <2>7. CASE \E ok \in BOOLEAN : SendReceipt(f, ok) \/ SendAck(f, ok)
    BY <1>1, <2>7 DEF SendReceipt, SendAck
  <2> QED BY <2>1, <2>3, <2>4, <2>5, <2>6, <2>7 DEF Handle
<1>6. CASE f \in rx'[f.to].frames /\ rx'[f.to] = rx[f.to]
  <2>1. f \in ratchet' /\ (At(f, "lookup") \/ At(f, "decrypt")) => f \in ratchet
    BY <1>3, <1>4, <1>6 DEF Decrypt, At, Goto, Return, RxRow, NoRx
  <2> QED BY <1>1, <1>2, <1>5, <1>6, <2>1 DEF At
<1>7. CASE Deliver(f)
  <2>1. f \notin rx[f.to].frames /\ rx'[f.to].pc = "lookup" /\ ratchet' = ratchet
    BY <1>0, <1>3, <1>7 DEF Deliver, RxShape
  <2> QED BY <1>1, <1>2, <1>5, <2>1 DEF At
<1>8. CASE Lookup(f)
  <2>1. /\ At(f, "lookup") /\ ratchet' = ratchet /\ UNCHANGED <<processed, outbox>>
        /\ processed[f] = "none" => rx'[f.to].pc = "decrypt"
        /\ processed[f] # "none" => rx'[f.to].pc \in {"ack", "receipt"}
    BY <1>3, <1>8 DEF Lookup, storeVars, senderVars, RxRow
  <2>2. Answered(f)' = Answered(f) /\ Dead(f)' = Dead(f)
    BY <2>1 DEF Answered, Dead
  <2> QED BY <1>1, <1>5, <2>1, <2>2 DEF At, Answered
<1>9. CASE Remember(f)
  <2>1. processed'[f] # "none" /\ rx'[f.to].pc \in {"ack", "receipt"}
    BY <1>0, <1>3, <1>9 DEF Remember, Goto, RxRow, TypeOK
  <2> QED BY <1>5, <2>1 DEF At, Answered
<1>10. CASE \E ok \in BOOLEAN : SendReceipt(f, ok) \/ SendAck(f, ok)
  <2>1. f \in rx[f.to].frames /\ (At(f, "receipt") \/ At(f, "ack")) /\ rx'[f.to].pc \in {"idle", "ack"}
    BY <1>3, <1>10 DEF SendReceipt, SendAck, At, Goto, Return, RxRow, NoRx
  <2> QED BY <1>1, <1>2, <1>5, <2>1 DEF At
<1>11. CASE Decrypt(f) \/ DecryptUnusable(f) \/ OpenRejected(f)
  <2>1. rx'[f.to].pc \in {"idle", "open", "remember"}
    BY <1>3, <1>11 DEF Decrypt, DecryptUnusable, OpenRejected, Goto, Return, Processed, RxRow, NoRx
  <2> QED BY <1>5, <2>1 DEF At
<1>12. CASE DropBlocked(f) \/ InstallKey(f) \/ Store(f) \/ RefusePointer(f)
  <2>1. rx'[f.to].pc \in {"idle", "remember"}
    BY <1>3, <1>12 DEF DropBlocked, InstallKey, Store, RefusePointer, Return, Processed, RxRow, NoRx
  <2> QED BY <1>5, <2>1 DEF At
<1>13. CASE f \notin rx'[f.to].frames
  BY <1>5, <1>13 DEF At
<1> QED BY <1>0, <1>6, <1>7, <1>8, <1>9, <1>10, <1>11, <1>12, <1>13, RxStep DEF Handle

\* No lost frame, lost receipt, block, unusable session, retention sweep or
\* resend leaves a direct message with a spent message key and nothing to answer
\* the sender's next retry with, as long as the recipient's process lives and its
\* dedup table stays within its cap.
THEOREM SpentKeysAnswered == Spec => []SpentIsRemembered
<1>1. Init => Covered
  BY FrameParts DEF Init, Covered, At, NoRx
<1>2. ASSUME Inv, Covered, [Next]_allVars PROVE Covered'
  <2>1. CASE UNCHANGED allVars
    BY <1>2, <2>1 DEF Covered, Answered, Dead, At, allVars, vars, PeerCrashes, Crowded,
       Grouped, Pointer
  <2> QED BY <1>2, <2>1, CoveredStep
<1>3. Inv /\ Covered => SpentIsRemembered
  BY DEF Inv, TypeOK, Covered, SpentIsRemembered, Answerable, Answered, Dead
<1> QED BY Invariance, <1>1, <1>2, <1>3, PTL DEF Spec, allVars

-----------------------------------------------------------------------------
(* No silent loss.                                                         *)

\* A row goes because its encryption failed, it expired, or it is confirmed.
LEMMA RowLost ==
    ASSUME TypeOK, Step, NEW f \in Frame, outbox[f].st # "none", outbox'[f].st = "none"
    PROVE  PrepareFails(f.msg) \/ FlushExpire(f) \/ DeleteDelivered(f.msg, f.to)
<1>0. outbox \in [Frame -> Row]
  BY DEF TypeOK, Row
<1>1. CASE \E m \in Msg : PrepareFails(m)
  BY <1>0, <1>1 DEF PrepareFails
<1>2. CASE \E m \in Msg : Age(m)
  BY <1>0, <1>2 DEF Age, Row
<1>3. CASE \E g \in Frame : PutOutbox(g)
  BY <1>0, <1>3, Rows DEF PutOutbox
<1>4. CASE \E g \in Frame : FlushExpire(g)
  BY <1>0, <1>4 DEF FlushExpire
<1>5. CASE \E g \in Frame : BackoffOver(g)
  BY <1>0, <1>5 DEF BackoffOver, Row
<1>6. CASE \E g \in Frame : MarkFirst(g) \/ FlushMark(g)
  <2>1. \E g \in Frame, ok \in BOOLEAN : outbox' = [outbox EXCEPT ![g] = Marked(outbox[g], ok)]
    BY <1>0, <1>6 DEF MarkFirst, FlushMark
  <2> QED BY <1>0, <2>1, MarkedRow
<1>7. CASE \E m \in Msg, p \in Peer : DeleteDelivered(m, p)
  BY <1>0, <1>7 DEF DeleteDelivered
<1> QED BY <1>1, <1>2, <1>3, <1>4, <1>5, <1>6, <1>7, OutboxChanges

\* While the use case runs, every recipient's frame is still to come, in the
\* outbox or confirmed.
Held(m, p) ==
    Content(m, p) \in job.todo \/ outbox[Content(m, p)].st # "none" \/ p \in deliveredTo[m]

LEMMA TodoKept ==
    ASSUME TypeOK, Step, NEW f \in Frame, f \in job.todo, f \notin job'.todo, JobShape
    PROVE  outbox'[f].st # "none" \/ (\E m \in Msg : Finish(m)) \/ SenderCrash
<1>0. job \in Job /\ outbox \in [Frame -> Row]
  BY DEF TypeOK, Job, Row
<1>1. CASE \E m \in Msg : Compose(m)
  BY <1>1 DEF Compose, JobShape
<1>2. CASE \E m \in Msg : PrepareFails(m)
  BY <1>0, <1>2 DEF PrepareFails, Job
<1>3. CASE \E g \in Frame : PutOutbox(g)
  BY <1>0, <1>3, Rows DEF PutOutbox, Job
<1>4. CASE \E g \in Frame : MarkFirst(g) \/ \E ok \in BOOLEAN : SendFirst(g, ok)
  BY <1>0, <1>4 DEF MarkFirst, SendFirst, Job
<1> QED BY <1>1, <1>2, <1>3, <1>4, JobChanges DEF UseCase

LEMMA HeldStep ==
    ASSUME Inv, Next, NEW m \in Msg, m \in job.msg, NEW p \in To[m], Held(m, p)
    PROVE  Held(m, p)' \/ Finish(m) \/ SenderCrash
<1>0. Step /\ TypeOK /\ JobShape /\ p \in Peer /\ Content(m, p) \in Frame
  BY Recipients, ContentTyped DEF Next, Inv
<1> DEFINE c == Content(m, p)
<1>1. c' = c /\ c.msg = m /\ c.to = p
  BY <1>0 DEF Content
<1> HIDE DEF c
<1>2. CASE c \in job.todo
  <2>1. (\E n \in Msg : Finish(n)) => Finish(m)
    BY <1>0 DEF Finish, JobShape
  <2> QED BY <1>0, <1>1, <1>2, <2>1, TodoKept DEF Held, c
<1>3. CASE p \in deliveredTo[m]
  BY <1>0, <1>3, StatusStep DEF Held
<1>4. CASE outbox[c].st # "none"
  <2>1. CASE outbox'[c].st # "none"
    BY <1>1, <2>1 DEF Held, c
  <2>2. CASE PrepareFails(m)
    <3>1. c \in job'.todo
      BY <1>0, <2>2 DEF PrepareFails, TypeOK, c
    <3> QED BY <1>1, <3>1 DEF Held, c
  <2>3. ~FlushExpire(c)
    BY <1>0, <1>1 DEF FlushExpire, Inv, Aged, c
  <2>4. CASE DeleteDelivered(m, p)
    <3>1. p \in deliveredTo[m]
      BY <1>0, <2>4 DEF DeleteDelivered, Inv, Backed
    <3> QED BY <1>3, <3>1
  <2> QED BY <1>0, <1>1, <1>4, <2>1, <2>2, <2>3, <2>4, RowLost DEF c
<1> QED BY <1>2, <1>3, <1>4 DEF Held, c

LEMMA KeptStep ==
    ASSUME Inv, Next, NEW m \in Msg, m \notin job.msg, NEW p \in To[m], Tame(m), Kept(m, p)
    PROVE  Kept(m, p)' \/ (MayAge /\ status'[m] # "sent")
<1>0. Step /\ TypeOK /\ p \in Peer /\ Content(m, p) \in Frame
  BY Recipients, ContentTyped DEF Next, Inv
<1> DEFINE c == Content(m, p)
<1>1. c' = c /\ c.msg = m /\ c.to = p
  BY <1>0 DEF Content
<1> HIDE DEF c
<1>2. CASE p \in deliveredTo[m]
  BY <1>0, <1>2, StatusStep DEF Kept
<1>3. CASE outbox[c].st # "none"
  <2>1. CASE outbox'[c].st # "none"
    BY <1>1, <2>1 DEF Kept, c
  <2>2. ~PrepareFails(m)
    BY DEF PrepareFails
  <2>3. CASE FlushExpire(c)
    <3>1. flush'.pc = "fail" /\ c \in flush'.cur
      BY <1>0, <2>3 DEF FlushExpire, TypeOK
    <3> QED BY <1>1, <3>1 DEF Kept, c
  <2>4. CASE DeleteDelivered(m, p)
    <3>1. p \in deliveredTo[m]
      BY <1>0, <2>4 DEF DeleteDelivered, Inv, Backed
    <3> QED BY <1>2, <3>1
  <2> QED BY <1>0, <1>1, <1>3, <2>1, <2>2, <2>3, <2>4, RowLost DEF c
<1>4. CASE flush.pc = "fail" /\ c \in flush.cur
  <2>1. MayAge /\ ~SenderCrashes
    BY <1>4 DEF Inv, Aged, Tame
  <2>2. CASE flush' = flush
    BY <1>1, <1>4, <2>2 DEF Kept, c
  <2>3. CASE \E f \in Frame : FlushFail(f)
    <3>1. FlushFail(c)
      BY <1>4, <2>3 DEF FlushFail, Inv, FlushShape
    <3>2. status'[m] # "sent"
      BY <1>0, <1>1, <3>1 DEF FlushFail, TypeOK
    <3> QED BY <2>1, <3>2
  <2>4. ~SenderCrash /\ ~FlushStart /\ ~FlushEnd
    BY <1>4, <2>1 DEF SenderCrash, FlushStart, FlushEnd
  <2>5. \A f \in Frame : /\ ~FlushExpire(f) /\ ~FlushSkip(f) /\ ~FlushMark(f)
                         /\ \A ok \in BOOLEAN : ~FlushSend(f, ok)
    BY <1>4 DEF FlushExpire, FlushSkip, FlushMark, FlushSend
  <2> QED BY <1>0, <2>2, <2>3, <2>4, <2>5, FlushChanges DEF FlushStep
<1> QED BY <1>2, <1>3, <1>4 DEF Kept, c

\* A receipt makes more of a message with one recipient than sent, and is for
\* a message that someone has.
LEMMA RecordRaises ==
    ASSUME Inv, NEW kind, NEW m \in Msg, NEW p \in Peer, NEW asRead,
           RecordReceipt(kind, m, p, asRead)
    PROVE  /\ OneRecipient(m) => status'[m] # "sent"
           /\ p \in To[m] /\ Seen(Content(m, p)) /\ status[m] # "none"
<1>0. TypeOK
  BY DEF Inv
<1>1. <<kind, m, p>> \in receipts /\ p \in deliveredTo'[m]
      /\ status'[m] = Aggregate(m, deliveredTo'[m], readBy'[m])
  BY <1>0, RecordFacts
<1>2. <<m, p>> \in stored /\ p \in To[m]
  BY <1>1, ReceiptIsBacked
<1>3. Seen(Content(m, p))
  BY <1>2, StoredIsSeen
<1>4. status[m] # "none"
  BY <1>3, ContentTyped DEF Inv, Fresh
<1>5. OneRecipient(m) => To[m] \subseteq deliveredTo'[m]
  BY <1>1, <1>2 DEF OneRecipient
<1> QED BY <1>1, <1>2, <1>3, <1>4, <1>5 DEF Aggregate

LEMMA JobMsgStep ==
    ASSUME TypeOK, Step, NEW m \in Msg
    PROVE  /\ m \in job'.msg /\ m \notin job.msg => Compose(m)
           /\ m \in job.msg /\ m \notin job'.msg => (\E n \in Msg : Compose(n) \/ Finish(n)) \/ SenderCrash
           /\ Compose(m) => m \in job'.msg /\ job'.todo = Frames(m) /\ status'[m] = "sending"
<1>0. job \in Job /\ status \in [Msg -> {"none", "sending", "sent", "delivered", "read", "failed"}]
  BY DEF TypeOK, Job
<1>1. Compose(m) => m \in job'.msg /\ job'.todo = Frames(m) /\ status'[m] = "sending"
  BY <1>0 DEF Compose
<1>2. CASE \E n \in Msg : Compose(n)
  <2>1. PICK n \in Msg : Compose(n)
    BY <1>2
  <2>2. job'.msg = {n}
    BY <2>1 DEF Compose
  <2> QED BY <1>1, <2>1, <2>2
<1>3. CASE \E n \in Msg : PrepareFails(n)
  <2>1. job'.msg = job.msg
    BY <1>0, <1>3 DEF PrepareFails, Job
  <2> QED BY <1>1, <2>1
<1>4. CASE \E n \in Msg : Finish(n)
  <2>1. job'.msg = {}
    BY <1>4 DEF Finish, NoJob
  <2> QED BY <1>1, <1>4, <2>1
<1>5. CASE \E f \in Frame : UseCase(f)
  <2>1. job'.msg = job.msg
    BY <1>0, <1>5 DEF UseCase, PutOutbox, SendFirst, MarkFirst, Job
  <2> QED BY <1>1, <2>1
<1>6. CASE SenderCrash
  <2>1. job'.msg = {}
    BY <1>6 DEF SenderCrash, NoJob
  <2> QED BY <1>1, <1>6, <2>1
<1> QED BY <1>1, <1>2, <1>3, <1>4, <1>5, <1>6, JobChanges

LEMMA NoneLostStep ==
    ASSUME Inv, NoneLost, Next PROVE NoneLost'
<1>0. Step /\ TypeOK
  BY DEF Next, Inv
<1>1. \A n \in Msg : OneRecipient(n)' = OneRecipient(n) /\ Tame(n)' = Tame(n)
  BY EnvKept DEF OneRecipient, Tame
<1> SUFFICES ASSUME NEW m \in Msg, Tame(m) PROVE Accounted(m)'
  BY <1>1 DEF NoneLost
<1>2. Accounted(m)
  BY DEF NoneLost
<1>3. \A p \in To[m] : /\ Content(m, p) \in Frame /\ Content(m, p).msg = m
                       /\ Content(m, p) \in Frames(m)
  BY <1>0, Recipients, ContentTyped, FramesTyped
<1>4. CASE m \in job.msg /\ m \in job'.msg
  <2>1. \A p \in To[m] : Held(m, p)
    BY <1>2, <1>4 DEF Accounted, Held
  <2>2. ~Finish(m) /\ ~SenderCrash
    BY <1>4 DEF Finish, SenderCrash, NoJob
  <2>3. \A p \in To[m] : Held(m, p)'
    BY <1>4, <2>1, <2>2, HeldStep
  <2>4. OneRecipient(m) => status'[m] # "sent"
    <3>1. OneRecipient(m) => status[m] # "sent"
      BY <1>2, <1>4 DEF Accounted
    <3>2. Compose(m) => status'[m] # "sent"
      BY <1>0 DEF Compose, TypeOK
    <3> QED BY <1>0, <2>2, <3>1, <3>2, StatusMoves, RecordRaises
  <2> QED BY <1>1, <1>4, <2>3, <2>4, EnvKept DEF Accounted, Held, Content
<1>5. CASE m \notin job.msg /\ m \in job'.msg
  <2>1. Compose(m) /\ job'.todo = Frames(m) /\ status'[m] = "sending"
    BY <1>0, <1>5, JobMsgStep
  <2> QED BY <1>1, <1>3, <1>5, <2>1, EnvKept DEF Accounted, Content
<1>6. CASE m \in job.msg /\ m \notin job'.msg
  <2>1. Finish(m) \/ SenderCrash
    <3>1. ~\E n \in Msg : Compose(n)
      BY <1>6 DEF Compose, Inv, JobShape
    <3>2. \A n \in Msg : Finish(n) => n = m
      BY <1>6 DEF Finish, Inv, JobShape
    <3> QED BY <1>0, <1>6, <3>1, <3>2, JobMsgStep
  <2>2. CASE SenderCrash
    <3>1. OneRecipient(m) /\ status'[m] = status[m]
      BY <2>2 DEF SenderCrash, Tame, messageVars
    <3>2. status[m] # "sent"
      BY <1>2, <1>6, <3>1 DEF Accounted
    <3> QED BY <1>1, <1>6, <3>1, <3>2 DEF Accounted
  <2>3. CASE Finish(m) /\ job.pc # "abort"
    <3>1. job.todo = {} /\ UNCHANGED <<outbox, deliveredTo>>
      BY <2>3 DEF Finish
    <3>2. \A p \in To[m] : outbox[Content(m, p)].st # "none" \/ p \in deliveredTo[m]
      BY <1>2, <1>6, <3>1 DEF Accounted
    <3>3. \A p \in To[m] : Kept(m, p)'
      BY <3>1, <3>2 DEF Kept, Content
    <3> QED BY <1>1, <1>6, <3>3, EnvKept DEF Accounted
  <2>4. CASE Finish(m) /\ job.pc = "abort"
    <3>1. \A p \in To[m] : Content(m, p) \in job.todo /\ ~Seen(Content(m, p))
      BY <1>3, <1>6, <2>4 DEF Inv, JobShape, Fresh
    <3>2. status[m] \in {"sending", "failed"}
      <4>1. ASSUME NEW p \in To[m], p \in deliveredTo[m] PROVE FALSE
        <5>1. p \in Peer /\ <<m, p>> \in stored
          BY <1>0, <4>1, Recipients DEF Inv, DeliveredIsStored
        <5> QED BY <3>1, <5>1, StoredIsSeen
      <4> QED BY <1>6, <4>1 DEF Inv, JobShape
    <3>3. status'[m] = "failed"
      BY <1>0, <2>4, <3>2 DEF Finish, IfSending, TypeOK
    <3>4. \A p \in To[m] : ~Seen(Content(m, p))'
      <4>1. \A f \in Frame : ~PutOutbox(f)
        BY <2>4 DEF PutOutbox
      <4>2. \A f \in Frame : Seen(f)' => Seen(f)
        BY <1>0, <4>1, SeenStep DEF Inv
      <4> QED BY <1>3, <3>1, <4>2 DEF Content
    <3> QED BY <1>1, <1>6, <3>3, <3>4, EnvKept DEF Accounted
  <2> QED BY <2>1, <2>2, <2>3, <2>4
<1>7. CASE m \notin job.msg /\ m \notin job'.msg
  <2>1. ~Compose(m) /\ ~Finish(m)
    BY <1>0, <1>7, JobMsgStep DEF Finish
  <2>2. CASE OneRecipient(m)
    <3> SUFFICES ASSUME status'[m] = "sent" PROVE \A p \in To[m] : Kept(m, p)'
      BY <1>1, <1>7, <2>2, EnvKept DEF Accounted
    <3>1. status[m] = "sent"
      BY <1>0, <2>1, <2>2, StatusMoves, RecordRaises
    <3>2. \A p \in To[m] : Kept(m, p)
      BY <1>2, <1>7, <2>2, <3>1 DEF Accounted
    <3> QED BY <1>7, <3>2, KeptStep
  <2>3. CASE ~OneRecipient(m)
    <3>0. ~MayAge
      BY <2>3 DEF Tame
    <3> SUFFICES ASSUME status'[m] # "none"
                 PROVE  \/ \A p \in To[m] : Kept(m, p)'
                        \/ status'[m] = "failed" /\ \A p \in To[m] : ~Seen(Content(m, p))'
      BY <1>1, <1>7, <2>3, EnvKept DEF Accounted
    <3>1. status[m] # "none"
      BY <1>0, <2>1, StatusMoves, RecordRaises
    <3>2. CASE \A p \in To[m] : Kept(m, p)
      BY <1>7, <3>0, <3>2, KeptStep
    <3>3. CASE status[m] = "failed" /\ \A p \in To[m] : ~Seen(Content(m, p))
      <4>1. status'[m] = "failed"
        BY <1>0, <3>3, StatusMoves, RecordRaises
      <4>2. \A p \in To[m] : ~Seen(Content(m, p))'
        <5>1. \A p \in To[m] : ~PutOutbox(Content(m, p))
          BY <1>3, <1>7 DEF PutOutbox, First, Inv, JobShape
        <5>2. \A f \in Frame : Seen(f)' => Seen(f) \/ PutOutbox(f)
          BY <1>0, SeenStep DEF Inv
        <5> QED BY <1>3, <3>3, <5>1, <5>2 DEF Content
      <4> QED BY <4>1, <4>2
    <3> QED BY <1>2, <1>7, <2>3, <3>1, <3>2, <3>3 DEF Accounted
  <2> QED BY <2>2, <2>3
<1> QED BY <1>4, <1>5, <1>6, <1>7

\* A message shown as sent is not lost silently: for every recipient the outbox
\* still holds it, or the recipient has confirmed it, or the flush that dropped
\* its row is about to mark the message failed.  This is where it holds: not
\* when a sender may die between the two writes of an expired row, and, for a
\* message with several recipients, only where rows do not expire and the
\* sender lives, since a later receipt turns failed back into sent.
THEOREM NothingLostSilently ==
    Spec => []((\A m \in Msg : Tame(m)) => NeverSilentlyLost)
<1>1. Init => NoneLost
  BY DEF Init, NoneLost, Accounted, NoJob
<1>2. ASSUME Inv, NoneLost, [Next]_allVars PROVE NoneLost'
  <2>1. CASE UNCHANGED allVars
    <3>1. UNCHANGED <<env, status, deliveredTo, readBy, outbox, job, flush, confirm, server, got,
                      rx, ratchet, keys, stored, processed, receipts, blocked, opened>>
      BY <2>1 DEF allVars, vars
    <3>2. \A m \in Msg : Accounted(m)' = Accounted(m) /\ Tame(m)' = Tame(m)
      BY <3>1 DEF Accounted, Kept, Tame, OneRecipient, Seen, Queued, Content, To, MayAge,
                  SenderCrashes
    <3> QED BY <1>2, <3>2 DEF NoneLost
  <2> QED BY <1>2, <2>1, NoneLostStep
<1>3. Inv /\ NoneLost => ((\A m \in Msg : Tame(m)) => NeverSilentlyLost)
  BY DEF NoneLost, Accounted, Kept, NeverSilentlyLost, OneRecipient
<1> QED BY Invariance, <1>1, <1>2, <1>3, PTL DEF Spec, allVars
=============================================================================
